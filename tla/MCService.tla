----------------------------- MODULE MCService -----------------------------
(* Instances of XeService for TLC.                                         *)
EXTENDS XeService, TLC

MiB == 1024 * 1024

\* noforcewake alone leaves the ring reads on; the others turn them off.
MCBootArgs == {<< >>, <<"noforcewake">>, <<"nocs">>, <<"strictsafe">>}

MCStrictSafe == {<<"strictsafe">>}

\* 16 MiB is what lspci shows.  1 MiB is the least that start takes without a
\* warning; the fence registers and RC6_RESIDENCY_TIME are past its end.
MCBarLengths == {MiB, 16 * MiB}

\* After two threads have been inside setObject together, what the calls in
\* ucCreateBuffer still do is explored, and stop, but no further calls.
OneRace ==
  raced => /\ \A t \in Threads : pc[t] \in {"idle", "create"}
           /\ RegistryQuiet => ~active

Symmetry == Permutations(Threads) \cup Permutations(Clients) \cup Permutations(BOs)

=============================================================================
