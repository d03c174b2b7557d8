---------------------------- MODULE MCForcewake ----------------------------
(* Instances of ForcewakeGuard for TLC.                                    *)
EXTENDS ForcewakeGuard

MCBootArgs == {<< >>, <<"noforcewake">>, <<"verbose", "strictsafe">>}

=============================================================================
