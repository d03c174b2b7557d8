----------------------------- MODULE XeBootArgs -----------------------------
(***************************************************************************)
(* kexts/XeBootArgs.{hpp,cpp}: the xepci= boot argument and the global     *)
(* gXeBoot it sets.  The argument is the sequence of its comma-separated   *)
(* tokens after trimming and lower-casing; a token that names no flag is   *)
(* any other string.  An absent argument and an empty one set nothing.     *)
(***************************************************************************)
EXTENDS Naturals, Sequences

CONSTANT BootArgs       \* the xepci= arguments the machine may boot with

Tokens == {"verbose", "noforcewake", "nocs", "strictsafe", "other"}

ASSUME BootArgsAssumption == BootArgs \subseteq Seq(Tokens)

VARIABLES
  bootArgs,             \* what the machine was booted with; never changes
  gXeBoot               \* the XeBootFlags of the kext

bootVars == <<bootArgs, gXeBoot>>

XeBootFlags ==
  [verbose : BOOLEAN, disableForcewake : BOOLEAN,
   disableCommandStream : BOOLEAN, strictSafe : BOOLEAN]

NoFlags ==
  [verbose |-> FALSE, disableForcewake |-> FALSE,
   disableCommandStream |-> FALSE, strictSafe |-> FALSE]

(* The flags after the whole argument: a flag is only ever set, so it is   *)
(* set when it was, or when a token that sets it occurs anywhere.          *)
Named(args, names) == \E i \in DOMAIN args : args[i] \in names

Parsed(flags, args) ==
  [verbose              |-> flags.verbose \/ Named(args, {"verbose"}),
   disableForcewake     |-> flags.disableForcewake
                              \/ Named(args, {"noforcewake", "strictsafe"}),
   disableCommandStream |-> flags.disableCommandStream
                              \/ Named(args, {"nocs", "strictsafe"}),
   strictSafe           |-> flags.strictSafe \/ Named(args, {"strictsafe"})]

BootInit ==
  /\ bootArgs \in BootArgs
  /\ gXeBoot = NoFlags

(* XeParseBootArgs(), called by XeService::init.                           *)
XeParseBootArgs ==
  /\ gXeBoot' = Parsed(gXeBoot, bootArgs)
  /\ UNCHANGED bootArgs

(* gXeBoot holds all the argument says; parsing again changes nothing.     *)
BootParsed == gXeBoot = Parsed(gXeBoot, bootArgs)

BootTypeOK ==
  /\ bootArgs \in BootArgs
  /\ gXeBoot \in XeBootFlags

=============================================================================
