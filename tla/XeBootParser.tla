---------------------------- MODULE XeBootParser ----------------------------
(***************************************************************************)
(* The loop of XeParseBootArgs, one token per step.  XeService::init calls *)
(* it for every instance of the service, and gXeBoot outlives them all, so *)
(* the loop runs again over flags it has already set.                      *)
(***************************************************************************)
EXTENDS XeBootArgs

VARIABLES
  rest,                 \* the tokens from p on
  parsed                \* history: the loop has run to its end once

parserVars == <<bootArgs, gXeBoot, rest, parsed>>

(* Mutant: strictsafe does not bring nocs with it.                         *)
SetFlagStrictOnly(flags, token) ==
  CASE token = "verbose"     -> [flags EXCEPT !.verbose = TRUE]
    [] token = "noforcewake" -> [flags EXCEPT !.disableForcewake = TRUE]
    [] token = "nocs"        -> [flags EXCEPT !.disableCommandStream = TRUE]
    [] token = "strictsafe"  -> [flags EXCEPT !.strictSafe = TRUE,
                                              !.disableForcewake = TRUE]
    [] OTHER                 -> flags

(* Mutant: a token that names no flag resets them.                         *)
SetFlagOtherResets(flags, token) ==
  CASE token = "verbose"     -> [flags EXCEPT !.verbose = TRUE]
    [] token = "noforcewake" -> [flags EXCEPT !.disableForcewake = TRUE]
    [] token = "nocs"        -> [flags EXCEPT !.disableCommandStream = TRUE]
    [] token = "strictsafe"  -> [flags EXCEPT !.strictSafe = TRUE,
                                              !.disableForcewake = TRUE,
                                              !.disableCommandStream = TRUE]
    [] OTHER                 -> NoFlags

(* The chain of strcmp in the body of the loop.                            *)
SetFlag(flags, token) ==
  CASE token = "verbose"     -> [flags EXCEPT !.verbose = TRUE]
    [] token = "noforcewake" -> [flags EXCEPT !.disableForcewake = TRUE]
    [] token = "nocs"        -> [flags EXCEPT !.disableCommandStream = TRUE]
    [] token = "strictsafe"  -> [flags EXCEPT !.strictSafe = TRUE,
                                              !.disableForcewake = TRUE,
                                              !.disableCommandStream = TRUE]
    [] OTHER                 -> flags

ParserInit == BootInit /\ rest = bootArgs /\ parsed = FALSE

ParseToken ==
  /\ rest # << >>
  /\ gXeBoot' = SetFlag(gXeBoot, Head(rest))
  /\ rest' = Tail(rest)
  /\ UNCHANGED <<bootArgs, parsed>>

ParseAgain ==
  /\ rest = << >>
  /\ rest' = bootArgs
  /\ parsed' = TRUE
  /\ UNCHANGED <<bootArgs, gXeBoot>>

ParserNext == ParseToken \/ ParseAgain

ParserSpec == ParserInit /\ [][ParserNext]_parserVars

-----------------------------------------------------------------------------
(* At the end of the loop the flags are those of Parsed, which the other   *)
(* modules use: independent of the order and the repetition of the tokens. *)
LoopComputesParsed == rest = << >> => gXeBoot = Parsed(NoFlags, bootArgs)

(* A second instance of the service that parses the same argument leaves   *)
(* the flags alone at every point of its loop, so a thread of the first    *)
(* instance that is testing them cannot see a safety flag flicker.         *)
ReparseIsInvisible == [][parsed => gXeBoot' = gXeBoot]_parserVars

=============================================================================
