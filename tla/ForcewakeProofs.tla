-------------------------- MODULE ForcewakeProofs --------------------------
(***************************************************************************)
(* Proofs about ForcewakeGuard, for every number of threads and every      *)
(* polling bound.                                                          *)
(***************************************************************************)
EXTENDS ForcewakeGuard, TLAPS

(* A guard that polls, or that acquired, has its request standing unless   *)
(* it was robbed of it; and an acknowledged one has the GT awake.          *)
RequestStands ==
  \A t \in Threads \ robbed :
    /\ InUseBy(t) => fwReq
    /\ acquired[t] => gtAwake

(* The inductive invariant.  HolderAwake is not inductive alone: a guard   *)
(* may acquire on the acknowledgement of a request that somebody else has  *)
(* already cleared, so the polling guards are part of the induction too.   *)
GuardInv ==
  /\ BootTypeOK
  /\ GuardTypeOK
  /\ RequestOwned
  /\ \A t \in Threads : acquired[t] => gpc[t] = "scoped"
  /\ RequestStands
  /\ FlagsHonoured

(* XeParseBootArgs turns flags into flags.                                 *)
LEMMA ParsedType ==
  ASSUME NEW flags \in XeBootFlags, NEW args \in BootArgs
  PROVE  Parsed(flags, args) \in XeBootFlags
  BY Zenon DEF Parsed, Named, XeBootFlags

(* After the parse, a flag the argument names is set.                      *)
LEMMA ParsedForcewake ==
  ASSUME BootParsed, Named(bootArgs, {"noforcewake", "strictsafe"})
  PROVE  gXeBoot.disableForcewake
<1>1. gXeBoot.disableForcewake = Parsed(gXeBoot, bootArgs).disableForcewake
  BY Zenon DEF BootParsed
<1> QED BY <1>1 DEF Parsed

(* No guard exists when the kext is loaded.                                *)
LEMMA GuardInitInv ==
  ASSUME BootInit, GuardInit
  PROVE  GuardInv
<1>1. BootTypeOK
  BY DEF BootInit, BootTypeOK, NoFlags, XeBootFlags
<1>2. GuardTypeOK
  <2>1. iter \in [Threads -> 0 .. MaxIterations - 1]
    BY GuardAssumption DEF GuardInit
  <2>2. acquired \in [Threads -> BOOLEAN] /\ gpc \in [Threads -> {"none", "polling", "scoped"}]
    BY Zenon DEF GuardInit
  <2> QED
    BY <2>1, <2>2 DEF GuardInit, GuardTypeOK
<1> QED
  BY <1>1, <1>2 DEF GuardInit, GuardInv, RequestOwned, RequestStands,
                    FlagsHonoured, InUseBy

(* Every access of a guard, the GT and the boot parser keep GuardInv.      *)
LEMMA GuardStepInv ==
  ASSUME GuardInv, [GuardNext]_<<guardVars, bootVars>>
  PROVE  GuardInv'
<1> USE GuardAssumption DEF GuardInv, GuardTypeOK
<1>1. CASE UNCHANGED <<guardVars, bootVars>>
  BY <1>1 DEF guardVars, bootVars, BootTypeOK, RequestOwned, RequestStands,
              FlagsHonoured, InUseBy
<1>2. CASE GTWake /\ UNCHANGED bootVars
  BY <1>2 DEF GTWake, bootVars, BootTypeOK, RequestOwned, RequestStands,
              FlagsHonoured, InUseBy
<1>3. CASE GTSleep /\ UNCHANGED bootVars
  BY <1>3 DEF GTSleep, bootVars, BootTypeOK, RequestOwned, RequestStands,
              FlagsHonoured, InUseBy
<1>4. ASSUME BootParsed, NEW t \in Threads, GuardThread(t), UNCHANGED bootVars
      PROVE  GuardInv'
  <2> USE <1>4
  <2>0. BootTypeOK'
    BY DEF BootTypeOK, bootVars
  <2>1. CASE SkipGuard(t)
    BY <2>0, <2>1 DEF SkipGuard, WantsWake, bootVars, RequestOwned, RequestStands,
                      FlagsHonoured, InUseBy
  <2>2. CASE RequestWake(t)
    <3>1. ~gXeBoot.disableForcewake
      BY <2>2 DEF RequestWake, WantsWake
    <3>2. ~Named(bootArgs, {"noforcewake", "strictsafe"})
      BY <3>1, ParsedForcewake, Zenon
    <3>3. FlagsHonoured'
      BY <3>2 DEF FlagsHonoured, bootVars
    <3> QED BY <2>0, <2>2, <3>3 DEF RequestWake, WantsWake, bootVars, RequestOwned,
                                    RequestStands, InUseBy
  <2>3. CASE PollAcked(t)
    BY <2>0, <2>3 DEF PollAcked, bootVars, RequestOwned, RequestStands,
                      FlagsHonoured, InUseBy
  <2>4. CASE PollInvalid(t)
    BY <2>0, <2>4 DEF PollInvalid, GiveUp, bootVars, RequestOwned,
                      RequestStands, FlagsHonoured, InUseBy
  <2>5. CASE PollAgain(t)
    BY <2>0, <2>5 DEF PollAgain, bootVars, RequestOwned, RequestStands,
                      FlagsHonoured, InUseBy
  <2>6. CASE PollTimeout(t)
    BY <2>0, <2>6 DEF PollTimeout, GiveUp, bootVars, RequestOwned,
                      RequestStands, FlagsHonoured, InUseBy
  <2>7. CASE ReleaseGuard(t)
    <3>1. CASE acquired[t]
      BY <2>0, <2>7, <3>1 DEF ReleaseGuard, bootVars, RequestOwned,
                              RequestStands, FlagsHonoured, InUseBy
    <3>2. CASE ~acquired[t]
      BY <2>0, <2>7, <3>2 DEF ReleaseGuard, bootVars, RequestOwned,
                              RequestStands, FlagsHonoured, InUseBy
    <3> QED BY <3>1, <3>2
  <2> QED
    BY <2>1, <2>2, <2>3, <2>4, <2>5, <2>6, <2>7 DEF GuardThread, Poll
<1>5. CASE GuardBoot
  <2>1. BootTypeOK'
    BY <1>5, ParsedType DEF GuardBoot, XeParseBootArgs, BootTypeOK
  <2> QED
    BY <1>5, <2>1 DEF GuardBoot, XeParseBootArgs, guardVars, RequestOwned,
                      RequestStands, FlagsHonoured, InUseBy
<1> QED
  BY <1>1, <1>2, <1>3, <1>4, <1>5 DEF GuardNext

(* The inductive invariant of the guards, for any number of threads.       *)
THEOREM GuardInvariant == GuardSpec => []GuardInv
  BY GuardInitInv, GuardStepInv, PTL DEF GuardSpec, GuardBootInit

(* The type invariant of the guard, for any number of threads.             *)
THEOREM GuardTypeCorrect == GuardSpec => []GuardTypeOK
<1>1. GuardInv => GuardTypeOK
  BY DEF GuardInv
<1> QED BY <1>1, GuardInvariant, PTL

(* However many threads submit at once, a guard that acquired has the GT   *)
(* awake under its request until another guard's destructor robs it.       *)
THEOREM HoldersAreAwake == GuardSpec => []HolderAwake
<1>1. GuardInv => HolderAwake
  BY DEF GuardInv, RequestStands, HolderAwake, InUseBy
<1> QED BY <1>1, GuardInvariant, PTL

(* The request bit always has an owner, or an acquire() that gave up.      *)
THEOREM RequestsAreOwned == GuardSpec => []RequestOwned
<1>1. GuardInv => RequestOwned
  BY DEF GuardInv
<1> QED BY <1>1, GuardInvariant, PTL

(* An acquire() that gave up is the only way for the request to outlive    *)
(* the guards: without one, no guard in scope means no request.            *)
THEOREM OnlyGivingUpLeavesRequests == GuardSpec => [](orphaned \/ RequestReleased)
<1>1. GuardInv => orphaned \/ RequestReleased
  BY DEF GuardInv, RequestOwned, RequestReleased, InUseBy
<1> QED BY <1>1, GuardInvariant, PTL

(* noforcewake and strictsafe keep every guard off FORCEWAKE_REQ.          *)
THEOREM FlagsAreHonoured == GuardSpec => []FlagsHonoured
<1>1. GuardInv => FlagsHonoured
  BY DEF GuardInv
<1> QED BY <1>1, GuardInvariant, PTL

(* With one caller nobody is robbed, so the guard keeps its promise: the   *)
(* GT is awake for as long as an acquired guard is in scope.               *)
THEOREM SoleCallerIsAwake ==
  ASSUME SoleCaller
  PROVE  GuardSpec => []AwakeWhileReading
<1>1. BootInit /\ GuardInit => robbed = {}
  BY DEF GuardInit
<1>2. robbed = {} /\ [GuardNext]_<<guardVars, bootVars>> => (robbed = {})'
  BY SoleCaller DEF SoleCaller, GuardNext, GuardThread, Poll, GTWake, GTSleep,
     SkipGuard, RequestWake, PollAcked, PollInvalid, PollAgain, PollTimeout,
     GiveUp, ReleaseGuard, GuardBoot, guardVars
<1>3. HolderAwake /\ robbed = {} => AwakeWhileReading
  BY DEF HolderAwake, AwakeWhileReading
<1> QED BY <1>1, <1>2, <1>3, HoldersAreAwake, PTL DEF GuardSpec, GuardBootInit

=============================================================================
