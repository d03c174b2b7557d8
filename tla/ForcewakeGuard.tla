--------------------------- MODULE ForcewakeGuard ---------------------------
(***************************************************************************)
(* kexts/ForcewakeGuard.hpp: the RAII guard that asks the GT to stay awake *)
(* while a thread reads engine registers, and the hardware handshake it    *)
(* drives.  Each thread owns at most one guard (the local of               *)
(* XeCommandStream::logRcs0State); bit 0 of FORCEWAKE_REQ and of           *)
(* FORCEWAKE_ACK are shared by all of them, and are not counted.           *)
(*                                                                         *)
(* One step is one access to the hardware: the request write, one          *)
(* iteration of the polling loop, the releasing write.                     *)
(***************************************************************************)
EXTENDS Integers, XeThreads, XeBootArgs

CONSTANTS
  MaxIterations,        \* maxIterations of acquire(), 50 in the code
  AckReads              \* what FORCEWAKE_ACK may read as while the GT is awake

ASSUME GuardAssumption ==
  /\ MaxIterations \in Nat \ {0}
  /\ "set" \in AckReads
  /\ AckReads \subseteq {"set", "sentinel"}

VARIABLES
  fwReq,                \* bit 0 of FORCEWAKE_REQ
  gtAwake,              \* the GT is powered; bit 0 of FORCEWAKE_ACK shows it
  gpc,                  \* per thread: "none", "polling", "scoped"
  iter,                 \* per thread: i of the polling loop, 0 outside it
  acquired,             \* per thread: the guard's field of that name
  \* history
  robbed,               \* threads whose request another guard has cleared
  orphaned              \* acquire() gave up and left its request in the register

hwVars    == <<fwReq, gtAwake>>
guardVars == <<fwReq, gtAwake, gpc, iter, acquired, robbed, orphaned>>

GuardTypeOK ==
  /\ fwReq \in BOOLEAN
  /\ gtAwake \in BOOLEAN
  /\ gpc \in [Threads -> {"none", "polling", "scoped"}]
  /\ iter \in [Threads -> 0 .. MaxIterations - 1]
  /\ acquired \in [Threads -> BOOLEAN]
  /\ robbed \subseteq Threads
  /\ orphaned \in BOOLEAN

GuardInit ==
  /\ fwReq = FALSE
  /\ gtAwake \in BOOLEAN
  /\ gpc = [t \in Threads |-> "none"]
  /\ iter = [t \in Threads |-> 0]
  /\ acquired = [t \in Threads |-> FALSE]
  /\ robbed = {}
  /\ orphaned = FALSE

-----------------------------------------------------------------------------
(* The GT (external).  It wakes on request and may sleep without one.  No  *)
(* time is promised for either: acquire() has a timeout for that reason.   *)
GTWake ==
  /\ fwReq /\ ~gtAwake
  /\ gtAwake' = TRUE
  /\ UNCHANGED <<fwReq, gpc, iter, acquired, robbed, orphaned>>

GTSleep ==
  /\ ~fwReq /\ gtAwake
  /\ gtAwake' = FALSE
  /\ UNCHANGED <<fwReq, gpc, iter, acquired, robbed, orphaned>>

(* The test of the constructor: the guard is to write a request.           *)
WantsWake(t) ==
  gpc[t] = "none" /\ ~gXeBoot.disableForcewake /\ ~gXeBoot.strictSafe

(* The constructor, when a boot flag turns forcewake off: no access.       *)
SkipGuard(t) ==
  /\ gpc[t] = "none" /\ ~WantsWake(t)
  /\ gpc' = [gpc EXCEPT ![t] = "scoped"]
  /\ UNCHANGED <<fwReq, gtAwake, iter, acquired, robbed, orphaned>>

(* Mutant: the constructor does not look at the boot flags.                *)
RequestWakeUnguarded(t) ==
  /\ gpc[t] = "none"
  /\ fwReq' = TRUE
  /\ gpc' = [gpc EXCEPT ![t] = "polling"]
  /\ iter' = [iter EXCEPT ![t] = 0]
  /\ robbed' = robbed \ {t}
  /\ UNCHANGED <<gtAwake, acquired, orphaned>>

(* The constructor otherwise: acquire() writes the request.                *)
RequestWake(t) ==
  /\ WantsWake(t)
  /\ fwReq' = TRUE
  /\ gpc' = [gpc EXCEPT ![t] = "polling"]
  /\ iter' = [iter EXCEPT ![t] = 0]
  /\ robbed' = robbed \ {t}
  /\ UNCHANGED <<gtAwake, acquired, orphaned>>

(* acquire() returns without the acknowledgement.                          *)
GiveUp(t) ==
  /\ gpc' = [gpc EXCEPT ![t] = "scoped"]
  /\ iter' = [iter EXCEPT ![t] = 0]
  /\ orphaned' = (orphaned \/ fwReq)
  /\ UNCHANGED <<fwReq, gtAwake, acquired, robbed>>

PollAcked(t) ==
  /\ gpc[t] = "polling"
  /\ gtAwake
  /\ acquired' = [acquired EXCEPT ![t] = TRUE]
  /\ gpc' = [gpc EXCEPT ![t] = "scoped"]
  /\ iter' = [iter EXCEPT ![t] = 0]
  /\ UNCHANGED <<fwReq, gtAwake, robbed, orphaned>>

(* The value read happens to be one of the error sentinels.                *)
PollInvalid(t) ==
  /\ gpc[t] = "polling"
  /\ gtAwake /\ "sentinel" \in AckReads
  /\ GiveUp(t)

(* Mutant: the loop runs once too often (i <= maxIterations).              *)
PollAgainOffByOne(t) ==
  /\ gpc[t] = "polling"
  /\ ~gtAwake
  /\ iter[t] < MaxIterations
  /\ iter' = [iter EXCEPT ![t] = @ + 1]
  /\ UNCHANGED <<fwReq, gtAwake, gpc, acquired, robbed, orphaned>>

(* Mutant: the loop is not bounded.                                        *)
PollForever(t) ==
  /\ gpc[t] = "polling"
  /\ ~gtAwake
  /\ UNCHANGED <<fwReq, gtAwake, gpc, iter, acquired, robbed, orphaned>>

PollAgain(t) ==
  /\ gpc[t] = "polling"
  /\ ~gtAwake
  /\ iter[t] + 1 < MaxIterations
  /\ iter' = [iter EXCEPT ![t] = @ + 1]
  /\ UNCHANGED <<fwReq, gtAwake, gpc, acquired, robbed, orphaned>>

(* Mutant: a timeout counts as success.                                    *)
PollTimeoutAcquires(t) ==
  /\ gpc[t] = "polling"
  /\ ~gtAwake
  /\ iter[t] + 1 >= MaxIterations
  /\ acquired' = [acquired EXCEPT ![t] = TRUE]
  /\ gpc' = [gpc EXCEPT ![t] = "scoped"]
  /\ iter' = [iter EXCEPT ![t] = 0]
  /\ UNCHANGED <<fwReq, gtAwake, robbed, orphaned>>

(* Mutant: after a timeout acquire() starts over.                          *)
PollTimeoutRetries(t) ==
  /\ gpc[t] = "polling"
  /\ ~gtAwake
  /\ iter[t] + 1 >= MaxIterations
  /\ iter' = [iter EXCEPT ![t] = 0]
  /\ UNCHANGED <<fwReq, gtAwake, gpc, acquired, robbed, orphaned>>

PollTimeout(t) ==
  /\ gpc[t] = "polling"
  /\ ~gtAwake
  /\ iter[t] + 1 >= MaxIterations
  /\ GiveUp(t)

Poll(t) == PollAcked(t) \/ PollInvalid(t) \/ PollAgain(t) \/ PollTimeout(t)

(* The destructor.  Only a guard that saw the acknowledgement clears the   *)
(* request, and it clears it for every other guard as well.                *)
InUseBy(u) == gpc[u] = "polling" \/ acquired[u]

(* Mutant: the destructor forgets the releasing write.                     *)
ReleaseGuardLeaky(t) ==
  /\ gpc[t] = "scoped"
  /\ gpc' = [gpc EXCEPT ![t] = "none"]
  /\ acquired' = [acquired EXCEPT ![t] = FALSE]
  /\ UNCHANGED <<fwReq, gtAwake, iter, robbed, orphaned>>

ReleaseGuard(t) ==
  /\ gpc[t] = "scoped"
  /\ gpc' = [gpc EXCEPT ![t] = "none"]
  /\ acquired' = [acquired EXCEPT ![t] = FALSE]
  /\ IF acquired[t]
       THEN /\ fwReq' = FALSE
            /\ orphaned' = FALSE
            /\ robbed' = {u \in Threads \ {t} : u \in robbed \/ InUseBy(u)}
       ELSE UNCHANGED <<fwReq, orphaned, robbed>>
  /\ UNCHANGED <<gtAwake, iter>>

(* XeService::init parses the boot argument before any guard exists; a     *)
(* later instance of the service does so again.                            *)
GuardBoot ==
  /\ \A t \in Threads : gpc[t] = "none"
  /\ XeParseBootArgs
  /\ UNCHANGED guardVars

GuardThread(t) == SkipGuard(t) \/ RequestWake(t) \/ Poll(t) \/ ReleaseGuard(t)

(* Guards are made by calls on a service that is started, after its init.  *)
GuardNext ==
  \/ GuardBoot
  \/ (GTWake \/ GTSleep) /\ UNCHANGED bootVars
  \/ BootParsed /\ (\E t \in Threads : GuardThread(t)) /\ UNCHANGED bootVars

GuardBootInit == BootInit /\ GuardInit

GuardSpec == GuardBootInit /\ [][GuardNext]_<<guardVars, bootVars>>

(* A thread inside the kernel keeps running: the loop has a bound and the  *)
(* body returns.  Nothing is assumed of the GT, nor that anybody calls.    *)
GuardFairness ==
  \A t \in Threads : WF_guardVars((Poll(t) \/ ReleaseGuard(t)) /\ UNCHANGED bootVars)

GuardFairSpec == GuardSpec /\ GuardFairness

-----------------------------------------------------------------------------
(* The request bit is never left over without an explanation: it is set    *)
(* only while some guard polls for it or holds it, unless an acquire()     *)
(* timed out or read a sentinel and left it behind.                        *)
RequestOwned == fwReq => orphaned \/ \E t \in Threads : InUseBy(t)

(* A guard that reports isAcquired() has a powered GT and a standing       *)
(* request, unless the destructor of another guard has cleared the bit     *)
(* they share.  Holds however many threads submit at once.                 *)
HolderAwake == \A t \in Threads \ robbed : acquired[t] => fwReq /\ gtAwake

(* What ForcewakeGuard.hpp:13 says of forcewake: the GT is powered for as  *)
(* long as a guard that was acquired is in scope, so that the ring         *)
(* registers logRcs0State reads in that scope are valid.                   *)
AwakeWhileReading == \A t \in Threads : acquired[t] => gtAwake

(* On a machine booted with xepci=noforcewake or xepci=strictsafe, in any  *)
(* spelling XeParseBootArgs takes, no guard ever sets the request bit.     *)
FlagsHonoured == Named(bootArgs, {"noforcewake", "strictsafe"}) => ~fwReq

(* The accesses the guard of thread t has left to make at most.            *)
GuardLeft(t) ==
  CASE gpc[t] = "polling" -> 1 + MaxIterations - iter[t]
    [] gpc[t] = "scoped"  -> 1
    [] OTHER              -> 0

(* When no guard is left, neither is the request: what "GT domains are     *)
(* acquired/released safely" (README.md) needs.                            *)
RequestReleased == (\A t \in Threads : gpc[t] = "none") => ~fwReq

(* "Timeout prevents infinite loops" (ForcewakeGuard.hpp:17): a thread     *)
(* that starts to poll gets out of the guard, whatever the GT does.        *)
GuardReturns == \A t \in Threads : gpc[t] = "polling" ~> gpc[t] = "none"

(* A request is dropped again, unless some acquire() has given up on it.   *)
RequestDropped == fwReq ~> (~fwReq \/ orphaned)

=============================================================================
