--------------------------- MODULE ProgressProofs ---------------------------
(***************************************************************************)
(* Proofs about XeService: what its progress rests on.  A call runs down,  *)
(* whatever the others do; once the service is terminated, every client is *)
(* on its way out; and a service that went through stop holds nothing.     *)
(***************************************************************************)
EXTENDS ServiceProofs

(* After a termination only dying clients are left, and only a service     *)
(* that was published is terminated.  One freed after that went through    *)
(* stop.                                                                   *)
EndInv ==
  /\ \A c \in dying : uc[c] = "open"
  /\ LastClientsLeave
  /\ phase = "failed" => active
  /\ phase = "freed" /\ ~active =>
       bar0 = "none" /\ ~mmio /\ ~superStarted /\ pciOn = {"memory", "io"}

(* The clients of the service before init.                                 *)
LEMMA EndInitInv == Init => EndInv
  BY DEF Init, EndInv, LastClientsLeave

(* start and stop move the service and leave its clients alone.            *)
LEMMA PhaseStepInv ==
  ASSUME ServiceInv, EndInv, StartStep \/ StopStep
  PROVE  EndInv'
<1>0. /\ phase \in {"new", "inited", "probed", "mapped", "listing"} => active
      /\ phase = "stopped" =>
           bar0 = "none" /\ ~mmio /\ ~superStarted /\ pciOn = {"memory", "io"}
      /\ phase = "failed" => active
  BY DEF ServiceInv, LifeInv, EndInv
<1>1. UNCHANGED <<active, uc, dying>>
  BY DEF StartStep, StopStep, InitService, Probe, StartSuperFails, StartMapFails, StartMap,
         StartProbe, StartList, StartListFails, StopList, StopUnmap, StopClear, StopSuper, Free,
         clientVars
<1>2. (\A c \in dying' : uc'[c] = "open") /\ LastClientsLeave'
  BY <1>1 DEF EndInv, LastClientsLeave
<1>3. phase' = "failed" => active'
  BY <1>0, <1>1 DEF StartStep, StopStep, InitService, Probe, StartSuperFails, StartMapFails,
         StartMap, StartProbe, StartList, StartListFails, StopList, StopUnmap, StopClear,
         StopSuper, Free
<1>4. ASSUME phase' = "freed", ~active'
      PROVE  bar0' = "none" /\ ~mmio' /\ ~superStarted' /\ pciOn' = {"memory", "io"}
  <2>1. Free
    BY <1>0, <1>1, <1>4 DEF StartStep, StopStep, InitService, Probe, StartSuperFails,
           StartMapFails, StartMap, StartProbe, StartList, StartListFails, StopList, StopUnmap,
           StopClear, StopSuper
  <2>2. phase = "stopped" /\ UNCHANGED <<superStarted, pciOn, bar0, mmio>>
    BY <1>0, <1>1, <1>4, <2>1 DEF Free
  <2> QED
    BY <1>0, <2>2
<1> QED
  BY <1>2, <1>3, <1>4 DEF EndInv

(* A termination, and clients that come and go, keep it: no client is      *)
(* opened after the termination.                                           *)
LEMMA ClientsStepInv ==
  ASSUME ServiceInv, EndInv,
         Terminate \/ \E c \in Clients : NewUserClient(c) \/ ClientClose(c) \/ FinalizeClient(c)
  PROVE  EndInv'
<1>0. /\ uc \in [Clients -> {"none", "open"}] /\ dying \subseteq Clients
      /\ \A c \in dying : uc[c] = "open"
      /\ ~active => dying = {c \in Clients : uc[c] = "open"}
      /\ \A c \in Clients : uc[c] = "open" => phase = "started"
  BY DEF ServiceInv, ServiceTypeOK, LifeInv, EndInv, LastClientsLeave
<1>1. phase' = phase /\ phase = "started"
  BY <1>0 DEF Terminate, NewUserClient, ClientClose, FinalizeClient, lifeVars
<1>2. (\A c \in dying' : uc'[c] = "open") /\ LastClientsLeave'
  <2>1. CASE Terminate
    BY <1>0, <2>1 DEF Terminate, LastClientsLeave
  <2>2. ASSUME NEW c \in Clients, NewUserClient(c)
        PROVE  (\A d \in dying' : uc'[d] = "open") /\ LastClientsLeave'
    BY <1>0, <2>2 DEF NewUserClient, lifeVars, LastClientsLeave
  <2>3. ASSUME NEW c \in Clients, ClientClose(c)
        PROVE  (\A d \in dying' : uc'[d] = "open") /\ LastClientsLeave'
    BY <1>0, <2>3 DEF ClientClose, lifeVars, LastClientsLeave
  <2>4. ASSUME NEW c \in Clients, FinalizeClient(c)
        PROVE  (\A d \in dying' : uc'[d] = "open") /\ LastClientsLeave'
    BY <1>0, <2>4 DEF FinalizeClient, lifeVars, LastClientsLeave
  <2> QED
    BY <2>1, <2>2, <2>3, <2>4
<1> QED
  BY <1>1, <1>2 DEF EndInv

(* What a step of a call leaves alone.                                     *)
LEMMA CallsKeepService ==
  ASSUME NEW t \in Threads,
         ThreadStep(t) \/ \E c \in Clients, m \in Methods : BeginCall(t, c, m)
  PROVE  UNCHANGED <<lifeVars, clientVars>>
  BY DEF ThreadStep, UcWait, UcReadCheck, UcRead, UcCreateBegin, UcCreateStep, UcSubmitBegin,
         SubmitNoop, LogRcs0Begin, LogRcs0Poll, LogRcs0Read, LogRcs0End, BeginCall

(* Every step of the service keeps EndInv.                                 *)
LEMMA EndStepInv ==
  ASSUME ServiceInv, EndInv, [Next]_vars
  PROVE  EndInv'
<1>1. ASSUME UNCHANGED <<lifeVars, clientVars>>
      PROVE  EndInv'
  BY <1>1 DEF EndInv, LastClientsLeave, lifeVars, clientVars
<1>2. CASE StartStep \/ StopStep
  BY <1>2, PhaseStepInv
<1>3. CASE Terminate \/ \E c \in Clients : NewUserClient(c) \/ ClientClose(c) \/ FinalizeClient(c)
  BY <1>3, ClientsStepInv
<1>4. CASE \E t \in Threads :
             ThreadStep(t) \/ \E c \in Clients, m \in Methods : BeginCall(t, c, m)
  BY <1>1, <1>4, CallsKeepService
<1>5. CASE GT \/ Gone \/ UNCHANGED vars
  BY <1>1, <1>5 DEF GT, Gone, vars
<1> QED
  BY <1>2, <1>3, <1>4, <1>5 DEF Next

(* Once the service is terminated no client is left that is not on its way *)
(* out, and none comes in: stop is not held back for ever.                 *)
THEOREM ClientsLeave == Spec => []LastClientsLeave
<1>1. EndInv => LastClientsLeave
  BY DEF EndInv
<1> QED BY <1>1, EndInitInv, EndStepInv, ServiceInvariant, PTL DEF Spec

(* What a service that went through stop leaves behind: the device decodes *)
(* memory and I/O as start made it and masters the bus no more, and there  *)
(* is no wake request but an abandoned one; no mapping, array or call.     *)
THEOREM StopLeaves == Spec => []StopLeavesDecoding
<1>1. ServiceInv /\ EndInv => StopLeavesDecoding
  <2> SUFFICES ASSUME ServiceInv, EndInv, phase = "stopped" \/ (phase = "freed" /\ ~active)
               PROVE  /\ fwReq => orphaned
                      /\ bar0 = "none" /\ ~mmio /\ boList = "none" /\ ~superStarted
                      /\ pciOn = {"memory", "io"}
                      /\ \A t \in Threads : pc[t] = "idle" /\ ~acquired[t]
    BY DEF StopLeavesDecoding
  <2>1. \A t \in Threads : pc[t] = "idle" /\ gpc[t] = "none"
    BY QuietUnlessStarted
  <2>2. \A t \in Threads : ~acquired[t]
    BY <2>1 DEF ServiceInv, GuardInv
  <2>3. fwReq => orphaned
    BY <2>1, <2>2 DEF ServiceInv, GuardInv, RequestOwned, InUseBy
  <2>4. boList = "none"
    BY DEF ServiceInv, LifeInv, RegistryInv, RegistryTypeOK
  <2>5. bar0 = "none" /\ ~mmio /\ ~superStarted /\ pciOn = {"memory", "io"}
    BY DEF ServiceInv, LifeInv, EndInv
  <2> QED
    BY <2>1, <2>2, <2>3, <2>4, <2>5
<1> QED BY <1>1, EndInitInv, EndStepInv, ServiceInvariant, PTL DEF Spec

-----------------------------------------------------------------------------
(* A thread that is at a step of a guard or of ucCreateBuffer is inside.   *)
InsideInv ==
  \A t \in Threads :
    /\ pc[t] = "guard" => gpc[t] \in {"polling", "scoped"}
    /\ pc[t] = "ringRead" => gpc[t] = "scoped"
    /\ pc[t] = "create" => cpc[t] # "idle"

(* CallLeft, case by case.                                                 *)
LEMMA CallLeftValues ==
  ASSUME NEW t \in Threads
  PROVE  /\ pc[t] = "idle" => CallLeft(t) = 0
         /\ pc[t] = "entered" => CallLeft(t) = MaxIterations + 5
         /\ pc[t] = "submit" => CallLeft(t) = MaxIterations + 4
         /\ pc[t] = "submitted" => CallLeft(t) = MaxIterations + 3
         /\ pc[t] = "guard" => CallLeft(t) = 1 + GuardLeft(t)
         /\ pc[t] = "create" /\ cpc[t] = "checked" => CallLeft(t) = 4
         /\ pc[t] = "create" /\ cpc[t] = "alloced" => CallLeft(t) = 3
         /\ pc[t] = "create" /\ cpc[t] = "storing" => CallLeft(t) = 2
         /\ pc[t] = "create" /\ cpc[t] = "stored" => CallLeft(t) = 1
         /\ pc[t] \in {"reading", "ringRead"} => CallLeft(t) = 1
         /\ gpc[t] = "polling" => GuardLeft(t) = 1 + MaxIterations - iter[t]
         /\ gpc[t] = "scoped" => GuardLeft(t) = 1
  BY DEF CallLeft, GuardLeft

(* The same after a step, which does not end in "entered".                 *)
LEMMA CallLeftValuesNext ==
  ASSUME NEW t \in Threads
  PROVE  /\ pc'[t] = "idle" => CallLeft(t)' = 0
         /\ pc'[t] = "submit" => CallLeft(t)' = MaxIterations + 4
         /\ pc'[t] = "submitted" => CallLeft(t)' = MaxIterations + 3
         /\ pc'[t] = "guard" => CallLeft(t)' = 1 + GuardLeft(t)'
         /\ pc'[t] = "create" /\ cpc'[t] = "checked" => CallLeft(t)' = 4
         /\ pc'[t] = "create" /\ cpc'[t] = "alloced" => CallLeft(t)' = 3
         /\ pc'[t] = "create" /\ cpc'[t] = "storing" => CallLeft(t)' = 2
         /\ pc'[t] = "create" /\ cpc'[t] = "stored" => CallLeft(t)' = 1
         /\ pc'[t] \in {"reading", "ringRead"} => CallLeft(t)' = 1
         /\ gpc'[t] = "polling" => GuardLeft(t)' = 1 + MaxIterations - iter'[t]
         /\ gpc'[t] = "scoped" => GuardLeft(t)' = 1
  BY DEF CallLeft, GuardLeft

(* A call has a bounded number of steps left, and at least one.            *)
LEMMA CallLeftBounded ==
  ASSUME ServiceInv, InsideInv, NEW t \in Threads
  PROVE  /\ CallLeft(t) \in 0 .. MaxIterations + 5
         /\ pc[t] # "idle" => CallLeft(t) > 0
<1>1. /\ MaxIterations \in Nat /\ MaxIterations > 0
      /\ iter[t] \in 0 .. MaxIterations - 1 /\ pc[t] \in CallSteps /\ cpc[t] \in CreateSteps
  BY GuardAssumption DEF ServiceInv, GuardInv, GuardTypeOK, ServiceTypeOK, RegistryInv, RegistryTypeOK
<1>2. /\ pc[t] = "guard" => gpc[t] \in {"polling", "scoped"}
      /\ pc[t] = "create" => cpc[t] # "idle"
  BY DEF InsideInv
<1>3. CASE pc[t] = "guard"
  <2>1. GuardLeft(t) \in 1 .. MaxIterations + 1
    BY <1>1, <1>2, <1>3, CallLeftValues
  <2> QED BY <1>1, <1>3, <2>1, CallLeftValues
<1>4. CASE pc[t] = "create"
  <2>1. CallLeft(t) \in 1 .. 4
    BY <1>1, <1>2, <1>4, CallLeftValues DEF CreateSteps
  <2> QED BY <1>1, <2>1
<1>5. CASE pc[t] \in {"idle", "entered", "submit", "submitted", "reading", "ringRead"}
  BY <1>1, <1>5, CallLeftValues
<1> QED
  BY <1>1, <1>3, <1>4, <1>5 DEF CallSteps

(* What thread t does in a step, as far as its progress goes.              *)
Advances(t) ==
  /\ CallLeft(t)' < CallLeft(t)
  /\ pc'[t] = "guard" => gpc'[t] \in {"polling", "scoped"}
  /\ pc'[t] = "ringRead" => gpc'[t] = "scoped"
  /\ pc'[t] = "create" => cpc'[t] # "idle"

(* Returning is progress.                                                  *)
LEMMA ReturnAdvances ==
  ASSUME ServiceInv, InsideInv, NEW t \in Threads, pc[t] # "idle", NEW r, Return(t, r)
  PROVE  Advances(t)
<1>1. pc'[t] = "idle"
  BY DEF Return, Goto, ServiceInv, ServiceTypeOK
<1>2. CallLeft(t)' = 0 /\ CallLeft(t) > 0
  BY <1>1, CallLeftBounded, CallLeftValuesNext
<1> QED
  BY <1>1, <1>2 DEF Advances

(* Every step of a call is.                                                *)
LEMMA StepAdvances ==
  ASSUME ServiceInv, InsideInv, NEW t \in Threads, ThreadStep(t)
  PROVE  Advances(t)
<1>0. /\ MaxIterations \in Nat /\ MaxIterations > 0
      /\ pc \in [Threads -> CallSteps] /\ cpc \in [Threads -> CreateSteps]
      /\ gpc \in [Threads -> {"none", "polling", "scoped"}]
      /\ iter \in [Threads -> 0 .. MaxIterations - 1] /\ iter[t] \in 0 .. MaxIterations - 1
  BY GuardAssumption
  DEF ServiceInv, GuardInv, GuardTypeOK, ServiceTypeOK, RegistryInv, RegistryTypeOK
<1>1. CASE UcWait(t) \/ UcRead(t) \/ LogRcs0End(t)
  BY <1>1, ReturnAdvances DEF UcWait, UcRead, LogRcs0End
<1>2. CASE UcReadCheck(t)
  <2>1. CASE pc[t] = "entered" /\ Goto(t, "reading")
    <3>1. pc'[t] = "reading"
      BY <1>0, <2>1 DEF Goto
    <3> QED BY <1>0, <2>1, <3>1, CallLeftValues, CallLeftValuesNext DEF Advances
  <2> QED BY <1>2, <2>1, ReturnAdvances DEF UcReadCheck
<1>3. CASE UcCreateBegin(t)
  <2>1. CASE pc[t] = "entered" /\ CreateCheck(t) /\ Goto(t, "create")
    <3>1. pc'[t] = "create" /\ cpc'[t] = "checked"
      BY <1>0, <2>1 DEF Goto, CreateCheck
    <3> QED BY <1>0, <2>1, <3>1, CallLeftValues, CallLeftValuesNext DEF Advances
  <2> QED BY <1>3, <2>1, ReturnAdvances DEF UcCreateBegin
<1>4. CASE UcCreateStep(t)
  <2>1. pc[t] = "create"
    BY <1>4 DEF UcCreateStep
  <2>2. CASE (CreateAlloc(t) \/ SetObjectLoad(t) \/ SetObjectStore(t)) /\ UNCHANGED callVars
    <3>1. /\ pc'[t] = "create"
          /\ \/ cpc[t] = "checked" /\ cpc'[t] = "alloced"
             \/ cpc[t] = "alloced" /\ cpc'[t] = "storing"
             \/ cpc[t] = "storing" /\ cpc'[t] = "stored"
      BY <1>0, <2>1, <2>2 DEF CreateAlloc, SetObjectLoad, SetObjectStore, callVars
    <3> QED BY <2>1, <3>1, CallLeftValues, CallLeftValuesNext DEF Advances
  <2> QED BY <1>4, <2>1, <2>2, ReturnAdvances DEF UcCreateStep
<1>5. CASE UcSubmitBegin(t)
  <2>1. CASE pc[t] = "entered" /\ Goto(t, "submit")
    <3>1. pc'[t] = "submit"
      BY <1>0, <2>1 DEF Goto
    <3> QED BY <1>0, <2>1, <3>1, CallLeftValues, CallLeftValuesNext DEF Advances
  <2> QED BY <1>5, <2>1, ReturnAdvances DEF UcSubmitBegin
<1>6. CASE SubmitNoop(t)
  <2>1. CASE pc[t] = "submit" /\ Goto(t, "submitted")
    <3>1. pc'[t] = "submitted"
      BY <1>0, <2>1 DEF Goto
    <3> QED BY <1>0, <2>1, <3>1, CallLeftValues, CallLeftValuesNext DEF Advances
  <2> QED BY <1>6, <2>1, ReturnAdvances DEF SubmitNoop
<1>7. CASE LogRcs0Begin(t)
  <2>1. CASE pc[t] = "submitted" /\ (SkipGuard(t) \/ RequestWake(t)) /\ Goto(t, "guard")
    <3>1. pc'[t] = "guard" /\ (gpc'[t] = "scoped" \/ (gpc'[t] = "polling" /\ iter'[t] = 0))
      BY <1>0, <2>1 DEF Goto, SkipGuard, RequestWake
    <3>2. GuardLeft(t)' \in {1, 1 + MaxIterations}
      BY <1>0, <3>1, CallLeftValuesNext
    <3>3. CallLeft(t) = MaxIterations + 3 /\ CallLeft(t)' = 1 + GuardLeft(t)'
      BY <2>1, <3>1, CallLeftValues, CallLeftValuesNext
    <3>4. CallLeft(t)' < CallLeft(t)
      BY <1>0, <3>2, <3>3
    <3> QED BY <3>1, <3>4 DEF Advances
  <2> QED BY <1>7, <2>1, ReturnAdvances DEF LogRcs0Begin
<1>8. CASE LogRcs0Poll(t)
  <2>1. pc[t] = "guard" /\ pc'[t] = "guard" /\ gpc[t] = "polling"
    BY <1>8 DEF LogRcs0Poll, callVars, Poll, PollAcked, PollInvalid, PollAgain, PollTimeout
  <2>2. \/ gpc'[t] = "scoped"
        \/ gpc'[t] = "polling" /\ iter'[t] = iter[t] + 1
    <3>1. CASE PollAcked(t)
      BY <1>0, <3>1 DEF PollAcked
    <3>2. CASE PollInvalid(t) \/ PollTimeout(t)
      BY <1>0, <3>2 DEF PollInvalid, PollTimeout, GiveUp
    <3>3. CASE PollAgain(t)
      BY <1>0, <3>3 DEF PollAgain
    <3> QED BY <1>8, <3>1, <3>2, <3>3 DEF LogRcs0Poll, Poll
  <2>3. GuardLeft(t) = 1 + MaxIterations - iter[t] /\ CallLeft(t) = 1 + GuardLeft(t)
    BY <2>1, CallLeftValues
  <2>4. CallLeft(t)' = 1 + GuardLeft(t)'
    BY <2>1, CallLeftValuesNext
  <2>5. GuardLeft(t)' = 1 \/ GuardLeft(t)' = 1 + MaxIterations - (iter[t] + 1)
    BY <2>2, CallLeftValuesNext
  <2>6. CallLeft(t)' < CallLeft(t)
    BY <1>0, <2>3, <2>4, <2>5
  <2> QED
    BY <2>1, <2>2, <2>6 DEF Advances
<1>9. CASE LogRcs0Read(t)
  <2>1. pc[t] = "guard" /\ gpc[t] = "scoped" /\ pc'[t] = "ringRead" /\ gpc'[t] = "scoped"
    BY <1>0, <1>9 DEF LogRcs0Read, Goto, guardVars
  <2>2. CallLeft(t) = 1 + 1 /\ CallLeft(t)' = 1
    BY <2>1, CallLeftValues, CallLeftValuesNext
  <2> QED
    BY <2>1, <2>2 DEF Advances
<1> QED
  BY <1>1, <1>2, <1>3, <1>4, <1>5, <1>6, <1>7, <1>8, <1>9 DEF ThreadStep

(* Nothing else touches a thread that is in a call.                        *)
LEMMA OthersStay ==
  ASSUME ServiceInv, [Next]_vars, NEW t \in Threads, pc[t] # "idle", ~ThreadStep(t)
  PROVE  pc'[t] = pc[t] /\ cpc'[t] = cpc[t] /\ gpc'[t] = gpc[t] /\ iter'[t] = iter[t]
<1> DEFINE Stays == pc'[t] = pc[t] /\ cpc'[t] = cpc[t] /\ gpc'[t] = gpc[t] /\ iter'[t] = iter[t]
<1>0. /\ pc \in [Threads -> CallSteps] /\ cpc \in [Threads -> CreateSteps]
      /\ gpc \in [Threads -> {"none", "polling", "scoped"}]
      /\ iter \in [Threads -> 0 .. MaxIterations - 1]
  BY DEF ServiceInv, GuardInv, GuardTypeOK, ServiceTypeOK, RegistryInv, RegistryTypeOK
<1>1. CASE StartStep \/ Terminate \/ StopStep \/ Gone \/ UNCHANGED vars
  <2>1. UNCHANGED <<callVars, guardVars>> /\ cpc' = cpc
    BY <1>1 DEF StartStep, InitService, Probe, StartSuperFails, StartMapFails, StartMap,
                StartProbe, StartList, RegistryStart, StartListFails, Terminate, StopStep,
                StopList, RegistryStop, StopUnmap, StopClear, StopSuper, Free, Gone, vars,
                registryVars
  <2> QED BY <2>1 DEF callVars, guardVars
<1>2. CASE GT
  BY <1>2 DEF GT, GTWake, GTSleep, callVars, registryVars
<1>3. CASE \E c \in Clients : NewUserClient(c) \/ ClientClose(c) \/ FinalizeClient(c)
  BY <1>3 DEF NewUserClient, ClientClose, FinalizeClient, callVars, guardVars, registryVars
<1>4. ASSUME NEW u \in Threads, NEW c \in Clients, NEW m \in Methods, BeginCall(u, c, m)
      PROVE  Stays
  <2>1. u # t
    BY <1>4 DEF BeginCall
  <2> QED BY <1>0, <1>4, <2>1 DEF BeginCall, Goto, guardVars, registryVars
<1>5. ASSUME NEW u \in Threads, u # t, ThreadStep(u)
      PROVE  Stays
  <2>1. pc'[t] = pc[t]
    <3>1. pc' = pc \/ \E step \in CallSteps : pc' = [pc EXCEPT ![u] = step]
      BY <1>5 DEF ThreadStep, UcWait, UcReadCheck, UcRead, UcCreateBegin, UcCreateStep,
             UcSubmitBegin, SubmitNoop, LogRcs0Begin, LogRcs0Poll, LogRcs0Read, LogRcs0End,
             Return, Goto, callVars, CallSteps
    <3> QED BY <1>0, <1>5, <3>1
  <2>2. cpc'[t] = cpc[t]
    <3>1. cpc' = cpc \/ \E step \in CreateSteps : cpc' = [cpc EXCEPT ![u] = step]
      <4>1. CASE UcCreateBegin(u)
        BY <4>1 DEF UcCreateBegin, CreateCheck, CreateSteps, registryVars
      <4>2. CASE UcCreateStep(u)
        BY <4>2 DEF UcCreateStep, CreateAlloc, CreateAllocFails, SetObjectLoad, SetObjectFails,
                    SetObjectStore, CreateReturn, CreateSteps
      <4>3. CASE ~UcCreateBegin(u) /\ ~UcCreateStep(u)
        BY <1>5, <4>3 DEF ThreadStep, UcWait, UcReadCheck, UcRead, UcSubmitBegin, SubmitNoop,
               LogRcs0Begin, LogRcs0Poll, LogRcs0Read, LogRcs0End, registryVars
      <4> QED BY <4>1, <4>2, <4>3
    <3> QED BY <1>0, <1>5, <3>1
  <2>3. gpc'[t] = gpc[t] /\ iter'[t] = iter[t]
    <3>1. /\ gpc' = gpc \/ \E step \in {"none", "polling", "scoped"} : gpc' = [gpc EXCEPT ![u] = step]
          /\ iter' = iter \/ \E i : iter' = [iter EXCEPT ![u] = i]
      <4>1. CASE LogRcs0Begin(u)
        BY <4>1 DEF LogRcs0Begin, SkipGuard, RequestWake, guardVars
      <4>2. CASE LogRcs0Poll(u)
        BY <4>2 DEF LogRcs0Poll, Poll, PollAcked, PollInvalid, PollAgain, PollTimeout, GiveUp
      <4>3. CASE LogRcs0End(u)
        BY <4>3 DEF LogRcs0End, ReleaseGuard
      <4>4. CASE ~LogRcs0Begin(u) /\ ~LogRcs0Poll(u) /\ ~LogRcs0End(u)
        BY <1>5, <4>4 DEF ThreadStep, UcWait, UcReadCheck, UcRead, UcCreateBegin, UcCreateStep,
               UcSubmitBegin, SubmitNoop, LogRcs0Read, guardVars
      <4> QED BY <4>1, <4>2, <4>3, <4>4
    <3> QED BY <1>0, <1>5, <3>1
  <2> QED BY <2>1, <2>2, <2>3
<1> QED
  BY <1>1, <1>2, <1>3, <1>4, <1>5 DEF Next

(* A thread that enters a call is not inside a guard or ucCreateBuffer; a  *)
(* thread that is in none stays out.                                       *)
LEMMA IdleStays ==
  ASSUME ServiceInv, [Next]_vars, NEW t \in Threads, pc[t] = "idle"
  PROVE  pc'[t] \in {"idle", "entered"}
<1>0. pc \in [Threads -> CallSteps]
  BY DEF ServiceInv, ServiceTypeOK
<1>1. CASE StartStep \/ Terminate \/ StopStep \/ GT \/ Gone \/ UNCHANGED vars
           \/ \E c \in Clients : NewUserClient(c) \/ ClientClose(c) \/ FinalizeClient(c)
  <2>1. UNCHANGED callVars
    BY <1>1 DEF StartStep, InitService, Probe, StartSuperFails, StartMapFails, StartMap,
                StartProbe, StartList, StartListFails, Terminate, StopStep, StopList, StopUnmap,
                StopClear, StopSuper, Free, GT, Gone, vars, NewUserClient, ClientClose,
                FinalizeClient
  <2> QED BY <2>1 DEF callVars
<1>2. ASSUME NEW u \in Threads, NEW c \in Clients, NEW m \in Methods, BeginCall(u, c, m)
      PROVE  pc'[t] \in {"idle", "entered"}
  BY <1>0, <1>2 DEF BeginCall, Goto
<1>3. ASSUME NEW u \in Threads, ThreadStep(u)
      PROVE  pc'[t] \in {"idle", "entered"}
  <2>1. pc[u] # "idle" /\ (pc' = pc \/ \E step \in CallSteps : pc' = [pc EXCEPT ![u] = step])
    BY <1>3 DEF ThreadStep, UcWait, UcReadCheck, UcRead, UcCreateBegin, UcCreateStep,
           UcSubmitBegin, SubmitNoop, LogRcs0Begin, LogRcs0Poll, LogRcs0Read, LogRcs0End,
           Return, Goto, callVars, CallSteps
  <2> QED BY <1>0, <2>1
<1> QED
  BY <1>1, <1>2, <1>3 DEF Next

(* Every step keeps the threads inside what they are at.                   *)
LEMMA InsideStepInv ==
  ASSUME ServiceInv, InsideInv, [Next]_vars
  PROVE  InsideInv'
<1> SUFFICES ASSUME NEW t \in Threads
             PROVE  /\ pc'[t] = "guard" => gpc'[t] \in {"polling", "scoped"}
                    /\ pc'[t] = "ringRead" => gpc'[t] = "scoped"
                    /\ pc'[t] = "create" => cpc'[t] # "idle"
  BY DEF InsideInv
<1>1. CASE ThreadStep(t)
  BY <1>1, StepAdvances DEF Advances
<1>2. CASE pc[t] = "idle"
  BY <1>2, IdleStays
<1>3. CASE pc[t] # "idle" /\ ~ThreadStep(t)
  BY <1>3, OthersStay DEF InsideInv
<1> QED
  BY <1>1, <1>2, <1>3

(* Calls are wait-free, for any number of threads and whatever the GT, the *)
(* clients and a termination do: a call makes at most MaxIterations + 5    *)
(* steps, each of them brings it nearer to its return, and nothing that    *)
(* anybody else does sets it back.                                         *)
THEOREM CallsAreWaitFree ==
  Spec => /\ CallsRunDown
          /\ [](\A t \in Threads : /\ CallLeft(t) \in 0 .. MaxIterations + 5
                                   /\ pc[t] # "idle" => CallLeft(t) > 0)
<1> DEFINE Runs == \A t \in Threads : pc[t] # "idle" =>
                     /\ CallLeft(t)' <= CallLeft(t)
                     /\ ThreadStep(t) => CallLeft(t)' < CallLeft(t)
           Bounded == \A t \in Threads : /\ CallLeft(t) \in 0 .. MaxIterations + 5
                                         /\ pc[t] # "idle" => CallLeft(t) > 0
<1>1. Init => InsideInv
  BY DEF Init, InsideInv
<1>2. ServiceInv /\ InsideInv /\ [Next]_vars => InsideInv'
  BY InsideStepInv
<1>3. ServiceInv /\ InsideInv => Bounded
  BY CallLeftBounded
<1>4. ASSUME ServiceInv, InsideInv, Bounded, Bounded', [Next]_vars
      PROVE  [Runs]_vars
  <2> SUFFICES ASSUME NEW t \in Threads, pc[t] # "idle"
               PROVE  /\ CallLeft(t)' <= CallLeft(t)
                      /\ ThreadStep(t) => CallLeft(t)' < CallLeft(t)
    OBVIOUS
  <2>0. CallLeft(t) \in Int /\ CallLeft(t)' \in Int
    <3>1. CallLeft(t) \in 0 .. MaxIterations + 5 /\ CallLeft(t)' \in 0 .. MaxIterations + 5
      BY <1>4
    <3> QED BY <3>1
  <2>1. CASE ThreadStep(t)
    <3>1. CallLeft(t)' < CallLeft(t)
      BY <1>4, <2>1, StepAdvances DEF Advances
    <3> QED BY <2>0, <3>1
  <2>2. CASE ~ThreadStep(t)
    <3>1. pc'[t] = pc[t] /\ cpc'[t] = cpc[t] /\ gpc'[t] = gpc[t] /\ iter'[t] = iter[t]
      BY <1>4, <2>2, OthersStay
    <3>2. CallLeft(t)' = CallLeft(t)
      BY <3>1 DEF CallLeft, GuardLeft
    <3> QED BY <2>0, <2>2, <3>2
  <2> QED BY <2>1, <2>2
<1> QED
  BY <1>1, <1>2, <1>3, <1>4, ServiceInvariant, PTL DEF Spec, CallsRunDown

=============================================================================
