--------------------------- MODULE ServiceProofs ---------------------------
(***************************************************************************)
(* Proofs about XeService, for any number of threads, clients and buffers: *)
(* stop cannot take the mapping or the registry away from a running call,  *)
(* and the guard and the registry are used as their own specifications     *)
(* assume, so that their theorems hold inside the kext.                    *)
(***************************************************************************)
EXTENDS XeService, ForcewakeProofs, RegistryProofs

(* The variables of XeService itself have their types.                     *)
ServiceTypeOK ==
  /\ phase \in Phases
  /\ active \in BOOLEAN /\ superStarted \in BOOLEAN /\ mmio \in BOOLEAN
  /\ pciOn \subseteq {"memory", "io", "busMaster"}
  /\ bar0 \in {"none", "mapped", "released"}
  /\ bar0Length \in BarLengths \cup {0}
  /\ uc \in [Clients -> {"none", "open"}]
  /\ dying \subseteq Clients
  /\ pc \in [Threads -> CallSteps]
  /\ meth \in [Threads -> AllMethods \cup {"none"}]
  /\ via \in [Threads -> Clients \cup {NoClient}]
  /\ ret \in Results

(* What the service holds in each phase of its life.  Clients exist only   *)
(* in the phase in which the mapping and the registry do.                  *)
LifeInv ==
  /\ boList = "live" <=> phase = "started"
  /\ phase \in {"mapped", "listing", "started", "unlisted"} =>
       bar0 = "mapped" /\ mmio /\ bar0Length # 0
  /\ phase \in {"cleared", "stopped"} => bar0 = "none" /\ ~mmio
  /\ phase \in {"mapped", "listing", "started", "unlisted", "unmapped", "cleared"} =>
       pciOn = {"memory", "io", "busMaster"}
  /\ phase = "stopped" => ~superStarted /\ pciOn = {"memory", "io"}
  /\ \A c \in Clients : uc[c] = "open" => phase = "started"
  /\ phase \in {"new", "inited", "probed", "mapped", "listing"} => active

(* From init on the flags are those of the boot argument.                  *)
BootInv == phase \notin {"new", "freed"} => BootParsed

(* A call in progress keeps its client open, whatever is closing it; and a *)
(* thread is inside ucCreateBuffer or a guard only at those steps.         *)
CallInv ==
  \A t \in Threads :
    /\ pc[t] # "idle" => via[t] \in Clients /\ uc[via[t]] = "open"
    /\ cpc[t] # "idle" => pc[t] = "create"
    /\ gpc[t] # "none" => pc[t] \in {"guard", "ringRead"}

(* A thread is at a step of the method it runs, and gets past the tests of *)
(* the boot flags only if they let it.                                     *)
MethodInv ==
  /\ gXeBoot.strictSafe => gXeBoot.disableCommandStream
  /\ \A t \in Threads :
       /\ pc[t] = "idle" <=> meth[t] = "none"
       /\ pc[t] = "reading" => meth[t] \in ReadMethods
       /\ pc[t] = "create" => meth[t] = "CreateBuffer"
       /\ pc[t] = "submit" => meth[t] = "Submit"
       /\ pc[t] \in {"submitted", "guard", "ringRead"} =>
            meth[t] = "Submit" /\ ~gXeBoot.disableCommandStream

(* The inductive invariant.                                                *)
ServiceInv ==
  /\ GuardInv /\ RegistryInv /\ ServiceTypeOK
  /\ LifeInv /\ BootInv /\ CallInv /\ MethodInv

(* No call is in progress outside the phase "started".                     *)
LEMMA QuietUnlessStarted ==
  ASSUME ServiceInv, phase # "started"
  PROVE  \A t \in Threads : pc[t] = "idle" /\ cpc[t] = "idle" /\ gpc[t] = "none"
<1> SUFFICES ASSUME NEW t \in Threads
             PROVE  pc[t] = "idle" /\ cpc[t] = "idle" /\ gpc[t] = "none"
  OBVIOUS
<1>1. pc[t] = "idle"
  BY DEF ServiceInv, LifeInv, CallInv
<1> QED
  BY <1>1 DEF ServiceInv, CallInv

(* Nor when no client is open, which is what IOKit waits for before stop.  *)
LEMMA QuietWithoutClients ==
  ASSUME ServiceInv, \A c \in Clients : uc[c] = "none"
  PROVE  \A t \in Threads : pc[t] = "idle" /\ cpc[t] = "idle" /\ gpc[t] = "none"
<1> SUFFICES ASSUME NEW t \in Threads
             PROVE  pc[t] = "idle" /\ cpc[t] = "idle" /\ gpc[t] = "none"
  OBVIOUS
<1>1. pc[t] = "idle"
  BY DEF ServiceInv, CallInv
<1> QED
  BY <1>1 DEF ServiceInv, CallInv

(* Parsing the argument again would change nothing.                        *)
LEMMA ParsedOnce ==
  ASSUME XeParseBootArgs
  PROVE  BootParsed'
<1> DEFINE N(names) == Named(bootArgs, names)
<1>1. bootArgs' = bootArgs /\ gXeBoot' = Parsed(gXeBoot, bootArgs)
  BY DEF XeParseBootArgs
<1>2. gXeBoot' =
        [verbose              |-> gXeBoot.verbose \/ N({"verbose"}),
         disableForcewake     |-> gXeBoot.disableForcewake \/ N({"noforcewake", "strictsafe"}),
         disableCommandStream |-> gXeBoot.disableCommandStream \/ N({"nocs", "strictsafe"}),
         strictSafe           |-> gXeBoot.strictSafe \/ N({"strictsafe"})]
  BY <1>1 DEF Parsed
<1> HIDE DEF N
<1>3. /\ gXeBoot'.verbose = (gXeBoot'.verbose \/ N({"verbose"}))
      /\ gXeBoot'.disableForcewake =
           (gXeBoot'.disableForcewake \/ N({"noforcewake", "strictsafe"}))
      /\ gXeBoot'.disableCommandStream =
           (gXeBoot'.disableCommandStream \/ N({"nocs", "strictsafe"}))
      /\ gXeBoot'.strictSafe = (gXeBoot'.strictSafe \/ N({"strictsafe"}))
  BY <1>2
<1>4. gXeBoot' =
        [verbose              |-> gXeBoot'.verbose \/ N({"verbose"}),
         disableForcewake     |-> gXeBoot'.disableForcewake \/ N({"noforcewake", "strictsafe"}),
         disableCommandStream |-> gXeBoot'.disableCommandStream \/ N({"nocs", "strictsafe"}),
         strictSafe           |-> gXeBoot'.strictSafe \/ N({"strictsafe"})]
  BY <1>2, <1>3
<1> QED
  BY <1>1, <1>4 DEF BootParsed, Parsed, N

(* After the parse, the flags of the command stream the argument names are *)
(* set.                                                                    *)
LEMMA ParsedStream ==
  ASSUME BootParsed
  PROVE  /\ Named(bootArgs, {"nocs", "strictsafe"}) => gXeBoot.disableCommandStream
         /\ Named(bootArgs, {"strictsafe"}) => gXeBoot.strictSafe
<1>1. /\ gXeBoot.disableCommandStream = Parsed(gXeBoot, bootArgs).disableCommandStream
      /\ gXeBoot.strictSafe = Parsed(gXeBoot, bootArgs).strictSafe
  BY Zenon DEF BootParsed
<1> QED BY <1>1 DEF Parsed

(* Every step of the service is a step of the guards, or leaves them       *)
(* alone: the boot argument is parsed before any guard exists.             *)
LEMMA GuardStep ==
  ASSUME ServiceInv, [Next]_vars
  PROVE  [GuardNext]_<<guardVars, bootVars>>
<1>1. CASE InitService
  <2>1. \A t \in Threads : gpc[t] = "none"
    BY <1>1, QuietUnlessStarted DEF InitService
  <2> QED
    BY <1>1, <2>1 DEF InitService, GuardNext, GuardBoot, guardVars, bootVars
<1>2. CASE \E t \in Threads : LogRcs0Begin(t) \/ LogRcs0Poll(t) \/ LogRcs0End(t)
  <2>1. PICK t \in Threads : LogRcs0Begin(t) \/ LogRcs0Poll(t) \/ LogRcs0End(t)
    BY <1>2
  <2>2. pc[t] # "idle"
    BY <2>1 DEF LogRcs0Begin, LogRcs0Poll, LogRcs0End
  <2>3. phase = "started"
    BY <2>2, QuietUnlessStarted
  <2>4. BootParsed
    BY <2>3 DEF ServiceInv, BootInv
  <2>5. UNCHANGED bootVars /\ (UNCHANGED guardVars \/ GuardThread(t))
    BY <2>1 DEF LogRcs0Begin, LogRcs0Poll, LogRcs0End, GuardThread
  <2> QED
    BY <2>4, <2>5 DEF GuardNext
<1>3. CASE GT
  BY <1>3 DEF GT, GuardNext
<1>4. CASE UNCHANGED vars
  BY <1>4 DEF vars, guardVars, bootVars
<1>5. CASE StartStep /\ ~InitService
  BY <1>5 DEF StartStep, Probe, StartSuperFails, StartMapFails, StartMap,
              StartProbe, StartList, StartListFails
<1>6. CASE Terminate \/ StopStep \/ Gone
  BY <1>6 DEF Terminate, StopStep, StopList, StopUnmap, StopClear, StopSuper, Free,
              Gone, vars
<1>7. CASE \E c \in Clients : NewUserClient(c) \/ ClientClose(c) \/ FinalizeClient(c)
  BY <1>7 DEF NewUserClient, ClientClose, FinalizeClient
<1>8. CASE \E t \in Threads, c \in Clients, m \in Methods : BeginCall(t, c, m)
  BY <1>8 DEF BeginCall
<1>9. CASE \E t \in Threads : \/ UcWait(t) \/ UcReadCheck(t) \/ UcRead(t)
                              \/ UcCreateBegin(t) \/ UcCreateStep(t)
                              \/ UcSubmitBegin(t) \/ SubmitNoop(t) \/ LogRcs0Read(t)
  BY <1>9 DEF UcWait, UcReadCheck, UcRead, UcCreateBegin, UcCreateStep,
              UcSubmitBegin, SubmitNoop, LogRcs0Read
<1> QED
  BY <1>1, <1>2, <1>3, <1>4, <1>5, <1>6, <1>7, <1>8, <1>9 DEF Next, StartStep, ThreadStep

(* Every step of the service is a step of the registry, or leaves it       *)
(* alone: start and stop run while no call is inside ucCreateBuffer.       *)
LEMMA RegistryStep ==
  ASSUME ServiceInv, [Next]_vars
  PROVE  [RegistryNext]_registryVars
<1>1. CASE StartList
  BY <1>1, QuietUnlessStarted DEF StartList, RegistryNext, RegistryQuiet
<1>2. CASE StopList
  BY <1>2, QuietWithoutClients DEF StopList, RegistryNext, RegistryQuiet
<1>3. CASE \E t \in Threads : UcCreateBegin(t) \/ UcCreateStep(t)
  BY <1>3 DEF UcCreateBegin, UcCreateStep, RegistryNext, CreateBuffer
<1>4. CASE UNCHANGED vars
  BY <1>4 DEF vars
<1>5. CASE StartStep /\ ~StartList
  BY <1>5 DEF StartStep, InitService, Probe, StartSuperFails, StartMapFails, StartMap,
              StartProbe, StartListFails
<1>6. CASE Terminate \/ (StopStep /\ ~StopList) \/ Gone \/ GT
  BY <1>6 DEF Terminate, StopStep, StopUnmap, StopClear, StopSuper, Free, Gone, GT, vars
<1>7. CASE \E c \in Clients : NewUserClient(c) \/ ClientClose(c) \/ FinalizeClient(c)
  BY <1>7 DEF NewUserClient, ClientClose, FinalizeClient
<1>8. CASE \E t \in Threads, c \in Clients, m \in Methods : BeginCall(t, c, m)
  BY <1>8 DEF BeginCall
<1>9. CASE \E t \in Threads : \/ UcWait(t) \/ UcReadCheck(t) \/ UcRead(t)
                              \/ UcSubmitBegin(t) \/ SubmitNoop(t) \/ LogRcs0Begin(t)
                              \/ LogRcs0Poll(t) \/ LogRcs0Read(t) \/ LogRcs0End(t)
  BY <1>9 DEF UcWait, UcReadCheck, UcRead, UcSubmitBegin, SubmitNoop, LogRcs0Begin,
              LogRcs0Poll, LogRcs0Read, LogRcs0End
<1> QED
  BY <1>1, <1>2, <1>3, <1>4, <1>5, <1>6, <1>7, <1>8, <1>9 DEF Next, StartStep, StopStep, ThreadStep

(* The service before init.                                                *)
LEMMA ServiceInitInv == Init => ServiceInv
<1> SUFFICES ASSUME Init PROVE ServiceInv
  OBVIOUS
<1>1. GuardInv /\ RegistryInv
  BY GuardInitInv, RegistryInitInv DEF Init
<1>2. ServiceTypeOK
  BY DEF Init, ServiceTypeOK, Phases, CallSteps, Results, AllMethods
<1>3. LifeInv /\ BootInv /\ CallInv /\ MethodInv
  BY DEF Init, LifeInv, BootInv, CallInv, MethodInv, GuardInit, RegistryInit, BootInit, NoFlags
<1> QED
  BY <1>1, <1>2, <1>3 DEF ServiceInv

(* init, probe, start, termination, stop and free keep the invariant.      *)
LEMMA LifeStepInv ==
  ASSUME ServiceInv, StartStep \/ Terminate \/ StopStep
  PROVE  ServiceTypeOK' /\ LifeInv' /\ CallInv'
<1> USE DEF ServiceInv, ServiceTypeOK, LifeInv, CallInv, Phases,
            lifeVars, clientVars, callVars, guardVars, registryVars
<1>1. CASE InitService
  BY <1>1 DEF InitService
<1>2. CASE Probe
  BY <1>2 DEF Probe
<1>3. CASE StartSuperFails
  BY <1>3 DEF StartSuperFails
<1>4. CASE StartMapFails
  BY <1>4 DEF StartMapFails
<1>5. CASE StartMap
  BY <1>5 DEF StartMap
<1>6. CASE StartProbe
  BY <1>6 DEF StartProbe
<1>7. CASE StartList
  BY <1>7 DEF StartList, RegistryStart
<1>8. CASE StartListFails
  BY <1>8 DEF StartListFails
<1>9. CASE Terminate
  BY <1>9 DEF Terminate
<1>10. CASE StopList
  BY <1>10, QuietWithoutClients DEF StopList, RegistryStop
<1>11. CASE StopUnmap
  BY <1>11 DEF StopUnmap
<1>12. CASE StopClear
  BY <1>12 DEF StopClear
<1>13. CASE StopSuper
  BY <1>13 DEF StopSuper
<1>14. CASE Free
  BY <1>14 DEF Free
<1> QED
  BY <1>1, <1>2, <1>3, <1>4, <1>5, <1>6, <1>7, <1>8, <1>9, <1>10, <1>11, <1>12,
     <1>13, <1>14 DEF StartStep, StopStep

(* Opening, closing and finalizing a client keep the invariant.            *)
LEMMA ClientStepInv ==
  ASSUME ServiceInv, NEW c \in Clients,
         NewUserClient(c) \/ ClientClose(c) \/ FinalizeClient(c)
  PROVE  ServiceTypeOK' /\ LifeInv' /\ CallInv'
<1> USE DEF ServiceInv, ServiceTypeOK, LifeInv, CallInv,
            lifeVars, clientVars, callVars, guardVars, registryVars
<1>1. CASE NewUserClient(c)
  BY <1>1 DEF NewUserClient
<1>2. CASE ClientClose(c)
  BY <1>2 DEF ClientClose
<1>3. CASE FinalizeClient(c)
  <2>1. ServiceTypeOK'
    BY <1>3 DEF FinalizeClient
  <2>2. LifeInv'
    BY <1>3 DEF FinalizeClient
  <2>3. CallInv'
    BY <1>3 DEF FinalizeClient
  <2> QED BY <2>1, <2>2, <2>3
<1> QED
  BY <1>1, <1>2, <1>3

(* What a step of thread t in a call leaves alone: the service, its        *)
(* clients, and where the other threads are.                               *)
CallFrame(t) ==
  /\ UNCHANGED <<lifeVars, clientVars, boList>>
  /\ \A u \in Threads \ {t} : gpc'[u] = gpc[u] /\ cpc'[u] = cpc[u]

(* A call runs only in a started service, which its steps do not change.   *)
LEMMA CallKeepsLife ==
  ASSUME ServiceInv, NEW t \in Threads, pc[t] # "idle", CallFrame(t)
  PROVE  LifeInv'
<1>1. phase = "started"
  BY DEF ServiceInv, LifeInv, CallInv
<1>2. UNCHANGED <<phase, superStarted, pciOn, bar0, mmio, bar0Length, uc, boList>>
  BY DEF CallFrame, lifeVars, clientVars
<1> QED
  BY <1>1, <1>2 DEF ServiceInv, LifeInv

(* A call that goes on to its next step keeps the invariant.               *)
LEMMA CallMoves ==
  ASSUME ServiceInv, NEW t \in Threads, pc[t] # "idle", CallFrame(t),
         NEW step \in CallSteps \ {"idle"}, Goto(t, step), UNCHANGED <<meth, via, ret>>,
         cpc'[t] # "idle" => step = "create",
         gpc'[t] # "none" => step \in {"guard", "ringRead"}
  PROVE  ServiceTypeOK' /\ LifeInv' /\ CallInv'
<1>1. pc \in [Threads -> CallSteps] /\ pc' = [pc EXCEPT ![t] = step]
  BY DEF ServiceInv, ServiceTypeOK, Goto
<1>2. ServiceTypeOK'
  BY <1>1 DEF ServiceInv, ServiceTypeOK, CallFrame, lifeVars, clientVars
<1>3. CallInv'
  <2> SUFFICES ASSUME NEW u \in Threads
               PROVE  /\ pc'[u] # "idle" => via'[u] \in Clients /\ uc'[via'[u]] = "open"
                      /\ cpc'[u] # "idle" => pc'[u] = "create"
                      /\ gpc'[u] # "none" => pc'[u] \in {"guard", "ringRead"}
    BY DEF CallInv
  <2>1. uc' = uc /\ via' = via
    BY DEF CallFrame, clientVars
  <2>2. CASE u = t
    BY <1>1, <2>1, <2>2 DEF ServiceInv, CallInv
  <2>3. CASE u # t
    BY <1>1, <2>1, <2>3 DEF ServiceInv, CallInv, CallFrame
  <2> QED
    BY <2>2, <2>3
<1> QED
  BY <1>2, <1>3, CallKeepsLife

(* A call that returns keeps it too, if it has left what it was inside of. *)
LEMMA CallReturns ==
  ASSUME ServiceInv, NEW t \in Threads, pc[t] # "idle", CallFrame(t),
         NEW result \in Results, Return(t, result),
         cpc'[t] = "idle", gpc'[t] = "none"
  PROVE  ServiceTypeOK' /\ LifeInv' /\ CallInv'
<1>1. /\ pc \in [Threads -> CallSteps] /\ pc' = [pc EXCEPT ![t] = "idle"]
      /\ via \in [Threads -> Clients \cup {NoClient}] /\ via' = [via EXCEPT ![t] = NoClient]
  BY DEF ServiceInv, ServiceTypeOK, Goto, Return
<1>2. ServiceTypeOK'
  BY <1>1 DEF ServiceInv, ServiceTypeOK, CallFrame, lifeVars, clientVars, Return, CallSteps
<1>3. CallInv'
  <2> SUFFICES ASSUME NEW u \in Threads
               PROVE  /\ pc'[u] # "idle" => via'[u] \in Clients /\ uc'[via'[u]] = "open"
                      /\ cpc'[u] # "idle" => pc'[u] = "create"
                      /\ gpc'[u] # "none" => pc'[u] \in {"guard", "ringRead"}
    BY DEF CallInv
  <2>1. CASE u = t
    BY <1>1, <2>1
  <2>2. CASE u # t
    <3>1. uc' = uc /\ via'[u] = via[u] /\ pc'[u] = pc[u] /\ cpc'[u] = cpc[u] /\ gpc'[u] = gpc[u]
      BY <1>1, <2>2 DEF CallFrame, clientVars
    <3> QED
      BY <3>1 DEF ServiceInv, CallInv
  <2> QED
    BY <2>1, <2>2
<1> QED
  BY <1>2, <1>3, CallKeepsLife

(* A call that begins keeps it: the client it came through is open.        *)
LEMMA CallBegins ==
  ASSUME ServiceInv, NEW t \in Threads, NEW c \in Clients, NEW m \in Methods,
         BeginCall(t, c, m)
  PROVE  ServiceTypeOK' /\ LifeInv' /\ CallInv'
<1>1. /\ pc \in [Threads -> CallSteps] /\ pc' = [pc EXCEPT ![t] = "entered"]
      /\ via \in [Threads -> Clients \cup {NoClient}] /\ via' = [via EXCEPT ![t] = c]
      /\ pc[t] = "idle" /\ uc[c] = "open" /\ uc' = uc /\ cpc' = cpc /\ gpc' = gpc
  BY DEF ServiceInv, ServiceTypeOK, BeginCall, Goto, clientVars, guardVars, registryVars
<1>2. ServiceTypeOK'
  BY <1>1, ServiceAssumption
  DEF ServiceInv, ServiceTypeOK, BeginCall, lifeVars, clientVars, CallSteps, Results
<1>3. LifeInv'
  BY DEF ServiceInv, LifeInv, BeginCall, lifeVars, clientVars, guardVars, registryVars
<1>4. CallInv'
  BY <1>1 DEF ServiceInv, CallInv
<1> QED
  BY <1>2, <1>3, <1>4

(* Every step of an external method keeps the invariant.                   *)
LEMMA CallStepInv ==
  ASSUME ServiceInv, NEW t \in Threads,
         ThreadStep(t) \/ \E c \in Clients, m \in Methods : BeginCall(t, c, m)
  PROVE  ServiceTypeOK' /\ LifeInv' /\ CallInv'
<1> DEFINE Goal == ServiceTypeOK' /\ LifeInv' /\ CallInv'
<1>0. /\ gpc \in [Threads -> {"none", "polling", "scoped"}]
      /\ cpc \in [Threads -> CreateSteps]
      /\ cpc[t] # "idle" => pc[t] = "create"
      /\ gpc[t] # "none" => pc[t] \in {"guard", "ringRead"}
  BY DEF ServiceInv, GuardInv, RegistryInv, GuardTypeOK, RegistryTypeOK, CallInv
<1>1. CASE \E c \in Clients, m \in Methods : BeginCall(t, c, m)
  BY <1>1, CallBegins
<1>2. ASSUME UNCHANGED <<lifeVars, clientVars, guardVars, registryVars>>
      PROVE  CallFrame(t) /\ cpc' = cpc /\ gpc' = gpc
  BY <1>2 DEF CallFrame, guardVars, registryVars
<1>3. CASE UcWait(t) \/ UcRead(t)
  <2>1. pc[t] \in {"entered", "reading"} /\ Return(t, "Success") /\ CallFrame(t)
        /\ cpc' = cpc /\ gpc' = gpc
    BY <1>2, <1>3 DEF UcWait, UcRead
  <2> QED
    BY <1>0, <2>1, CallReturns DEF Results
<1>4. CASE UcReadCheck(t) \/ UcSubmitBegin(t) \/ SubmitNoop(t)
  <2>1. pc[t] \in {"entered", "submit"} /\ CallFrame(t) /\ cpc' = cpc /\ gpc' = gpc
    BY <1>2, <1>4 DEF UcReadCheck, UcSubmitBegin, SubmitNoop
  <2>2. \/ \E step \in {"reading", "submit", "submitted"} :
             Goto(t, step) /\ UNCHANGED <<meth, via, ret>>
        \/ \E result \in Results : Return(t, result)
    BY <1>4 DEF UcReadCheck, UcSubmitBegin, SubmitNoop, Results
  <2>3. ASSUME NEW step \in {"reading", "submit", "submitted"},
               Goto(t, step), UNCHANGED <<meth, via, ret>>
        PROVE  Goal
    BY <1>0, <2>1, <2>3, CallMoves DEF CallSteps
  <2>4. ASSUME NEW result \in Results, Return(t, result)
        PROVE  Goal
    BY <1>0, <2>1, <2>4, CallReturns
  <2> QED
    BY <2>2, <2>3, <2>4
<1>5. CASE UcCreateBegin(t)
  <2>1. pc[t] = "entered" /\ UNCHANGED <<lifeVars, clientVars, guardVars>>
    BY <1>5 DEF UcCreateBegin
  <2>2. CASE CreateCheck(t) /\ Goto(t, "create") /\ UNCHANGED <<meth, via, ret>>
    <3>1. boList' = boList /\ cpc' = [cpc EXCEPT ![t] = "checked"] /\ gpc' = gpc
      BY <2>1, <2>2 DEF CreateCheck, guardVars
    <3>2. CallFrame(t)
      BY <1>0, <2>1, <3>1 DEF CallFrame
    <3> QED
      BY <1>0, <2>1, <2>2, <3>1, <3>2, CallMoves DEF CallSteps
  <2>3. CASE Return(t, "NotReady") /\ UNCHANGED registryVars
    BY <1>0, <1>2, <2>1, <2>3, CallReturns DEF Results
  <2> QED
    BY <1>5, <2>2, <2>3 DEF UcCreateBegin
<1>6. CASE UcCreateStep(t)
  <2>1. pc[t] = "create" /\ UNCHANGED <<lifeVars, clientVars>> /\ gpc' = gpc
    BY <1>6 DEF UcCreateStep, guardVars
  <2>2. CASE /\ CreateAlloc(t) \/ SetObjectLoad(t) \/ SetObjectStore(t)
             /\ UNCHANGED callVars
    <3>1. /\ boList' = boList
          /\ \E step \in CreateSteps : cpc' = [cpc EXCEPT ![t] = step]
      BY <2>2 DEF CreateAlloc, SetObjectLoad, SetObjectStore, CreateSteps
    <3>2. CallFrame(t)
      BY <1>0, <2>1, <3>1 DEF CallFrame
    <3>3. Goto(t, "create") /\ UNCHANGED <<meth, via, ret>>
      BY <2>1, <2>2 DEF Goto, callVars, ServiceInv, ServiceTypeOK
    <3> QED
      BY <1>0, <2>1, <3>2, <3>3, CallMoves DEF CallSteps
  <2>3. CASE /\ CreateAllocFails(t) \/ SetObjectFails(t) \/ CreateReturn(t)
             /\ Return(t, "NoResources") \/ Return(t, "Success")
    <3>1. boList' = boList /\ cpc' = [cpc EXCEPT ![t] = "idle"]
      BY <2>3 DEF CreateAllocFails, SetObjectFails, CreateReturn
    <3>2. CallFrame(t) /\ cpc'[t] = "idle" /\ gpc'[t] = "none"
      BY <1>0, <2>1, <3>1 DEF CallFrame
    <3> QED
      BY <2>1, <2>3, <3>2, CallReturns DEF Results
  <2> QED
    BY <1>6, <2>2, <2>3 DEF UcCreateStep
<1>7. CASE LogRcs0Begin(t)
  <2>1. pc[t] = "submitted" /\ UNCHANGED <<lifeVars, clientVars, registryVars>>
    BY <1>7 DEF LogRcs0Begin
  <2>2. CASE Return(t, "Success") /\ UNCHANGED guardVars
    BY <1>0, <1>2, <2>1, <2>2, CallReturns DEF Results
  <2>3. CASE /\ SkipGuard(t) \/ RequestWake(t)
             /\ Goto(t, "guard") /\ UNCHANGED <<meth, via, ret>>
    <3>1. /\ \E step \in {"polling", "scoped"} : gpc' = [gpc EXCEPT ![t] = step]
          /\ boList' = boList /\ cpc' = cpc
      BY <2>1, <2>3 DEF SkipGuard, RequestWake, registryVars
    <3>2. CallFrame(t)
      BY <1>0, <2>1, <3>1 DEF CallFrame
    <3> QED
      BY <1>0, <2>1, <2>3, <3>1, <3>2, CallMoves DEF CallSteps
  <2> QED
    BY <1>7, <2>2, <2>3 DEF LogRcs0Begin
<1>8. CASE LogRcs0Poll(t)
  <2>1. /\ pc[t] = "guard" /\ UNCHANGED <<lifeVars, clientVars, callVars>>
        /\ boList' = boList /\ cpc' = cpc
    BY <1>8 DEF LogRcs0Poll, registryVars
  <2>2. gpc' = gpc \/ gpc' = [gpc EXCEPT ![t] = "scoped"]
    BY <1>8 DEF LogRcs0Poll, Poll, PollAcked, PollInvalid, PollAgain, PollTimeout, GiveUp
  <2>3. CallFrame(t)
    BY <1>0, <2>1, <2>2 DEF CallFrame
  <2>4. Goto(t, "guard") /\ UNCHANGED <<meth, via, ret>>
    BY <2>1 DEF Goto, callVars, ServiceInv, ServiceTypeOK
  <2> QED
    BY <1>0, <2>1, <2>3, <2>4, CallMoves DEF CallSteps
<1>9. CASE LogRcs0Read(t)
  <2>1. /\ pc[t] = "guard" /\ Goto(t, "ringRead") /\ UNCHANGED <<meth, via, ret>>
        /\ CallFrame(t) /\ cpc' = cpc
    BY <1>2, <1>9 DEF LogRcs0Read
  <2> QED
    BY <1>0, <2>1, CallMoves DEF CallSteps
<1>10. CASE LogRcs0End(t)
  <2>1. /\ pc[t] = "ringRead" /\ Return(t, "Success") /\ UNCHANGED <<lifeVars, clientVars>>
        /\ boList' = boList /\ cpc' = cpc /\ gpc' = [gpc EXCEPT ![t] = "none"]
    BY <1>10 DEF LogRcs0End, ReleaseGuard, registryVars
  <2>2. CallFrame(t) /\ cpc'[t] = "idle" /\ gpc'[t] = "none"
    BY <1>0, <2>1 DEF CallFrame
  <2> QED
    BY <2>1, <2>2, CallReturns DEF Results
<1> QED
  BY <1>1, <1>3, <1>4, <1>5, <1>6, <1>7, <1>8, <1>9, <1>10 DEF ThreadStep

(* Where a thread is in its method: a step that leaves the boot flags      *)
(* alone keeps MethodInv if it moves thread t as the method says.          *)
LEMMA MethodMoves ==
  ASSUME ServiceInv, NEW t \in Threads, UNCHANGED bootVars,
         NEW step \in CallSteps, NEW m \in AllMethods \cup {"none"},
         pc' = [pc EXCEPT ![t] = step], meth' = [meth EXCEPT ![t] = m],
         step = "idle" <=> m = "none",
         step = "reading" => m \in ReadMethods,
         step = "create" => m = "CreateBuffer",
         step = "submit" => m = "Submit",
         step \in {"submitted", "guard", "ringRead"} =>
           m = "Submit" /\ ~gXeBoot.disableCommandStream
  PROVE  MethodInv'
<1>1. /\ pc \in [Threads -> CallSteps] /\ meth \in [Threads -> AllMethods \cup {"none"}]
      /\ gXeBoot' = gXeBoot
  BY DEF ServiceInv, ServiceTypeOK, bootVars
<1>2. pc'[t] = step /\ meth'[t] = m
  BY <1>1
<1>3. \A u \in Threads \ {t} : pc'[u] = pc[u] /\ meth'[u] = meth[u]
  BY <1>1
<1> QED
  BY <1>1, <1>2, <1>3 DEF ServiceInv, MethodInv

(* Every step keeps the threads at steps of their methods.                 *)
LEMMA MethodStepInv ==
  ASSUME ServiceInv, [Next]_vars
  PROVE  MethodInv'
<1>0. /\ pc \in [Threads -> CallSteps] /\ meth \in [Threads -> AllMethods \cup {"none"}]
      /\ gXeBoot.strictSafe => gXeBoot.disableCommandStream
  BY DEF ServiceInv, ServiceTypeOK, MethodInv
<1>1. CASE InitService
  <2>1. pc' = pc /\ meth' = meth /\ \A t \in Threads : pc[t] = "idle"
    BY <1>1, QuietUnlessStarted DEF InitService, callVars
  <2>2. gXeBoot'.strictSafe => gXeBoot'.disableCommandStream
    <3>1. CASE UNCHANGED bootVars
      BY <1>0, <3>1 DEF bootVars
    <3>2. CASE XeParseBootArgs
      <4>1. Named(bootArgs, {"strictsafe"}) => Named(bootArgs, {"nocs", "strictsafe"})
        BY DEF Named
      <4>2. /\ gXeBoot'.strictSafe = (gXeBoot.strictSafe \/ Named(bootArgs, {"strictsafe"}))
            /\ gXeBoot'.disableCommandStream =
                 (gXeBoot.disableCommandStream \/ Named(bootArgs, {"nocs", "strictsafe"}))
        BY <3>2 DEF XeParseBootArgs, Parsed
      <4> QED
        BY <1>0, <4>1, <4>2
    <3> QED
      BY <1>1, <3>1, <3>2 DEF InitService
  <2> QED
    BY <2>1, <2>2 DEF ServiceInv, MethodInv
<1>2. CASE UNCHANGED <<pc, meth, bootVars>>
  BY <1>2 DEF ServiceInv, MethodInv, bootVars
<1>3. ASSUME NEW t \in Threads, NEW c \in Clients, NEW m \in Methods, BeginCall(t, c, m)
      PROVE  MethodInv'
  <2>1. m \in AllMethods /\ m # "none"
    BY ServiceAssumption DEF AllMethods, ReadMethods
  <2>2. /\ UNCHANGED bootVars /\ pc' = [pc EXCEPT ![t] = "entered"]
        /\ meth' = [meth EXCEPT ![t] = m]
    BY <1>3 DEF BeginCall, Goto
  <2> QED
    BY <2>1, <2>2, MethodMoves DEF CallSteps
<1>4. ASSUME NEW t \in Threads, NEW result \in Results, Return(t, result), UNCHANGED bootVars
      PROVE  MethodInv'
  BY <1>4, MethodMoves DEF Return, Goto, CallSteps
<1>5. ASSUME NEW t \in Threads, ThreadStep(t)
      PROVE  MethodInv'
  <2>1. /\ pc[t] = "reading" => meth[t] \in ReadMethods
        /\ pc[t] = "create" => meth[t] = "CreateBuffer"
        /\ pc[t] = "submit" => meth[t] = "Submit"
        /\ pc[t] \in {"submitted", "guard", "ringRead"} =>
             meth[t] = "Submit" /\ ~gXeBoot.disableCommandStream
    BY DEF ServiceInv, MethodInv
  <2>2. UNCHANGED bootVars
    BY <1>5 DEF ThreadStep, UcWait, UcReadCheck, UcRead, UcCreateBegin, UcCreateStep,
                UcSubmitBegin, SubmitNoop, LogRcs0Begin, LogRcs0Poll, LogRcs0Read, LogRcs0End
  <2>3. ASSUME NEW step \in CallSteps \ {"idle"}, Goto(t, step), meth' = meth,
               meth[t] # "none",
               step = "reading" => meth[t] \in ReadMethods,
               step = "create" => meth[t] = "CreateBuffer",
               step \in {"submit", "submitted", "guard", "ringRead"} => meth[t] = "Submit",
               step \in {"submitted", "guard", "ringRead"} => ~gXeBoot.disableCommandStream
        PROVE  MethodInv'
    <3>1. meth' = [meth EXCEPT ![t] = meth[t]] /\ meth[t] \in AllMethods \cup {"none"}
      BY <1>0, <2>3
    <3> QED
      BY <2>2, <2>3, <3>1, MethodMoves DEF Goto
  <2>4. CASE \E result \in Results : Return(t, result)
    BY <1>4, <2>2, <2>4
  <2>5. CASE UcReadCheck(t) /\ ~(\E result \in Results : Return(t, result))
    BY <2>3, <2>5 DEF UcReadCheck, Results, CallSteps, ReadMethods
  <2>6. CASE UcCreateBegin(t) /\ ~(\E result \in Results : Return(t, result))
    BY <2>3, <2>6 DEF UcCreateBegin, Results, CallSteps
  <2>7. CASE UcSubmitBegin(t) /\ ~(\E result \in Results : Return(t, result))
    BY <2>3, <2>7 DEF UcSubmitBegin, Results, CallSteps
  <2>8. CASE SubmitNoop(t) /\ ~(\E result \in Results : Return(t, result))
    BY <2>1, <2>3, <2>8 DEF SubmitNoop, Results, CallSteps
  <2>9. CASE LogRcs0Begin(t) /\ ~(\E result \in Results : Return(t, result))
    BY <2>1, <2>3, <2>9 DEF LogRcs0Begin, Results, CallSteps
  <2>10. CASE LogRcs0Read(t)
    BY <2>1, <2>3, <2>10 DEF LogRcs0Read, CallSteps
  <2>11. CASE (UcCreateStep(t) \/ LogRcs0Poll(t)) /\ ~(\E result \in Results : Return(t, result))
    <3>1. UNCHANGED callVars
      BY <2>11 DEF UcCreateStep, LogRcs0Poll, Results
    <3> QED
      BY <1>2, <2>2, <3>1 DEF callVars
  <2>12. UcWait(t) \/ UcRead(t) \/ LogRcs0End(t) => \E result \in Results : Return(t, result)
    BY DEF UcWait, UcRead, LogRcs0End, Results
  <2> QED
    BY <1>5, <2>4, <2>5, <2>6, <2>7, <2>8, <2>9, <2>10, <2>11, <2>12 DEF ThreadStep
<1>6. CASE Terminate \/ StopStep \/ GT \/ Gone \/ UNCHANGED vars
  BY <1>2, <1>6 DEF Terminate, StopStep, StopList, StopUnmap, StopClear, StopSuper, Free,
                    GT, Gone, vars, callVars
<1>7. CASE StartStep /\ ~InitService
  BY <1>2, <1>7 DEF StartStep, Probe, StartSuperFails, StartMapFails, StartMap,
                    StartProbe, StartList, StartListFails, callVars
<1>8. CASE \E c \in Clients : NewUserClient(c) \/ ClientClose(c) \/ FinalizeClient(c)
  BY <1>2, <1>8 DEF NewUserClient, ClientClose, FinalizeClient, callVars
<1> QED
  BY <1>1, <1>3, <1>5, <1>6, <1>7, <1>8 DEF Next

(* The flags change only in init, which leaves them parsed.                *)
LEMMA BootStepInv ==
  ASSUME ServiceInv, [Next]_vars
  PROVE  BootInv'
<1>1. CASE InitService
  BY <1>1, ParsedOnce DEF InitService, BootInv
<1>2. ASSUME UNCHANGED bootVars,
             phase' = phase \/ phase' = "freed" \/ phase \notin {"new", "freed"}
      PROVE  BootInv'
  BY <1>2 DEF ServiceInv, BootInv, BootParsed, bootVars
<1>3. CASE StartStep /\ ~InitService
  BY <1>2, <1>3 DEF StartStep, Probe, StartSuperFails, StartMapFails, StartMap,
                    StartProbe, StartList, StartListFails
<1>4. CASE Terminate \/ StopStep
  BY <1>2, <1>4 DEF Terminate, StopStep, StopList, StopUnmap, StopClear, StopSuper, Free
<1>5. CASE GT \/ Gone \/ UNCHANGED vars
  BY <1>2, <1>5 DEF GT, Gone, vars, lifeVars
<1>6. CASE \E c \in Clients : NewUserClient(c) \/ ClientClose(c) \/ FinalizeClient(c)
  BY <1>2, <1>6 DEF NewUserClient, ClientClose, FinalizeClient, lifeVars
<1>7. CASE \E t \in Threads, c \in Clients, m \in Methods : BeginCall(t, c, m)
  BY <1>2, <1>7 DEF BeginCall, lifeVars
<1>8. CASE \E t \in Threads : ThreadStep(t)
  <2>1. UNCHANGED <<lifeVars, bootVars>>
    BY <1>8 DEF ThreadStep, UcWait, UcReadCheck, UcRead, UcCreateBegin, UcCreateStep,
                UcSubmitBegin, SubmitNoop, LogRcs0Begin, LogRcs0Poll, LogRcs0Read, LogRcs0End
  <2> QED
    BY <1>2, <2>1 DEF lifeVars
<1> QED
  BY <1>1, <1>3, <1>4, <1>5, <1>6, <1>7, <1>8 DEF Next

(* The invariant holds throughout.                                         *)
LEMMA ServiceStepInv ==
  ASSUME ServiceInv, [Next]_vars
  PROVE  ServiceInv'
<1>1. GuardInv' /\ RegistryInv'
  BY GuardStep, GuardStepInv, RegistryStep, RegistryStepInv DEF ServiceInv
<1>2. ServiceTypeOK' /\ LifeInv' /\ CallInv'
  <2>1. CASE StartStep \/ Terminate \/ StopStep
    BY <2>1, LifeStepInv
  <2>2. CASE \E c \in Clients : NewUserClient(c) \/ ClientClose(c) \/ FinalizeClient(c)
    BY <2>2, ClientStepInv
  <2>3. CASE \/ \E t \in Threads : ThreadStep(t)
             \/ \E t \in Threads, c \in Clients, m \in Methods : BeginCall(t, c, m)
    BY <2>3, CallStepInv
  <2>4. CASE GT
    <3>1. UNCHANGED <<lifeVars, clientVars, callVars, boList, cpc, gpc, fwReq>>
      BY <2>4 DEF GT, GTWake, GTSleep, registryVars
    <3>2. ServiceTypeOK'
      BY <3>1 DEF lifeVars, clientVars, callVars, ServiceInv, ServiceTypeOK
    <3>3. LifeInv'
      BY <3>1 DEF lifeVars, clientVars, ServiceInv, LifeInv
    <3>4. CallInv'
      BY <3>1 DEF clientVars, callVars, ServiceInv, CallInv
    <3> QED
      BY <3>2, <3>3, <3>4
  <2>5. CASE UNCHANGED vars
    BY <2>5 DEF vars, lifeVars, clientVars, callVars, guardVars, registryVars,
                ServiceInv, ServiceTypeOK, LifeInv, CallInv
  <2> QED
    BY <2>1, <2>2, <2>3, <2>4, <2>5 DEF Next, Gone
<1> QED
  BY <1>1, <1>2, BootStepInv, MethodStepInv DEF ServiceInv

(* The inductive invariant of the service.                                 *)
THEOREM ServiceInvariant == Spec => []ServiceInv
  BY ServiceInitInv, ServiceStepInv, PTL DEF Spec

(* Type correctness of the composed system.                                *)
THEOREM ServiceTypeCorrect == Spec => []TypeOK
<1>1. ServiceInv => TypeOK
  BY DEF ServiceInv, ServiceTypeOK, GuardInv, RegistryInv, TypeOK
<1> QED BY <1>1, ServiceInvariant, PTL

(* No register is ever accessed through a mapping that stop has released,  *)
(* however calls, closes and the termination of the service interleave.    *)
THEOREM AccessesStayMapped == Spec => []AccessesAreMapped
<1>1. ServiceInv => AccessesAreMapped
  <2> SUFFICES ASSUME ServiceInv, NEW o \in Accesses
               PROVE  bar0 = "mapped"
    BY DEF AccessesAreMapped
  <2>1. CASE o \in StartAccesses
    BY <2>1 DEF StartAccesses, ServiceInv, LifeInv
  <2>2. ASSUME NEW t \in Threads, o \in ThreadAccesses(t)
        PROVE  bar0 = "mapped"
    <3>1. pc[t] # "idle"
      BY <2>2 DEF ThreadAccesses, LogsRing
    <3>2. phase = "started"
      BY <3>1, QuietUnlessStarted
    <3> QED
      BY <3>2 DEF ServiceInv, LifeInv
  <2> QED
    BY <2>1, <2>2 DEF Accesses
<1> QED BY <1>1, ServiceInvariant, PTL

(* m_boList does not become null under ucCreateBuffer, which tests it only *)
(* once.                                                                   *)
THEOREM RegistryStaysLive == Spec => []RegistryLiveInUse
<1>1. ServiceInv => RegistryLiveInUse
  <2> SUFFICES ASSUME ServiceInv, NEW t \in Threads, cpc[t] # "idle"
               PROVE  boList = "live"
    BY DEF RegistryLiveInUse
  <2>1. phase = "started"
    BY QuietUnlessStarted
  <2> QED
    BY <2>1 DEF ServiceInv, LifeInv
<1> QED BY <1>1, ServiceInvariant, PTL

(* The service implements the specifications of its guard and registry.    *)
THEOREM ServiceImplementsComponents == Spec => ComponentsImplemented
<1>1. Init => GuardBootInit /\ RegistryInit
  BY DEF Init, GuardBootInit
<1>2. ServiceInv /\ [Next]_vars => [GuardNext]_<<guardVars, bootVars>> /\ [RegistryNext]_registryVars
  BY GuardStep, RegistryStep
<1> QED
  BY <1>1, <1>2, ServiceInvariant, PTL DEF Spec, ComponentsImplemented, GuardSpec, RegistrySpec

(* The registers of the two lists of outputs, as sets.                     *)
LEMMA ListedRegisters ==
  /\ GTConfigRegs = {\h45400, \h45404, \hA094, \hA090, \hA024, \hA18C, \hA168, \h138108}
  /\ DisplayInfoRegs = {\h70008, \h60400, \h64000, \h70180, \h60000, \h6000C, \h6001C, \hC7200}
<1>1. 1 .. 8 = {1, 2, 3, 4, 5, 6, 7, 8}
  OBVIOUS
<1>2. GTConfigRegs = {GTConfigOffs[i] : i \in {1, 2, 3, 4, 5, 6, 7, 8}}
  BY <1>1 DEF GTConfigRegs
<1>3. DisplayInfoRegs = {DisplayInfoOffs[i] : i \in {1, 2, 3, 4, 5, 6, 7, 8}}
  BY <1>1 DEF DisplayInfoRegs
<1>4. /\ GTConfigOffs[1] = \h45400 /\ GTConfigOffs[2] = \h45404 /\ GTConfigOffs[3] = \hA094
      /\ GTConfigOffs[4] = \hA090 /\ GTConfigOffs[5] = \hA024 /\ GTConfigOffs[6] = \hA18C
      /\ GTConfigOffs[7] = \hA168 /\ GTConfigOffs[8] = \h138108
  BY DEF GTConfigOffs, FORCEWAKE_ACK
<1>5. /\ DisplayInfoOffs[1] = \h70008 /\ DisplayInfoOffs[2] = \h60400
      /\ DisplayInfoOffs[3] = \h64000 /\ DisplayInfoOffs[4] = \h70180
      /\ DisplayInfoOffs[5] = \h60000 /\ DisplayInfoOffs[6] = \h6000C
      /\ DisplayInfoOffs[7] = \h6001C /\ DisplayInfoOffs[8] = \hC7200
  BY DEF DisplayInfoOffs
<1> QED
  BY <1>2, <1>3, <1>4, <1>5

(* Registers are accessed only between the mapping of BAR0 and stop.       *)
LEMMA AccessPhase ==
  ASSUME ServiceInv, Accesses # {}
  PROVE  phase \in {"mapped", "started"}
<1>1. PICK o \in Accesses : TRUE
  OBVIOUS
<1>2. CASE o \in StartAccesses
  BY <1>2 DEF StartAccesses
<1>3. ASSUME NEW t \in Threads, o \in ThreadAccesses(t)
      PROVE  phase = "started"
  <2>1. pc[t] # "idle"
    BY <1>3 DEF ThreadAccesses, LogsRing
  <2> QED
    BY <2>1, QuietUnlessStarted
<1> QED
  BY <1>1, <1>2, <1>3 DEF Accesses

(* A boot argument that turns the command stream off keeps the kext off    *)
(* the ring and the wake request, and strictsafe off the GGTT, for every   *)
(* boot argument and any number of threads.                                *)
THEOREM FlagsKeepOff == Spec => []FlagsKeepOffEngine
<1>1. ServiceInv => FlagsKeepOffEngine
  <2> SUFFICES ASSUME ServiceInv
               PROVE  FlagsKeepOffEngine
    OBVIOUS
  <2> DEFINE Engine == RingRegs \cup {FORCEWAKE_REQ}
  <2>1. StartAccesses \cap Engine = {}
    BY DEF StartAccesses, StartRegs, PowerRegs, DisplayRegs, GGTTProbeRegs, GGTTRegs,
           FENCE_START, FENCE_END, RingRegs, FORCEWAKE_REQ, FORCEWAKE_ACK,
           readRegSafe, safeRd
  <2>2. gXeBoot.strictSafe => StartAccesses \cap GGTTRegs = {}
    BY DEF StartAccesses, StartRegs, GGTTRegs, FENCE_START, FENCE_END
  <2>3. ASSUME NEW m \in AllMethods \cup {"none"}
        PROVE  MethodRegs(m) \cap (Engine \cup GGTTRegs) = {}
    <3>1. ReadRegsRegs(8) \cap (Engine \cup GGTTRegs) = {}
      BY DEF ReadRegsRegs, kSafeOffs, RingRegs, FORCEWAKE_REQ, GGTTRegs, FENCE_START, FENCE_END
    <3>2. GTConfigRegs \cap (Engine \cup GGTTRegs) = {}
      BY ListedRegisters DEF RingRegs, FORCEWAKE_REQ, GGTTRegs, FENCE_START, FENCE_END
    <3>3. DisplayInfoRegs \cap (Engine \cup GGTTRegs) = {}
      BY ListedRegisters DEF RingRegs, FORCEWAKE_REQ, GGTTRegs, FENCE_START, FENCE_END
    <3> HIDE DEF Engine
    <3> QED
      BY <3>1, <3>2, <3>3 DEF MethodRegs
  <2>4. ASSUME NEW t \in Threads, gXeBoot.disableCommandStream
        PROVE  ThreadAccesses(t) \subseteq MethodRegs(meth[t])
    BY <2>4 DEF ThreadAccesses, LogsRing, readRegSafe, ServiceInv, MethodInv
  <2>5. \A t \in Threads : meth[t] \in AllMethods \cup {"none"}
    BY DEF ServiceInv, ServiceTypeOK
  <2>6. gXeBoot.strictSafe => gXeBoot.disableCommandStream
    BY DEF ServiceInv, MethodInv
  <2> HIDE DEF Engine
  <2>7. gXeBoot.disableCommandStream => Accesses \cap Engine = {}
    BY <2>1, <2>3, <2>4, <2>5 DEF Accesses
  <2>8. gXeBoot.strictSafe => Accesses \cap GGTTRegs = {}
    BY <2>2, <2>3, <2>4, <2>5, <2>6 DEF Accesses
  <2>9. CASE Accesses = {}
    BY <2>9 DEF FlagsKeepOffEngine
  <2>10. CASE Accesses # {}
    <3>1. BootParsed
      BY <2>10, AccessPhase DEF ServiceInv, BootInv
    <3> QED
      BY <2>7, <2>8, <3>1, ParsedStream DEF FlagsKeepOffEngine, Engine
  <2> QED
    BY <2>9, <2>10
<1> QED BY <1>1, ServiceInvariant, PTL

(* Whatever the length of BAR0, readRegSafe reads nothing beyond it; and   *)
(* nothing at all is read beyond a BAR0 that reaches past the fence        *)
(* registers, the last that are read without a look at the length.         *)
THEOREM AccessesStayInBounds == Spec => []AccessesInBounds
<1>1. ServiceInv => AccessesInBounds
  <2> SUFFICES ASSUME ServiceInv, NEW o \in Accesses
               PROVE  o + 4 <= bar0Length \/ (o \in UncheckedRegs /\ bar0Length <= FENCE_END(0))
    BY DEF AccessesInBounds
  <2>1. bar0Length \in Nat /\ bar0Length > 0 /\ bar0Length % 4 = 0
    <3>1. phase \in {"mapped", "started"}
      BY AccessPhase
    <3>2. bar0Length # 0 /\ bar0Length \in BarLengths \cup {0}
      BY <3>1 DEF ServiceInv, LifeInv, ServiceTypeOK
    <3>3. bar0Length \in Nat /\ bar0Length % 4 = 0
      BY <3>2, ServiceAssumption
    <3> QED BY <3>2, <3>3
  <2> DEFINE Checked == {r \in Nat : r % 4 = 0 /\ r < bar0Length}
  <2>2. UncheckedRegs \subseteq {r \in Nat : r + 4 <= \h100008}
    BY DEF UncheckedRegs, StartRegs, GGTTProbeRegs, GGTTRegs, FENCE_START, FENCE_END, RingRegs,
           FORCEWAKE_REQ, FORCEWAKE_ACK
  <2>3. readRegSafe(PowerRegs) \subseteq Checked /\ readRegSafe(DisplayRegs) \subseteq Checked
    BY <2>1 DEF readRegSafe, PowerRegs, DisplayRegs, FORCEWAKE_ACK
  <2>4. ASSUME NEW m \in AllMethods \cup {"none"}
        PROVE  readRegSafe(MethodRegs(m)) \subseteq Checked
    <3>1. /\ readRegSafe(ReadRegsRegs(8)) \subseteq Checked
          /\ readRegSafe(GTConfigRegs) \subseteq Checked
          /\ readRegSafe(DisplayInfoRegs) \subseteq Checked
          /\ readRegSafe({}) \subseteq Checked
      BY <2>1, ListedRegisters DEF readRegSafe, ReadRegsRegs, kSafeOffs
    <3> QED
      BY <3>1 DEF MethodRegs
  <2>5. o \in UncheckedRegs \cup Checked
    <3> HIDE DEF Checked
    <3>1. CASE o \in StartAccesses
      BY <2>3, <3>1 DEF StartAccesses, safeRd, UncheckedRegs
    <3>2. ASSUME NEW t \in Threads, o \in ThreadAccesses(t)
          PROVE  o \in UncheckedRegs \cup Checked
      <4>1. meth[t] \in AllMethods \cup {"none"}
        BY DEF ServiceInv, ServiceTypeOK
      <4> QED
        BY <2>4, <3>2, <4>1 DEF ThreadAccesses, safeRd, UncheckedRegs
    <3> QED
      BY <3>1, <3>2 DEF Accesses
  <2>6. CASE o \in Checked
    BY <2>1, <2>6
  <2>7. CASE o \in UncheckedRegs
    <3>1. FENCE_END(0) = \h100004
      BY DEF FENCE_END
    <3>2. o \in Nat /\ o + 4 <= \h100008
      BY <2>2, <2>7
    <3>3. bar0Length <= \h100004 \/ bar0Length >= \h100008
      BY <2>1
    <3> QED
      BY <2>1, <2>7, <3>1, <3>2, <3>3
  <2> QED
    BY <2>5, <2>6, <2>7
<1> QED BY <1>1, ServiceInvariant, PTL

(* Every step of the life of the service, of a client or of a call is a    *)
(* step of the interface user space sees, or invisible to it.              *)
LEMMA APIStep ==
  ASSUME ServiceInv, [Next]_vars
  PROVE  [API!APINext]_(API!apiVars)
<1> DEFINE Conn == {c \in Clients : uc[c] = "open"}
           csOff == gXeBoot.disableCommandStream
<1> USE DEF API!apiVars
<1>0. /\ uc \in [Clients -> {"none", "open"}]
      /\ pc \in [Threads -> CallSteps] /\ meth \in [Threads -> AllMethods \cup {"none"}]
      /\ via \in [Threads -> Clients \cup {NoClient}] /\ ret \in Results
      /\ active \in BOOLEAN
  BY DEF ServiceInv, ServiceTypeOK
<1>1. CASE UNCHANGED <<ServiceSeen, gXeBoot, uc, meth, via, ret>>
  BY <1>1
<1>2. CASE InitService
  <2>1. ServiceSeen = "absent" /\ UNCHANGED <<ServiceSeen, uc, meth, via, ret>>
    BY <1>2 DEF InitService, ServiceSeen, ServiceInv, LifeInv, clientVars, callVars
  <2>2. csOff' \in BOOLEAN
    <3>1. GuardInv'
      BY GuardStep, GuardStepInv DEF ServiceInv
    <3> QED
      BY <3>1 DEF GuardInv, BootTypeOK, XeBootFlags
  <2> QED
    BY <2>1, <2>2 DEF API!APINext, API!Configure
<1>3. CASE StartList
  <2>1. /\ ServiceSeen = "absent" /\ ServiceSeen' = "published"
        /\ UNCHANGED <<gXeBoot, uc, meth, via, ret>>
    BY <1>3 DEF StartList, ServiceSeen, ServiceInv, LifeInv, clientVars, callVars, bootVars
  <2> QED
    BY <2>1 DEF API!APINext, API!Publish
<1>4. CASE Terminate
  <2>1. /\ ServiceSeen = "published" /\ ServiceSeen' = "withdrawn"
        /\ UNCHANGED <<gXeBoot, uc, meth, via, ret>>
    BY <1>4 DEF Terminate, ServiceSeen, callVars, bootVars
  <2> QED
    BY <2>1 DEF API!APINext, API!Withdraw
<1>5. CASE StopList
  <2>1. /\ ServiceSeen = "withdrawn" /\ ServiceSeen' = "retired" /\ Conn = {}
        /\ UNCHANGED <<gXeBoot, uc, meth, via, ret>>
    BY <1>5 DEF StopList, ServiceSeen, clientVars, callVars, bootVars
  <2> QED
    BY <2>1 DEF API!APINext, API!Retire
<1>6. ASSUME NEW c \in Clients, NewUserClient(c)
      PROVE  API!APINext
  <2>1. /\ ServiceSeen = "published" /\ c \notin Conn /\ Conn' = Conn \cup {c}
        /\ UNCHANGED <<ServiceSeen, gXeBoot, meth, via, ret>>
    BY <1>0, <1>6 DEF NewUserClient, ServiceSeen, lifeVars, callVars, bootVars
  <2> QED
    BY <2>1 DEF API!APINext, API!Connect
<1>7. ASSUME NEW c \in Clients, FinalizeClient(c)
      PROVE  [API!APINext]_(API!apiVars)
  <2>1. /\ \A t \in Threads : via[t] # c
        /\ Conn' = Conn \ {c}
        /\ UNCHANGED <<ServiceSeen, gXeBoot, meth, via, ret>>
    BY <1>0, <1>7 DEF FinalizeClient, ServiceSeen, lifeVars, callVars, bootVars
  <2>2. CASE c \in Conn
    BY <2>1, <2>2 DEF API!APINext, API!Disconnect
  <2>3. CASE c \notin Conn
    BY <2>1, <2>3
  <2> QED
    BY <2>2, <2>3
<1>8. ASSUME NEW t \in Threads, NEW c \in Clients, NEW m \in Methods, BeginCall(t, c, m)
      PROVE  API!APINext
  <2>1. /\ meth[t] = "none" /\ c \in Conn
        /\ meth' = [meth EXCEPT ![t] = m] /\ via' = [via EXCEPT ![t] = c]
        /\ UNCHANGED <<ServiceSeen, gXeBoot, uc, ret>>
    BY <1>8 DEF BeginCall, ServiceSeen, lifeVars, clientVars, bootVars, ServiceInv, MethodInv
  <2> QED
    BY <2>1 DEF API!APINext, API!Begin
<1>9. ASSUME NEW t \in Threads, ThreadStep(t)
      PROVE  [API!APINext]_(API!apiVars)
  <2>1. UNCHANGED <<ServiceSeen, gXeBoot, uc>> /\ pc[t] # "idle"
    <3>1. UNCHANGED <<lifeVars, clientVars, bootVars>> /\ pc[t] # "idle"
      BY <1>9 DEF ThreadStep, UcWait, UcReadCheck, UcRead, UcCreateBegin, UcCreateStep,
                  UcSubmitBegin, SubmitNoop, LogRcs0Begin, LogRcs0Poll, LogRcs0Read, LogRcs0End
    <3> QED
      BY <3>1 DEF lifeVars, clientVars, bootVars, ServiceSeen
  <2>2. mmio /\ boList = "live"
    <3>1. phase = "started"
      BY <2>1, QuietUnlessStarted
    <3> QED
      BY <3>1 DEF ServiceInv, LifeInv
  <2>3. /\ meth[t] # "none"
        /\ pc[t] = "reading" => meth[t] \in ReadMethods
        /\ pc[t] = "create" => meth[t] = "CreateBuffer"
        /\ pc[t] = "submit" => meth[t] = "Submit"
        /\ pc[t] \in {"submitted", "guard", "ringRead"} => meth[t] = "Submit" /\ ~csOff
        /\ gXeBoot.strictSafe => csOff
    BY <2>1 DEF ServiceInv, MethodInv
  <2>4. \/ UNCHANGED <<meth, via, ret>>
        \/ \E r \in Answers(meth[t], csOff) : Return(t, r)
    <3>1. CASE UcWait(t)
      BY <3>1 DEF UcWait, Answers
    <3>2. CASE UcReadCheck(t)
      BY <2>2, <3>2 DEF UcReadCheck
    <3>3. CASE UcRead(t)
      BY <2>3, <3>3 DEF UcRead, Answers, ReadMethods
    <3>4. CASE UcCreateBegin(t)
      BY <2>2, <3>4 DEF UcCreateBegin
    <3>5. CASE UcCreateStep(t)
      BY <2>3, <3>5 DEF UcCreateStep, Answers, callVars
    <3>6. CASE UcSubmitBegin(t)
      BY <2>2, <3>6 DEF UcSubmitBegin, Answers
    <3>7. CASE SubmitNoop(t)
      BY <2>3, <3>7 DEF SubmitNoop, Answers
    <3>8. CASE LogRcs0Begin(t) \/ LogRcs0Poll(t) \/ LogRcs0Read(t) \/ LogRcs0End(t)
      BY <2>3, <3>8 DEF LogRcs0Begin, LogRcs0Poll, LogRcs0Read, LogRcs0End, Answers, callVars
    <3> QED
      BY <1>9, <3>1, <3>2, <3>3, <3>4, <3>5, <3>6, <3>7, <3>8 DEF ThreadStep
  <2>5. ASSUME NEW r \in Answers(meth[t], csOff), Return(t, r)
        PROVE  API!APINext
    <3>1. r \in Results
      BY DEF Answers, Results
    <3> QED
      BY <2>1, <2>3, <2>5, <3>1 DEF API!APINext, API!Answer, API!Answers, API!Results, Answers, Results, Return
  <2> QED
    BY <2>1, <2>4, <2>5
<1>10. CASE \/ StartStep /\ ~InitService /\ ~StartList
            \/ StopStep /\ ~StopList
            \/ GT \/ Gone \/ UNCHANGED vars
            \/ \E c \in Clients : ClientClose(c)
  <2>1. UNCHANGED <<gXeBoot, uc, meth, via, ret, active>>
    BY <1>10 DEF StartStep, Probe, StartSuperFails, StartMapFails, StartMap, StartProbe,
                 StartListFails, StopStep, StopUnmap, StopClear, StopSuper, Free, GT, Gone,
                 ClientClose, vars, lifeVars, clientVars, callVars, bootVars
  <2>2. phase' = phase \/ (phase # "started" /\ phase' # "started")
    BY <1>10 DEF StartStep, Probe, StartSuperFails, StartMapFails, StartMap, StartProbe,
                 StartListFails, StopStep, StopUnmap, StopClear, StopSuper, Free, GT, Gone,
                 ClientClose, vars, lifeVars
  <2> QED
    BY <1>1, <2>1, <2>2 DEF ServiceSeen
<1>11. CASE StartStep \/ StopStep \/ GT \/ Gone \/ UNCHANGED vars
  BY <1>2, <1>3, <1>5, <1>10, <1>11
<1>12. ASSUME NEW c \in Clients, NewUserClient(c) \/ ClientClose(c) \/ FinalizeClient(c)
       PROVE  [API!APINext]_(API!apiVars)
  BY <1>6, <1>7, <1>10, <1>12
<1> QED
  BY <1>4, <1>8, <1>9, <1>11, <1>12 DEF Next

(* The kext implements the interface it promises to user space, for any    *)
(* number of threads and clients.                                          *)
THEOREM ServiceImplementsAPI == Spec => ImplementsAPI
<1>1. Init => API!APIInit
  <2> SUFFICES ASSUME Init PROVE API!APIInit
    OBVIOUS
  <2>1. gXeBoot.disableCommandStream = FALSE
    BY DEF Init, BootInit, NoFlags
  <2>2. ServiceSeen = "absent" /\ {c \in Clients : uc[c] = "open"} = {}
    BY DEF Init, ServiceSeen
  <2> QED
    BY <2>1, <2>2 DEF Init, API!APIInit
<1>2. ServiceInv /\ [Next]_vars => [API!APINext]_(API!apiVars)
  BY APIStep
<1> QED
  BY <1>1, <1>2, ServiceInvariant, PTL DEF Spec, ImplementsAPI, API!APISpec

(* What is proved of the components therefore holds in the kext, for any   *)
(* number of threads: guards that acquired are awake until robbed, and the *)
(* boot flags keep the request clear; up to the first two setObject that   *)
(* overlap, buffers with a cookie stay alive, none is released by half and *)
(* stop leaves none; and up to the first that overtakes another, cookies   *)
(* name their buffers and the registry implements the table of handles.    *)
THEOREM ComponentPromisesHold ==
  Spec => /\ [](HolderAwake /\ RequestOwned /\ FlagsHonoured)
          /\ [](IssuedAlive /\ ReleasesAreWhole /\ NoBufferLeft /\ CookieNamesBuffer)
          /\ ImplementsTable
<1> QED
  BY ServiceImplementsComponents, HoldersAreAwake, RequestsAreOwned, FlagsAreHonoured,
     IssuedStayAlive, BuffersAreWhole, StopLeavesNoBuffer, CookiesNameBuffers,
     RegistryImplementsTable, PTL DEF ComponentsImplemented

(* If only one thread calls at a time the kext keeps what the comment of   *)
(* the guard promises: the GT is awake while the ring registers are read   *)
(* under an acquired guard.                                                *)
THEOREM SoleCallerPromisesHold ==
  ASSUME SoleCaller
  PROVE  Spec => []AwakeWhileReading
<1>1. GuardSpec => []AwakeWhileReading
  BY SoleCaller, SoleCallerIsAwake
<1> QED
  BY <1>1, ServiceImplementsComponents, PTL DEF ComponentsImplemented

=============================================================================
