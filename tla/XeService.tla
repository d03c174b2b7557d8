----------------------------- MODULE XeService -----------------------------
(***************************************************************************)
(* kexts/XeService.{hpp,cpp}, XeUserClient.cpp and XeCommandStream.cpp:    *)
(* the life of the service, its user clients, and the external methods     *)
(* they run.  The registry and the forcewake guard are the modules         *)
(* XeBORegistry and ForcewakeGuard; their actions are taken here at the    *)
(* points where the methods call them.                                     *)
(*                                                                         *)
(* init, probe, start and stop are called by IOKit, in this order; nothing *)
(* else runs before registerService() or after the last client is gone.    *)
(***************************************************************************)
EXTENDS XeHW, XeMethods, ForcewakeGuard, XeBORegistry

CONSTANTS
  Clients,              \* connections user space may open
  NoClient,
  Methods,              \* the selectors user space uses
  BarLengths            \* lengths BAR0 may be mapped with

ASSUME ServiceAssumption ==
  /\ NoClient \notin Clients
  /\ Methods \subseteq AllMethods
  /\ \A n \in BarLengths : n \in Nat /\ n % 4 = 0      \* registers are dwords

VARIABLES
  phase,                \* how far IOKit has taken the service
  active,               \* not yet terminated
  superStarted,         \* super::start succeeded, super::stop not yet called
  pciOn,                \* what start enabled in the PCI command register
  bar0,                 \* "none", "mapped", "released" (pointer not yet cleared)
  mmio,                 \* the pointer is not null
  bar0Length,
  uc,                   \* per client: "none" or "open"
  dying,                \* clients that are terminated and not yet finalized
  pc,                   \* per thread: progress through its external method
  meth, via,            \* per thread: the method and the client it was called on
  ret                   \* what the last call to return did return

lifeVars   == <<phase, active, superStarted, pciOn, bar0, mmio, bar0Length>>
clientVars == <<uc, dying>>
callVars   == <<pc, meth, via, ret>>
vars == <<lifeVars, clientVars, callVars, guardVars, registryVars, bootVars>>

Phases == {"new", "inited", "probed", "mapped", "listing", "started",
           "unlisted", "unmapped", "cleared", "stopped", "failed", "freed"}

(* "entered": dispatched; "reading": past the mmio test of a read method;  *)
(* "create": inside ucCreateBuffer; "submit": the batch is allocated;      *)
(* "submitted": the batch is written; "guard": in logRcs0State;            *)
(* "ringRead": the ring registers are read, the guard still in scope.      *)
CallSteps == {"idle", "entered", "reading", "create", "submit", "submitted",
              "guard", "ringRead"}

TypeOK ==
  /\ BootTypeOK /\ GuardTypeOK /\ RegistryTypeOK
  /\ phase \in Phases
  /\ active \in BOOLEAN /\ superStarted \in BOOLEAN /\ mmio \in BOOLEAN
  /\ pciOn \subseteq {"memory", "io", "busMaster"}
  /\ bar0 \in {"none", "mapped", "released"}
  /\ bar0Length \in BarLengths \cup {0}
  /\ uc \in [Clients -> {"none", "open"}]
  /\ dying \subseteq Clients
  /\ pc \in [Threads -> CallSteps]
  /\ meth \in [Threads -> AllMethods \cup {"none"}]
  /\ via \in [Threads -> Clients \cup {NoClient}]
  /\ ret \in Results

Init ==
  /\ BootInit /\ GuardInit /\ RegistryInit
  /\ phase = "new"
  /\ active = TRUE /\ superStarted = FALSE
  /\ pciOn = {} /\ bar0 = "none" /\ mmio = FALSE /\ bar0Length = 0
  /\ uc = [c \in Clients |-> "none"] /\ dying = {}
  /\ pc = [t \in Threads |-> "idle"]
  /\ meth = [t \in Threads |-> "none"]
  /\ via = [t \in Threads |-> NoClient]
  /\ ret = "none"

-----------------------------------------------------------------------------
(* Mutant: readRegSafe relies on the compiled-in maximum alone.            *)
readRegSafeNoLength(offs) == {o \in offs : mmio /\ o <= kMaxSafeMMIOOffset}

(* Which offsets the accessors let through to the hardware.  readRegSafe   *)
(* tests the member mmio and the length of the mapping; the accessors of   *)
(* XeGGTT, XeCommandStream and ForcewakeGuard test only the pointer they   *)
(* were given, which nobody clears, and the compiled-in maximum.           *)
readRegSafe(offs) ==
  {o \in offs : mmio /\ o <= kMaxSafeMMIOOffset /\ (bar0Length > 0 => o < bar0Length)}

safeRd(offs) == {o \in offs : o <= kMaxSafeMMIOOffset}

MethodRegs(m) ==
  CASE m = "ReadRegs"       -> ReadRegsRegs(8)
    [] m = "GetGTConfig"    -> GTConfigRegs
    [] m = "GetDisplayInfo" -> DisplayInfoRegs
    [] OTHER                -> {}

(* Mutant: start probes in strict safe mode too.                           *)
StartAccessesAlways ==
  IF phase # "mapped" THEN {}
  ELSE StartRegs \cup readRegSafe(PowerRegs) \cup safeRd(GGTTProbeRegs)
                 \cup readRegSafe(DisplayRegs)

(* What start accesses in its next step, StartProbe.                       *)
StartAccesses ==
  IF phase # "mapped" THEN {}
  ELSE StartRegs \cup
       (IF gXeBoot.strictSafe THEN {}
        ELSE readRegSafe(PowerRegs) \cup safeRd(GGTTProbeRegs) \cup readRegSafe(DisplayRegs))

(* The test at the head of logRcs0State: it goes on to the guard.          *)
LogsRing(t) ==
  pc[t] = "submitted" /\ ~gXeBoot.disableCommandStream /\ ~gXeBoot.strictSafe

(* What thread t accesses in its next step: UcRead, RequestWake, Poll,     *)
(* LogRcs0Read or ReleaseGuard.                                            *)
ThreadAccesses(t) ==
  CASE pc[t] = "reading" -> readRegSafe(MethodRegs(meth[t]))
    [] LogsRing(t) /\ WantsWake(t) -> safeRd({FORCEWAKE_REQ})
    [] pc[t] = "guard" /\ gpc[t] = "polling" -> safeRd({FORCEWAKE_ACK})
    [] pc[t] = "guard" /\ gpc[t] = "scoped"  -> safeRd(RingRegs)
    [] pc[t] = "ringRead" /\ acquired[t]     -> safeRd({FORCEWAKE_REQ})
    [] OTHER -> {}

Accesses == StartAccesses \cup UNION {ThreadAccesses(t) : t \in Threads}

-----------------------------------------------------------------------------
(* The life of the service.                                                *)
InitService ==
  /\ phase = "new"
  /\ \/ phase' = "inited" /\ XeParseBootArgs
     \/ phase' = "freed" /\ UNCHANGED bootVars          \* super::init failed
  /\ UNCHANGED <<active, superStarted, pciOn, bar0, mmio, bar0Length>>
  /\ UNCHANGED <<clientVars, callVars, guardVars, registryVars>>

(* A device other than 8086:A788 is only logged; super::probe decides.     *)
Probe ==
  /\ phase = "inited"
  /\ phase' \in {"probed", "freed"}
  /\ UNCHANGED <<active, superStarted, pciOn, bar0, mmio, bar0Length>>
  /\ UNCHANGED <<clientVars, callVars, guardVars, registryVars, bootVars>>

(* start up to the mapping of BAR0.  The provider is an IOPCIDevice, as    *)
(* the personality in Info.plist demands.                                  *)
StartSuperFails ==
  /\ phase = "probed"
  /\ phase' = "failed"
  /\ UNCHANGED <<active, superStarted, pciOn, bar0, mmio, bar0Length>>
  /\ UNCHANGED <<clientVars, callVars, guardVars, registryVars, bootVars>>

(* No mapping, a mapping of length 0, or one without a virtual address;    *)
(* the latter two are released again.                                      *)
StartMapFails ==
  /\ phase = "probed"
  /\ phase' = "failed"
  /\ superStarted' = TRUE
  /\ pciOn' = {"memory", "io", "busMaster"}
  /\ bar0Length' \in BarLengths \cup {0}
  /\ UNCHANGED <<active, bar0, mmio>>
  /\ UNCHANGED <<clientVars, callVars, guardVars, registryVars, bootVars>>

StartMap ==
  /\ phase = "probed"
  /\ phase' = "mapped"
  /\ superStarted' = TRUE
  /\ pciOn' = {"memory", "io", "busMaster"}
  /\ bar0' = "mapped" /\ mmio' = TRUE
  /\ bar0Length' \in BarLengths \ {0}
  /\ UNCHANGED active
  /\ UNCHANGED <<clientVars, callVars, guardVars, registryVars, bootVars>>

(* The register reads of start: StartAccesses.                             *)
StartProbe ==
  /\ phase = "mapped"
  /\ phase' = "listing"
  /\ UNCHANGED <<active, superStarted, pciOn, bar0, mmio, bar0Length>>
  /\ UNCHANGED <<clientVars, callVars, guardVars, registryVars, bootVars>>

StartList ==
  /\ phase = "listing"
  /\ phase' = "started"                                \* registerService()
  /\ RegistryStart
  /\ UNCHANGED <<active, superStarted, pciOn, bar0, mmio, bar0Length>>
  /\ UNCHANGED <<clientVars, callVars, guardVars, bootVars>>

(* start returns false and releases nothing of what it holds.              *)
StartListFails ==
  /\ phase = "listing"
  /\ phase' = "failed"
  /\ UNCHANGED <<active, superStarted, pciOn, bar0, mmio, bar0Length>>
  /\ UNCHANGED <<clientVars, callVars, guardVars, registryVars, bootVars>>

(* IOKit terminates the service and with it every client (external).       *)
Terminate ==
  /\ phase = "started" /\ active
  /\ active' = FALSE
  /\ dying' = {c \in Clients : uc[c] = "open"}
  /\ UNCHANGED <<phase, superStarted, pciOn, bar0, mmio, bar0Length, uc>>
  /\ UNCHANGED <<callVars, guardVars, registryVars, bootVars>>

(* stop, statement by statement; IOKit calls it when the last client has   *)
(* been detached.                                                          *)
StopList ==
  /\ phase = "started" /\ ~active
  /\ \A c \in Clients : uc[c] = "none"
  /\ phase' = "unlisted"
  /\ RegistryStop
  /\ UNCHANGED <<active, superStarted, pciOn, bar0, mmio, bar0Length>>
  /\ UNCHANGED <<clientVars, callVars, guardVars, bootVars>>

StopUnmap ==
  /\ phase = "unlisted"
  /\ phase' = "unmapped"
  /\ bar0' = IF bar0 = "mapped" THEN "released" ELSE bar0
  /\ UNCHANGED <<active, superStarted, pciOn, mmio, bar0Length>>
  /\ UNCHANGED <<clientVars, callVars, guardVars, registryVars, bootVars>>

StopClear ==
  /\ phase = "unmapped"
  /\ phase' = "cleared"
  /\ bar0' = "none" /\ mmio' = FALSE
  /\ UNCHANGED <<active, superStarted, pciOn, bar0Length>>
  /\ UNCHANGED <<clientVars, callVars, guardVars, registryVars, bootVars>>

(* Mutant: stop leaves bus mastering on.                                   *)
StopSuperKeepsBusMaster ==
  /\ phase = "cleared"
  /\ phase' = "stopped"
  /\ superStarted' = FALSE
  /\ UNCHANGED <<active, pciOn, bar0, mmio, bar0Length>>
  /\ UNCHANGED <<clientVars, callVars, guardVars, registryVars, bootVars>>

StopSuper ==
  /\ phase = "cleared"
  /\ phase' = "stopped"
  /\ pciOn' = pciOn \ {"busMaster"}
  /\ superStarted' = FALSE
  /\ UNCHANGED <<active, bar0, mmio, bar0Length>>
  /\ UNCHANGED <<clientVars, callVars, guardVars, registryVars, bootVars>>

(* A service whose start failed is detached and freed, stop is not called. *)
Free ==
  /\ phase \in {"failed", "stopped"}
  /\ phase' = "freed"
  /\ UNCHANGED <<active, superStarted, pciOn, bar0, mmio, bar0Length>>
  /\ UNCHANGED <<clientVars, callVars, guardVars, registryVars, bootVars>>

-----------------------------------------------------------------------------
(* Mutant: the result of attach is not looked at.                          *)
NewUserClientUnattached(c) ==
  /\ phase = "started"
  /\ uc[c] = "none"
  /\ uc' = [uc EXCEPT ![c] = "open"]
  /\ UNCHANGED <<lifeVars, dying, callVars, guardVars, registryVars, bootVars>>

(* User clients.  newUserClient allocates, attaches and starts one, or     *)
(* undoes what it did and fails; attach needs an active provider.          *)
NewUserClient(c) ==
  /\ phase = "started" /\ active
  /\ uc[c] = "none"
  /\ uc' = [uc EXCEPT ![c] = "open"]
  /\ UNCHANGED <<lifeVars, dying, callVars, guardVars, registryVars, bootVars>>

(* Mutant: clientClose detaches the client itself instead of terminating.  *)
ClientCloseDetaches(c) ==
  /\ uc[c] = "open" /\ c \notin dying
  /\ uc' = [uc EXCEPT ![c] = "none"]
  /\ UNCHANGED <<lifeVars, dying, callVars, guardVars, registryVars, bootVars>>

(* clientClose: IOServiceClose, or the death of the task.  terminate() is  *)
(* asynchronous: calls that other threads have in the kernel go on.        *)
ClientClose(c) ==
  /\ uc[c] = "open" /\ c \notin dying
  /\ dying' = dying \cup {c}
  /\ UNCHANGED <<lifeVars, uc, callVars, guardVars, registryVars, bootVars>>

(* IOKit finalizes a terminated client when its calls have returned: stop, *)
(* detach, free (external).                                                *)
FinalizeClient(c) ==
  /\ c \in dying
  /\ \A t \in Threads : via[t] # c
  /\ uc' = [uc EXCEPT ![c] = "none"]
  /\ dying' = dying \ {c}
  /\ UNCHANGED <<lifeVars, callVars, guardVars, registryVars, bootVars>>

-----------------------------------------------------------------------------
(* External methods.                                                       *)
Goto(t, step) == pc' = [pc EXCEPT ![t] = step]

Return(t, result) ==
  /\ Goto(t, "idle")
  /\ meth' = [meth EXCEPT ![t] = "none"]
  /\ via' = [via EXCEPT ![t] = NoClient]
  /\ ret' = result

(* externalMethod has checked the selector and the counts of the scalars.  *)
BeginCall(t, c, m) ==
  /\ pc[t] = "idle" /\ uc[c] = "open"
  /\ Goto(t, "entered")
  /\ meth' = [meth EXCEPT ![t] = m]
  /\ via' = [via EXCEPT ![t] = c]
  /\ UNCHANGED ret
  /\ UNCHANGED <<lifeVars, clientVars, guardVars, registryVars, bootVars>>

UcWait(t) ==
  /\ pc[t] = "entered" /\ meth[t] = "Wait"
  /\ Return(t, "Success")
  /\ UNCHANGED <<lifeVars, clientVars, guardVars, registryVars, bootVars>>

(* ucReadRegs, ucGetGTConfig, ucGetDisplayInfo: the test of mmio ...       *)
UcReadCheck(t) ==
  /\ pc[t] = "entered" /\ meth[t] \in ReadMethods
  /\ IF mmio THEN Goto(t, "reading") /\ UNCHANGED <<meth, via, ret>>
             ELSE Return(t, "NotReady")
  /\ UNCHANGED <<lifeVars, clientVars, guardVars, registryVars, bootVars>>

(* ... and the reads: ThreadAccesses(t).                                   *)
UcRead(t) ==
  /\ pc[t] = "reading"
  /\ Return(t, "Success")
  /\ UNCHANGED <<lifeVars, clientVars, guardVars, registryVars, bootVars>>

(* ucCreateBuffer, in the steps of XeBORegistry.                           *)
UcCreateBegin(t) ==
  /\ pc[t] = "entered" /\ meth[t] = "CreateBuffer"
  /\ \/ CreateCheck(t) /\ Goto(t, "create") /\ UNCHANGED <<meth, via, ret>>
     \/ boList = "none" /\ Return(t, "NotReady") /\ UNCHANGED registryVars
  /\ UNCHANGED <<lifeVars, clientVars, guardVars, bootVars>>

UcCreateStep(t) ==
  /\ pc[t] = "create"
  /\ \/ (CreateAlloc(t) \/ SetObjectLoad(t) \/ SetObjectStore(t)) /\ UNCHANGED callVars
     \/ (CreateAllocFails(t) \/ SetObjectFails(t)) /\ Return(t, "NoResources")
     \/ CreateReturn(t) /\ Return(t, "Success")
  /\ UNCHANGED <<lifeVars, clientVars, guardVars, bootVars>>

(* ucSubmitNoop: the test of mmio and the allocation of the batch.         *)
UcSubmitBegin(t) ==
  /\ pc[t] = "entered" /\ meth[t] = "Submit"
  /\ \/ mmio /\ Goto(t, "submit") /\ UNCHANGED <<meth, via, ret>>
     \/ mmio /\ Return(t, "NoResources")
     \/ ~mmio /\ Return(t, "NotReady")
  /\ UNCHANGED <<lifeVars, clientVars, guardVars, registryVars, bootVars>>

(* Mutant: submitNoop does not look at the boot flags.                     *)
SubmitNoopUnflagged(t) ==
  /\ pc[t] = "submit"
  /\ \/ Goto(t, "submitted") /\ UNCHANGED <<meth, via, ret>>
     \/ Return(t, "NoMemory")
  /\ UNCHANGED <<lifeVars, clientVars, guardVars, registryVars, bootVars>>

(* XeCommandStream::submitNoop up to logRcs0State.  The batch has 4096     *)
(* bytes, so the test of its size passes.                                  *)
SubmitNoop(t) ==
  /\ pc[t] = "submit"
  /\ IF gXeBoot.disableCommandStream \/ gXeBoot.strictSafe
       THEN Return(t, "NotReady")
       ELSE \/ Goto(t, "submitted") /\ UNCHANGED <<meth, via, ret>>
            \/ Return(t, "NoMemory")                     \* getBytesNoCopy
  /\ UNCHANGED <<lifeVars, clientVars, guardVars, registryVars, bootVars>>

(* logRcs0State repeats the test of the flags, then enters the guard.      *)
LogRcs0Begin(t) ==
  /\ pc[t] = "submitted"
  /\ IF LogsRing(t)
       THEN /\ SkipGuard(t) \/ RequestWake(t)
            /\ Goto(t, "guard") /\ UNCHANGED <<meth, via, ret>>
       ELSE Return(t, "Success") /\ UNCHANGED guardVars
  /\ UNCHANGED <<lifeVars, clientVars, registryVars, bootVars>>

LogRcs0Poll(t) ==
  /\ pc[t] = "guard"
  /\ Poll(t)
  /\ UNCHANGED <<lifeVars, clientVars, callVars, registryVars, bootVars>>

LogRcs0Read(t) ==
  /\ pc[t] = "guard" /\ gpc[t] = "scoped"
  /\ Goto(t, "ringRead")
  /\ UNCHANGED <<meth, via, ret>>
  /\ UNCHANGED <<lifeVars, clientVars, guardVars, registryVars, bootVars>>

(* The guard goes out of scope; ucSubmitNoop releases the batch, as it     *)
(* does after every result of submitNoop.  Nothing has executed it.        *)
LogRcs0End(t) ==
  /\ pc[t] = "ringRead"
  /\ ReleaseGuard(t)
  /\ Return(t, "Success")
  /\ UNCHANGED <<lifeVars, clientVars, registryVars, bootVars>>

-----------------------------------------------------------------------------
GT == (GTWake \/ GTSleep) /\ UNCHANGED <<lifeVars, clientVars, callVars, registryVars, bootVars>>

ThreadStep(t) ==
  \/ UcWait(t) \/ UcReadCheck(t) \/ UcRead(t) \/ UcCreateBegin(t) \/ UcCreateStep(t)
  \/ UcSubmitBegin(t) \/ SubmitNoop(t)
  \/ LogRcs0Begin(t) \/ LogRcs0Poll(t) \/ LogRcs0Read(t) \/ LogRcs0End(t)

StartStep == InitService \/ Probe \/ StartSuperFails \/ StartMapFails \/ StartMap
             \/ StartProbe \/ StartList \/ StartListFails
StopStep == StopList \/ StopUnmap \/ StopClear \/ StopSuper \/ Free

(* Nothing is left to do for a service that was freed.                     *)
Gone == phase = "freed" /\ UNCHANGED vars

Next ==
  \/ StartStep \/ Terminate \/ StopStep \/ GT \/ Gone
  \/ \E c \in Clients : NewUserClient(c) \/ ClientClose(c) \/ FinalizeClient(c)
  \/ \E t \in Threads : ThreadStep(t)
  \/ \E t \in Threads, c \in Clients, m \in Methods : BeginCall(t, c, m)

Spec == Init /\ [][Next]_vars

(* Kernel threads run, and IOKit carries a termination through.            *)
Fairness ==
  /\ \A t \in Threads : WF_vars(ThreadStep(t))
  /\ \A c \in Clients : WF_vars(FinalizeClient(c))
  /\ WF_vars(StopStep)

FairSpec == Spec /\ Fairness

-----------------------------------------------------------------------------
(* No register is accessed through a mapping that is gone.  A method tests *)
(* mmio once and then works with it, and XeCommandStream and the guard     *)
(* even keep a copy of the pointer; stop must not unmap under them.        *)
AccessesAreMapped == Accesses # {} => bar0 = "mapped"

(* No register is accessed beyond the end of BAR0, however short, through  *)
(* readRegSafe; and none at all if BAR0 reaches past the fence registers,  *)
(* the last that XeGGTT, XeCommandStream, the guard or start itself read   *)
(* without a look at its length.                                           *)
AccessesInBounds ==
  \A o \in Accesses :
    o + 4 <= bar0Length \/ (o \in UncheckedRegs /\ bar0Length <= FENCE_END(0))

(* "All offsets validated before access" (XeGGTT.hpp:15): XeGGTT reads     *)
(* nothing beyond the end of BAR0.                                         *)
AllOffsetsValidated == \A o \in Accesses \cap GGTTRegs : o + 4 <= bar0Length

(* The boot argument keeps the kext off the engine: on a machine booted    *)
(* with nocs or strictsafe no ring register is ever read and no wake       *)
(* requested; with strictsafe, no GGTT register either                     *)
(* (docs/STATUS.md:35-36).                                                 *)
FlagsKeepOffEngine ==
  /\ Named(bootArgs, {"nocs", "strictsafe"}) =>
       Accesses \cap (RingRegs \cup {FORCEWAKE_REQ}) = {}
  /\ Named(bootArgs, {"strictsafe"}) => Accesses \cap GGTTRegs = {}

(* What stop undoes of start, and what it does not.  A service that was    *)
(* published and went through stop has no mapping, no array, no            *)
(* super::start outstanding and no call inside; the device keeps decoding  *)
(* memory and I/O, which start turned on and stop leaves on, but masters   *)
(* the bus no more, and no wake request is left but one that an acquire()  *)
(* gave up on.                                                             *)
StopLeavesDecoding ==
  phase = "stopped" \/ (phase = "freed" /\ ~active) =>
    /\ bar0 = "none" /\ ~mmio /\ boList = "none" /\ ~superStarted
    /\ pciOn = {"memory", "io"}
    /\ fwReq => orphaned
    /\ \A t \in Threads : pc[t] = "idle" /\ ~acquired[t]

(* The service behaves, for the guard and for the registry, as the         *)
(* environment their own specifications assume: what is proved of them     *)
(* holds inside the kext.                                                  *)
ComponentsImplemented == GuardSpec /\ RegistrySpec

(* The kext keeps its promises to user space (XeServiceAPI): a client that *)
(* could connect is served until it disconnects.  Once the service is      *)
(* published, no call finds mmio or m_boList missing, and the only         *)
(* "not ready" is that of a command stream turned off by a boot flag.      *)
ServiceSeen ==
  IF phase = "started" THEN IF active THEN "published" ELSE "withdrawn"
                       ELSE IF active THEN "absent" ELSE "retired"

API == INSTANCE XeServiceAPI WITH
         service <- ServiceSeen,
         csOff <- gXeBoot.disableCommandStream,
         conn <- {c \in Clients : uc[c] = "open"},
         call <- meth, on <- via, answer <- ret

ImplementsAPI == API!APISpec

(* Once the service is terminated, every client that is left is on its way *)
(* out and none comes in, as newUserClient attaches a client before it     *)
(* hands it out: one that slipped in later would be told of no termination *)
(* and would keep calling into the service while it stops.                 *)
LastClientsLeave == ~active => dying = {c \in Clients : uc[c] = "open"}

(* The steps the call of thread t has left to make at most.                *)
CallLeft(t) ==
  CASE pc[t] = "entered"   -> MaxIterations + 5
    [] pc[t] = "submit"    -> MaxIterations + 4
    [] pc[t] = "submitted" -> MaxIterations + 3
    [] pc[t] = "guard"     -> 1 + GuardLeft(t)
    [] pc[t] = "create"    -> CASE cpc[t] = "checked" -> 4
                                [] cpc[t] = "alloced" -> 3
                                [] cpc[t] = "storing" -> 2
                                [] OTHER              -> 1
    [] pc[t] \in {"reading", "ringRead"} -> 1
    [] OTHER               -> 0

(* Calls are wait-free: each step a thread makes in the kernel brings its  *)
(* call nearer to its return, and no step of another thread, of the GT, of *)
(* a closing client or of a termination sets it back.                      *)
CallsRunDown ==
  [][\A t \in Threads : pc[t] # "idle" =>
       /\ CallLeft(t)' <= CallLeft(t)
       /\ ThreadStep(t) => CallLeft(t)' < CallLeft(t)]_vars

(* Every external method returns, whatever the GT does and whatever the    *)
(* other threads do.                                                       *)
CallsReturn == \A t \in Threads : pc[t] # "idle" ~> pc[t] = "idle"

(* If user space eventually stops calling, a termination runs to its end:  *)
(* clients are finalized, stop runs, the service is freed.                 *)
TerminationCompletes ==
  <>[](\A t \in Threads : pc[t] = "idle") => (~active ~> phase = "freed")

(* kMethodReadRegs reads "a fixed allow-list of safe MMIO dwords, matching *)
(* the offsets above" (docs/STATUS.md:12): 0x0, 0x4, 0x10, 0x100 (line 6), *)
(* under strictsafe (line 34) as otherwise.                                *)
ReadRegsSamplesOnly ==
  \A t \in Threads : meth[t] = "ReadRegs" => ThreadAccesses(t) \subseteq StartRegs

(* "Owns the lifetime of MMIO and BOs" (README.md): a freed service has no *)
(* mapping of BAR0.                                                        *)
FreedWithoutMapping == phase = "freed" => bar0 = "none"

=============================================================================
