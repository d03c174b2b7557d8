# XePCI in TLA+

XePCI is a macOS kernel extension for the Intel Raptor Lake iGPU (8086:A788)
and a small user-space tool, `xectl`. The kext maps BAR0, reads and logs
registers, hands out kernel buffers under numeric cookies, and prepares (but
does not execute) a batch of MI_NOOPs. This directory models it, checks the
model on small instances with TLC and proves its main properties with TLAPS.
Paths below are relative to the repository (`src/`).

## 1. The system

| Part | State | Operations | What makes it hard |
|---|---|---|---|
| Boot arguments (`kexts/XeBootArgs.*`) | `gXeBoot`, global | `XeParseBootArgs`, once per service instance | implied flags, order and repetition, a second parse over set flags |
| `ForcewakeGuard` | bits 0 of `FORCEWAKE_REQ`/`ACK` (shared), `acquired` (per guard) | constructor/`acquire`, polling loop, destructor/`release` | one uncounted bit for all threads; timeout; acknowledgement that comes late |
| BO registry (`m_boList`) | `OSArray`, retain counts | creation in `start`, `ucCreateBuffer`, `boFromCookie`, release loop of `stop` | no lock: `setObject` and `getCount` of different threads interleave |
| `XeService` | `pci`, `bar0`, `mmio`, `bar0Length`, `m_boList` | `init`, `probe`, `start`, `stop`, `free` | start fails half-way; `stop` against calls that tested `mmio` or `m_boList` earlier |
| `XeUserClient` | `providerSvc`, the arguments of a call | creation, `clientClose`, the method table, six external methods | overlapping calls; close with calls in flight; outputs written without a look at their number; truncation, clamp, rounding of sizes |
| `XeCommandStream` | a copy of `mmio` | `submitNoop`, `logRcs0State` | up to 50 ms inside one call; flags tested in three places |
| `XeGGTT` | none | `probe` (the others are unused) | bound is a constant, not the mapped length |
| `xectl` | a connection | `info`, `regdump`, `noop`, `mkbuf` | its own copy of the selectors; calls that fail after the open |

Every external method runs on the thread that called it. The kext creates no
work loop, command gate or lock, so the methods of different threads interleave
at every access to shared state. `start` and `stop` run on IOKit's threads.

## 2. Modules

| Module | Models | Correspondence |
|---|---|---|
| `XeThreads` | the calling threads | `SoleCaller`: calls come one at a time, as from `xectl` |
| `XeBootArgs` | `XeBootArgs.{hpp,cpp}` | `Parsed` is the effect of the whole loop; used by all others |
| `XeBootParser` | the token loop | one token per step (`SetFlag`, `ParseToken`), run again by a second instance (`ParseAgain`) |
| `ForcewakeGuard` | `ForcewakeGuard.hpp` | one step per register access: `SkipGuard`, `RequestWake`, the four outcomes of an iteration (`PollAcked`, `PollInvalid`, `PollAgain`, `PollTimeout`), `ReleaseGuard`. `GTWake`/`GTSleep` are the hardware |
| `BOHandleTable` | what README.md promises of cookies | abstract specification of the registry |
| `XeBORegistry` | `m_boList` and `ucCreateBuffer` | one step per access to the array: check, allocation, `SetObjectLoad`/`SetObjectStore` (entering `setObject` and storing), `CreateReturn` (`getCount`); `RegistryStart`/`RegistryStop` are the parts of `start` and `stop` |
| `XeMethods` | the selectors of `XeService.hpp` | the methods and what each may answer (`Answers`) |
| `XeServiceAPI` | the kext as user space sees it | abstract specification of `XeService`: `Publish`, `Withdraw`, `Connect`, `Begin`, `Answer` |
| `XeUserClient` | `externalMethod`, `sMethods`, the handlers `s*` | one call from the trap to the reply: `ExternalMethod`, one action per handler, `CopyOut` for their loops; sizes in `Word`-modular arithmetic |
| `Xectl` | `userspace/xectl.c` | `Main`, `OpenConnection`, one action per call of a command and one per result; composed with `XeUserClient`. Another program makes one call of its choice (`OtherCalls`) |
| `XeHW` | `xe_hw_offsets.hpp` | the offsets each routine accesses |
| `XeService` | `XeService.*`, `XeUserClient.cpp`, `XeCommandStream.cpp`, `XeGGTT::probe` | composes the guard and the registry: `LogRcs0Begin/Poll/Read/End` take the guard's steps, `UcCreateBegin/Step`, `StartList`, `StopList` the registry's. `API` is its refinement mapping to `XeServiceAPI` |
| `BootParserProofs`, `ForcewakeProofs`, `RegistryProofs`, `XectlProofs`, `ServiceProofs`, `ProgressProofs` | – | theorems |
| `MC*` | – | instances for TLC |

`XeService` and `XeUserClient` look at the external methods from two sides.
`XeService` interleaves the calls of many threads and leaves out their
arguments, which are local to a call. `XeUserClient` follows the arguments of
one call and takes the answer of the service from `Answers`, which is all that
`XeServiceAPI` lets the service answer and which `ImplementsAPI` shows it to.
`Xectl` runs one program after the other for the same reason.

What a step may touch is not a variable but the operator `Accesses` of
`XeService`: the offsets that the next step of `start`, or of some call, sends
to the hardware after the accessor's own tests. A property of `Accesses` as an
invariant is therefore a property of every access.

Definitions whose comment starts with "Mutant" are plausible errors of the
definition that follows them. They are not part of any specification; putting
one in place of its original must break the property it is listed with in
`PROJECT.json`, which shows that the property depends on the code.

History variables: `robbed` (guards whose request another guard cleared),
`orphaned` (a request that an `acquire()` gave up on), `issued` (cookies given
out with the buffer they were made for), `raced` (two threads have been inside
`setObject` together), `overtaken` (a store fell between the `setObject` and the
`getCount` of another call), `parsed`.

### What is assumed of the outside

* IOKit calls `init`, `probe`, `start` in this order, does not call `stop` on a
  service whose `start` returned false, and calls `stop` after all clients are
  detached. A terminated client is finalized only after the external methods
  that are running on it have returned. `clientClose` and a termination may
  come at any time; a client that is terminated and not yet finalized still
  accepts calls. `attach` fails on a terminated provider.
* `IOUserClient::externalMethod` refuses a call whose scalar counts differ from
  those of the table (`CountOK`), and a call on a connection that is gone fails
  (`CallDead`). The kernel's buffer has 16 scalars (`io_scalar_inband64_t`).
* The provider is an `IOPCIDevice` (`Info.plist`, `IOProviderClass`).
* The GT may wake at any time while the request bit is set and sleep at any
  time while it is clear, or do neither. Its acknowledgement bit shows whether
  it is awake. The whole word it reads as may equal one of the error sentinels,
  both of which have bit 0 set (`AckReads`).
* A call that is alone inside `OSArray::setObject` appends and retains
  (`StoreAlone`), or fails. Of two calls inside it at once nothing is promised:
  "OSArray provides no concurrency protection" (`OSArray.h:85`). From then on a
  store leaves any mixture of the elements, of the new one and of empty slots in
  the array, counts the new one or not, and may release what it overwrites
  (`StoreRaced`).
* `init` has parsed the boot argument before a call can make a guard
  (`BootParsed` in `GuardNext`; `ComponentsImplemented` shows that the service
  keeps to it). A later instance of the service parses the same argument, which
  `ReparseIsInvisible` shows to change nothing.
* The length of a mapping is a multiple of 4.

## 3. Runs

| Run | Instance | What it shows |
|---|---|---|
| `boot_parser` | every argument of up to 4 tokens out of 5; longer ones repeat a token | the loop computes `Parsed`; parsing again never changes a flag |
| `forcewake_many` | 3 threads, 3 polls, three arguments (5,036 states) | `RequestOwned`, `HolderAwake`, `FlagsHonoured`; `GuardReturns`, `RequestDropped` under fairness |
| `forcewake_overlap` | 2 threads | violation: a guard that acquired reads a sleeping GT |
| `forcewake_timeout` | 1 thread | violation: the request stays set after a timeout |
| `registry_overlap` | 2 threads, 2 buffers | violation: a cookie does not index its buffer, though no two calls were inside `setObject` together |
| `xectl` | 5-bit words, 4-byte pages, every 6-bit scalar, 7 selectors, 5 sizes of the output buffer, 2 BAR lengths (48,584 states) | `RepliesFillTheRoom`, `AllocationSound`, `WaitWithinLimits`; `RegdumpShowsRegisters`, `NoopIsHonest`, `ToolGetsWhatItPrints`; `ProgramsRunDown`; `ProgramsEndClosed` under fairness |
| `xectl_submit` | the same | violation: `kMethodSubmit` succeeds, it is no stub |
| `service` | 2 threads, 2 clients, 2 buffers, 4 methods, 2 polls, 4 boot arguments, 2 BAR lengths (744,596 states) | `AccessesAreMapped`, `AccessesInBounds`, `FlagsKeepOffEngine`, `StopLeavesDecoding`, `RegistryLiveInUse`, `IssuedAlive`, `ReleasesAreWhole`, `CookieNamesBuffer`, `NoBufferLeft`, `LastClientsLeave`, `ComponentsImplemented`; `ImplementsTable` (refinement of `BOHandleTable`), `ImplementsAPI` (refinement of `XeServiceAPI`) |
| `service_live` | 2 threads, 1 client, 1 buffer, 3 methods (117,186 states) | `CallsRunDown`; `CallsReturn`, `TerminationCompletes` |
| `service_read_regs` | 1 thread, booted with strictsafe | violation: `kMethodReadRegs` reads other registers than the four samples |
| `service_small_bar` | 1 thread, a BAR of 1 MiB | violation: `XeGGTT::probe` reads beyond the end of BAR0 |
| `service_failed_start` | 1 thread | violation: BAR0 stays mapped after a failed start |

Bounds. Three threads are the least number at which one guard polls, one holds
and one releases; with two polls per loop every outcome of an iteration happens
first and last. In `xectl` twice the word covers every way a scalar can be
cut, zero and both sides of each limit; the output buffers are too small, right
and too large for each method, and one selector lies past the table. Of the two
BARs one has 16 MiB, as the device has, and one 1 MiB, the least that `start`
takes without a warning: the fence registers and `RC6_RESIDENCY_TIME` lie beyond
its end. Two threads and two buffers are what it takes for one call to overlap
or overtake another; `MaxSlots`, how far the kernel can grow the array, is two
in `service`, so that `setObject` also fails when it must. `service` leaves out
`ReadRegs` and `GetDisplayInfo`, which take the same steps as `GetGTConfig` and
differ from it in the registers they read; the proofs cover all of them.
`service_live` uses the methods that take more than one step, and one buffer:
the calls meet in the allocation, but not inside `setObject`.

`service` has the state constraint `OneRace`. After two calls have met inside
`setObject` the array may hold almost anything, and no property says more about
it than that the counts are numbers, that the array is there and that everything
else goes on. The run explores what the calls still inside `ucCreateBuffer` and
a termination do from there, but no further calls. States without such a meeting
are all explored.

Symmetry is used for safety only. Deadlock is checked in every run;
`Gone` is the only step of a service that was freed.

The properties of the registry say how far its promises reach. Up to the first
two calls inside `setObject` together (`~raced`) `IssuedAlive`,
`ReleasesAreWhole` and `NoBufferLeft` hold, for any number of threads; up to the
first store between the `setObject` and the `getCount` of another call
(`~overtaken`) `CookieNamesBuffer` and `ImplementsTable` do. Both happen as soon
as two threads call `kMethodCreateBuffer` at once, since the kext has no lock.
`registry_overlap` shows what the second one does to the promise of README.md.

Progress is stated twice. `CallsRunDown` and `ProgramsRunDown` are action
properties about a rank, the number of steps a call (`CallLeft`) or a program
(`ProgramLeft`) has left at most: its own steps lower it and nothing raises it.
They need no fairness and can be proved. `CallsReturn` and `ProgramsEndClosed`
add that there always is a next step and that it is taken. In the same way
`LastClientsLeave` is what `TerminationCompletes` rests on: whoever is left
after a termination is on the way out.

Fairness. `WF` of each thread's steps inside a call: a kernel thread keeps
running, and the only loop is bounded. `WF` of finalization and of `stop`:
IOKit carries a termination through. In `xectl`, `WF` of the running program
and of its call in the kernel, where nothing waits without a bound. Nothing is
assumed of the GT, nor that user space calls or closes anything. `TerminationCompletes` has the hypothesis
that eventually no call is running, because a client that keeps calling on a
terminated connection could delay its finalization for ever.

## 4. Proofs

All theorems are for arbitrary sets of threads, buffers, clients and arguments,
and arbitrary values of the bounds, subject to the named assumptions of the
modules.

* `ForcewakeProofs`. `GuardInv` is inductive: types, `RequestOwned`,
  `FlagsHonoured`, acquired guards are in scope, and `RequestStands`: a guard
  that polls or holds and was not robbed has its request set. `HolderAwake`
  needs the polling guards in the induction, since a guard becomes a holder
  without writing anything. With `SoleCaller` nobody is ever robbed, which gives
  `AwakeWhileReading`; `forcewake_overlap` shows that two callers lose it.
  `OnlyGivingUpLeavesRequests` says that what `forcewake_timeout` shows is the
  only way for a request to outlive the guards.
* `RegistryProofs`. `RegistryInv` has three layers. Types and `OwnedInv` (who
  holds a local reference to which buffer) hold whatever happens to the array;
  `SoundInv` (every buffer is in the array once at most, with two references, or
  pending with one caller, or free) up to the first meeting inside `setObject`;
  `CookieInv` (a cookie is the position of its buffer, and a call that has stored
  is the last in the array) up to the first store that overtakes another.
  `StopReferences` counts what the loop and the array release. From them follow
  `IssuedAlive`, `ReleasesAreWhole`, `NoBufferLeft`, `CookieNamesBuffer` and the
  refinement of `BOHandleTable`. None of them assumes a number of threads.
* `BootParserProofs`. `ParserInv` says that what is set, together with what is
  still to be parsed, is the result: `Parsed(gXeBoot, rest)` never changes. That
  makes the loop's result an invariant, so that no induction over the argument
  is needed; `NamedSplits` and `ParsedSplits` are the step of the loop. After the
  first pass the flags are the result already, and `ParsedIdle` shows that no
  token changes them.
* `XectlProofs`. `CallInv` follows one call: its outputs are untouched until
  the handler, the counts are those of the table from there on, which is what
  `sReadRegs` relies on, and a successful reply carries what its method returns.
  `CommandInv` says that the call in progress is the one the command made; the
  three properties of what is printed follow from the two. `ConnInv` ties the
  connection to the step of the program, and gives, with the rank, that a
  program is over after eleven steps with its connection closed.
  `PageAlignRounds` is the arithmetic of the rounding. The real values (2^32,
  4096, 64 MiB, 16 MiB, 1000, 60000) satisfy the assumptions.
* `ServiceProofs`. `ServiceInv` joins the invariants of the components with
  `LifeInv` (what the service holds in each phase; clients exist only while it
  is started), `BootInv` (from `init` on the flags are those of the argument) and
  `CallInv` (a call in progress keeps its client open, and a thread is inside
  `ucCreateBuffer` or a guard only at those steps). None of the properties is
  inductive without the chain call - client - phase - mapping, which is the
  reason why the unlocked tests of `mmio` and `m_boList` are enough. From it
  follow `TypeOK`, `AccessesAreMapped`, `RegistryLiveInUse`, and that every step
  of the service is a step of the guard and of the registry
  (`ComponentsImplemented`), so that the theorems about these carry over:
  `ComponentPromisesHold` for any number of threads, `SoleCallerPromisesHold`
  (the GT awake under an acquired guard) for one caller at a time. The chain
  rests on IOKit's finalizing a client only when its calls have returned
  (section 2). `MethodInv` ties the step of a thread to its method and to the
  boot flags, and gives, with `BootInv`, `FlagsKeepOffEngine` and the refinement
  of `XeServiceAPI`. `AccessesInBounds` is proved for every length of BAR0: what
  goes through `readRegSafe` stays inside, and the rest does if BAR0 reaches past
  the fence registers.
* `ProgressProofs`. `EndInv` follows the clients through a termination and the
  service to its end: only a published service is terminated, so one that is
  freed afterwards went through `stop`. It gives `LastClientsLeave` and
  `StopLeavesDecoding`. `InsideInv` is the converse of the last part of `CallInv`
  (a thread at a step of a guard or of `ucCreateBuffer` is inside it), without
  which the rank would not be positive in a call. `StepAdvances` shows that a
  step of a thread lowers its rank, `OthersStay` that no other step touches it;
  together they are `CallsAreWaitFree`, for every bound of the polling loop.

Only model-checked: `GuardReturns`, `RequestDropped`, `CallsReturn`,
`TerminationCompletes` and `ProgramsEndClosed`. They are liveness properties and
need `ENABLED` and fairness, which are beyond the prover; for all but
`RequestDropped` and `TerminationCompletes` the rank that decides them is
proved, for `GuardReturns` as part of the call the guard is in.

## 5. Disagreements between code and documents

Shown by runs (see `findings` in `PROJECT.json`): overlapping guards, the
request left by a timeout, cookies of overlapping calls, `kMethodSubmit` that is
no stub, `kMethodReadRegs` that reads more than the samples, `XeGGTT` that does
not know the length of BAR0, and the mapping kept by a failed start.

Observations made while modelling, without a run of their own:

1. On every error return after `super::start`, `start` returns false without
   `super::stop`, and leaves bus mastering on; `IOService.h:614` says that it
   "must call <code>super::stop</code> to balance the prior call to
   <code>super::start</code>". The trace of `service_failed_start` ends in such a
   state.
2. `stop` turns bus mastering off and leaves the memory and I/O decoding on that
   `start` turned on with it (`XeService.cpp:94-96`, `:309`). Nothing in the
   repository says what it should do; `StopLeavesDecoding` states what it does.
3. The accessors of `XeCommandStream` and `ForcewakeGuard` compare with 16 MiB
   and not with the mapped length, like that of `XeGGTT`; their registers lie
   within the first MiB.
4. `docs/STATUS.md:27` calls the guard a no-op stub, which it is not.
5. `ucGetGTConfig` reads GT registers without a guard, although `README.md:113`
   says "RAII guard used when reading GT registers". `ucGetGTConfig` and
   `ucGetDisplayInfo` do not test `strictSafe` either.
6. `sCreateBuffer` truncates to 32 bits before it clamps
   (`XeUserClient.cpp:97` says "clamp safely").
7. `xectl.c:86` uses `kMethodGetGTConfig`, which the file does not declare: the tool
   does not compile as committed. The function it is in, `cmd_gtconfig`, is never
   called, and asks for 4 outputs where the dispatch table demands 8. `Xectl`
   models the program without that function.
8. `xectl.c:73` says "Clamp to something modest and page-aligned"; the code
   clamps and does not align. The kext rounds up to whole pages, so the size that
   `mkbuf` prints may be less than that of the buffer; `ToolGetsWhatItPrints`
   holds up to the rounding.
9. `xectl` exits with 0 when its command failed after the connection was opened.

## 6. Not modelled

Register values and their decoding (only logged or returned; an output is known
by the register it came from), log output, the contents of the batch (nothing
reads it), characters of the boot argument, `XeGGTT::getInfo`/`getFence`,
`XeCommandStream::rd`/`wr`/`valid`, `XeService::writeReg` and `cmd_gtconfig` (no
callers), PCI configuration reads, and the build files.

The vendored `MacKernelSDK` is by far the largest part of the tree (about
330,000 lines against less than 2,000 of the kext and the tool). It holds
declarations of the macOS kernel and no code of this project; what the kext
relies on is modelled as external actions. Of the code that belongs to XePCI,
every routine that changes state or has a caller is modelled.

Power gating of the registers that `ucGetGTConfig` reads without a guard
(observation 5) is not explored: no step of the kext prevents it, so there is
nothing to check beyond reading the code. Two services parsing `gXeBoot` at the
same moment are left out as well: `Info.plist` matches one device, whose
instances follow one another.
