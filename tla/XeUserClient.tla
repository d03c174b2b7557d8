---------------------------- MODULE XeUserClient ----------------------------
(***************************************************************************)
(* kexts/XeUserClient.cpp: one external method call, from the trap of a    *)
(* program into IOConnectCallMethod to the reply.  The arguments of a call *)
(* are its own, so calls of other threads do not appear here; what they do *)
(* to each other inside the service is the subject of XeService.  The      *)
(* service answers as XeServiceAPI promises.  The handlers' tests for null *)
(* pointers and for providerSvc always pass: externalMethod sets the       *)
(* target, and a client whose start found no provider is not created.      *)
(*                                                                         *)
(* An entry of scalarOutput is the offset of the register whose value it   *)
(* holds, or one of the negative names below.                              *)
(***************************************************************************)
EXTENDS XeHW, XeMethods, Integers

CONSTANTS
  Word,                 \* 2^32: uint32_t arithmetic is modulo Word
  Page,                 \* 4096
  MaxBytes,             \* 64 MiB, the driver's limit
  DefaultWait,          \* 1000 ms
  MaxWait,              \* 60000 ms
  BarLengths            \* the lengths of BAR0 a machine may have

ASSUME SizeAssumption ==
  /\ Page \in Nat \ {0}
  /\ MaxBytes \in Nat /\ \E k \in 0 .. MaxBytes : MaxBytes = k * Page
  /\ Word \in Nat /\ MaxBytes + Page <= Word
  /\ MaxWait \in Nat /\ MaxWait < Word
  /\ DefaultWait \in 1 .. MaxWait
  /\ BarLengths \subseteq Nat

VARIABLES
  csOff,                \* the boot flags turn the command stream off
  bar0Length,
  at,                   \* "idle", "trap", "handler", "service", "reply"
  selector,
  scalarInput,
  room,                 \* the output scalars the program has room for
  scalarOutput,
  scalarOutputCount,
  arg,                  \* bytes or timeoutMs, the argument of the service
  sz,                   \* what ucCreateBuffer allocates
  kr

callVars == <<selector, scalarInput, room>>
replyVars == <<scalarOutput, scalarOutputCount>>
ucVars == <<csOff, bar0Length, at, callVars, replyVars, arg, sz, kr>>

(* io_scalar_inband64_t                                                    *)
MaxScalars == 16
kIOUCVariableStructureSize == -1

Unset == -1             \* what the entry held before the call
Cookie == -2            \* the cookie of a buffer
kSentinelOutOfRange == -3

UCResults ==
  Results \cup {"Unsupported", "BadArgument", "NotAttached"}

UCTypeOK ==
  /\ csOff \in BOOLEAN
  /\ bar0Length \in BarLengths
  /\ at \in {"idle", "trap", "handler", "service", "reply"}
  /\ selector \in Nat
  /\ scalarInput \in Seq(Nat)
  /\ room \in 0 .. MaxScalars
  /\ scalarOutput \in [1 .. MaxScalars -> Int]
  /\ scalarOutputCount \in 0 .. MaxScalars
  /\ arg \in 0 .. Word - 1
  /\ sz \in 0 .. Word - 1
  /\ kr \in UCResults

UCInit ==
  /\ csOff \in BOOLEAN
  /\ bar0Length \in BarLengths
  /\ at = "idle"
  /\ selector = 0 /\ scalarInput = << >> /\ room = 0
  /\ scalarOutput = [i \in 1 .. MaxScalars |-> Unset] /\ scalarOutputCount = 0
  /\ arg = 0 /\ sz = 0 /\ kr = "none"

-----------------------------------------------------------------------------
(* Mutant: sReadRegs takes any number of outputs.                          *)
sMethodsVariable ==
  <<[method |-> "CreateBuffer",   scalarIn |-> 1, scalarOut |-> 1],
    [method |-> "Submit",         scalarIn |-> 0, scalarOut |-> 0],
    [method |-> "Wait",           scalarIn |-> 1, scalarOut |-> 0],
    [method |-> "ReadRegs",       scalarIn |-> 0, scalarOut |-> kIOUCVariableStructureSize],
    [method |-> "GetGTConfig",    scalarIn |-> 0, scalarOut |-> 8],
    [method |-> "GetDisplayInfo", scalarIn |-> 0, scalarOut |-> 8]>>

(* The table of methods; selector s is its entry s + 1.                    *)
sMethods ==
  <<[method |-> "CreateBuffer",   scalarIn |-> 1, scalarOut |-> 1],
    [method |-> "Submit",         scalarIn |-> 0, scalarOut |-> 0],
    [method |-> "Wait",           scalarIn |-> 1, scalarOut |-> 0],
    [method |-> "ReadRegs",       scalarIn |-> 0, scalarOut |-> 8],
    [method |-> "GetGTConfig",    scalarIn |-> 0, scalarOut |-> 8],
    [method |-> "GetDisplayInfo", scalarIn |-> 0, scalarOut |-> 8]>>

methodCount == Len(sMethods)

(* Defined while a call is in its handler or in the service.               *)
Method == sMethods[selector + 1].method

(* The arguments of a call before the kernel has done anything about it.  *)
Arguments(sel, input, outCnt) ==
  /\ selector' = sel /\ scalarInput' = input /\ room' = outCnt
  /\ scalarOutput' = [i \in 1 .. MaxScalars |-> Unset] /\ scalarOutputCount' = outCnt
  /\ arg' = 0 /\ sz' = 0 /\ kr' = "none"
  /\ UNCHANGED <<csOff, bar0Length>>

(* IOConnectCallMethod enters the kernel.                                  *)
CallMethod(sel, input, outCnt) == at' = "trap" /\ Arguments(sel, input, outCnt)

(* The program is done with the reply, and with the arguments.             *)
Forget == at' = "idle" /\ Arguments(0, << >>, 0)

(* The connection is gone: the service has been terminated meanwhile.      *)
CallDead ==
  /\ at = "trap"
  /\ at' = "reply" /\ kr' = "NotAttached"
  /\ UNCHANGED <<csOff, bar0Length, callVars, replyVars, arg, sz>>

(* IOUserClient::externalMethod compares the counts with the table's.      *)
CountOK(expected, count) == expected \in {kIOUCVariableStructureSize, count}

(* The selector is tested before the table is read.                        *)
ExternalMethod ==
  /\ at = "trap"
  /\ \/ /\ selector >= methodCount
        /\ at' = "reply" /\ kr' = "Unsupported"
     \/ /\ selector < methodCount
        /\ LET d == sMethods[selector + 1]
               ok == /\ CountOK(d.scalarIn, Len(scalarInput))
                     /\ CountOK(d.scalarOut, scalarOutputCount)
           IN  IF ok THEN at' = "handler" /\ UNCHANGED kr
                     ELSE at' = "reply" /\ kr' = "BadArgument"
  /\ UNCHANGED <<csOff, bar0Length, callVars, replyVars, arg, sz>>

(* if (n == 0) n = default; if (n > limit) n = limit;                      *)
Clamp(n, default, limit) ==
  IF n = 0 THEN default ELSE IF n > limit THEN limit ELSE n

(* Mutant: the 64-bit scalar is tested for 0 before it is cut to 32 bits.  *)
InputCastLast(default, limit) ==
  IF Len(scalarInput) >= 1
    THEN LET n == Clamp(scalarInput[1], default, scalarInput[1]) % Word
         IN  IF n > limit THEN limit ELSE n
    ELSE default

(* Mutant: the scalar keeps its 64 bits, only 0 is replaced.               *)
InputUncast(default, limit) ==
  IF Len(scalarInput) >= 1 THEN Clamp(scalarInput[1], default, scalarInput[1]) ELSE default

(* The scalar is cut to 32 bits first and clamped then.                    *)
Input(default, limit) ==
  IF Len(scalarInput) >= 1 THEN Clamp(scalarInput[1] % Word, default, limit) ELSE default

(* Mutant: the mask without the addition rounds down.                      *)
PageAlignDown(n) == n - (n % Page)

(* (n + 0xFFF) & ~0xFFF, in 32 bits.                                       *)
PageAlign(n) ==
  LET m == (n + (Page - 1)) % Word IN m - (m % Page)

SCreateBuffer ==
  /\ at = "handler" /\ Method = "CreateBuffer"
  /\ arg' = Input(Page, MaxBytes)
  /\ at' = "service"
  /\ UNCHANGED <<csOff, bar0Length, callVars, replyVars, sz, kr>>

(* ucCreateBuffer, and what sCreateBuffer does with its answer.            *)
UcCreateBuffer ==
  /\ at = "service" /\ Method = "CreateBuffer"
  /\ sz' = PageAlign(arg)
  /\ kr' \in Answers("CreateBuffer", csOff)
  /\ IF kr' = "Success" /\ scalarOutputCount >= 1
       THEN scalarOutput' = [scalarOutput EXCEPT ![1] = Cookie] /\ scalarOutputCount' = 1
       ELSE UNCHANGED replyVars
  /\ at' = "reply"
  /\ UNCHANGED <<csOff, bar0Length, callVars, arg>>

SSubmit ==
  /\ at = "handler" /\ Method = "Submit"
  /\ kr' \in Answers("Submit", csOff)
  /\ at' = "reply"
  /\ UNCHANGED <<csOff, bar0Length, callVars, replyVars, arg, sz>>

SWait ==
  /\ at = "handler" /\ Method = "Wait"
  /\ arg' = Input(DefaultWait, MaxWait)
  /\ at' = "service"
  /\ UNCHANGED <<csOff, bar0Length, callVars, replyVars, sz, kr>>

UcWait ==
  /\ at = "service" /\ Method = "Wait"
  /\ kr' \in Answers("Wait", csOff)
  /\ at' = "reply"
  /\ UNCHANGED <<csOff, bar0Length, callVars, replyVars, arg, sz>>

(* readRegSafe, on a mapped BAR.                                           *)
ReadReg(off) ==
  IF off > kMaxSafeMMIOOffset \/ (bar0Length > 0 /\ off >= bar0Length)
    THEN kSentinelOutOfRange
    ELSE off

(* for (i = 0; i < n; ++i) scalarOutput[i] = tmp[i]; scalarOutputCount = n *)
CopyOut(offs, n) ==
  /\ scalarOutput' = [i \in 1 .. MaxScalars |->
                        IF i <= n THEN ReadReg(offs[i]) ELSE scalarOutput[i]]
  /\ scalarOutputCount' = n

(* ucReadRegs returns min(8, avail) values and sReadRegs writes min(n, 8)  *)
(* of them, without a look at scalarOutputCount.                           *)
SReadRegs ==
  /\ at = "handler" /\ Method = "ReadRegs"
  /\ kr' \in Answers("ReadRegs", csOff)
  /\ CopyOut(kSafeOffs, IF Len(kSafeOffs) < 8 THEN Len(kSafeOffs) ELSE 8)
  /\ at' = "reply"
  /\ UNCHANGED <<csOff, bar0Length, callVars, arg, sz>>

(* sGetGTConfig and sGetDisplayInfo: at most scalarOutputCount of the 8.   *)
SGetRegs(m, offs) ==
  /\ at = "handler" /\ Method = m
  /\ kr' \in Answers(m, csOff)
  /\ CopyOut(offs, IF scalarOutputCount < 8 THEN scalarOutputCount ELSE 8)
  /\ at' = "reply"
  /\ UNCHANGED <<csOff, bar0Length, callVars, arg, sz>>

SGetGTConfig == SGetRegs("GetGTConfig", GTConfigOffs)
SGetDisplayInfo == SGetRegs("GetDisplayInfo", DisplayInfoOffs)

(* The steps of a call inside the kernel.                                  *)
KernelStep ==
  \/ CallDead \/ ExternalMethod
  \/ SCreateBuffer \/ UcCreateBuffer \/ SSubmit \/ SWait \/ UcWait
  \/ SReadRegs \/ SGetGTConfig \/ SGetDisplayInfo

-----------------------------------------------------------------------------
(* A successful reply fills exactly the entries the program has room for,  *)
(* and a failed one none: sReadRegs, which never looks at the room, relies *)
(* on the counts of sMethods for it.                                       *)
RepliesFillTheRoom ==
  at = "reply" =>
    \A i \in 1 .. MaxScalars :
      scalarOutput[i] # Unset <=> kr = "Success" /\ i <= room

(* Whatever the scalar, the allocation is a positive whole number of pages *)
(* within the driver's limit, and the least that holds bytes: the addition *)
(* in the rounding of ucCreateBuffer never wraps.                          *)
AllocationSound ==
  at = "reply" /\ selector = 0 /\ kr \in {"Success", "NoResources"} =>
    /\ sz \in Page .. MaxBytes
    /\ \E k \in 0 .. MaxBytes : sz = k * Page
    /\ sz - Page < arg /\ arg <= sz

(* ucWait gets a timeout between 1 ms and 60 s, as sWait's comment says,   *)
(* whatever the 64 bits of the scalar are.                                 *)
WaitWithinLimits ==
  at = "service" /\ Method = "Wait" => arg \in 1 .. MaxWait

=============================================================================
