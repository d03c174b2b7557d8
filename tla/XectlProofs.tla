---------------------------- MODULE XectlProofs ----------------------------
(***************************************************************************)
(* Proofs about XeUserClient and Xectl, for every word size, page size and *)
(* limits that satisfy the assumptions, every scalar and every BAR length; *)
(* the real values satisfy them.                                           *)
(***************************************************************************)
EXTENDS Xectl, TLAPS

(* The rounding computes the least multiple of the page that holds n.      *)
LEMMA PageAlignRounds ==
  ASSUME NEW n \in 1 .. MaxBytes
  PROVE  /\ PageAlign(n) \in Page .. MaxBytes
         /\ \E k \in 0 .. MaxBytes : PageAlign(n) = k * Page
         /\ PageAlign(n) - Page < n /\ n <= PageAlign(n)
<1> USE SizeAssumption
<1> DEFINE m == n + (Page - 1)
           q == m \div Page
           r == m % Page
<1>1. m \in Nat /\ m < Word /\ m % Word = m
  OBVIOUS
<1>2. PageAlign(n) = m - r
  BY <1>1 DEF PageAlign
<1>3. q \in Nat /\ r \in 0 .. Page - 1 /\ m = Page * q + r
  BY <1>1
<1>4. PageAlign(n) = q * Page
  BY <1>2, <1>3
<1>5. PageAlign(n) - Page < n /\ n <= PageAlign(n)
  BY <1>1, <1>2, <1>3
<1>6. PICK k \in 0 .. MaxBytes : MaxBytes = k * Page
  OBVIOUS
<1> HIDE DEF q, r
<1>7. q <= k
  <2>1. q * Page < (k + 1) * Page
    BY <1>3, <1>4, <1>5, <1>6
  <2> QED BY <1>3, <2>1
<1>8. q >= 1
  BY <1>3, <1>4, <1>5
<1>9. q * Page <= k * Page /\ 1 * Page <= q * Page
  BY <1>3, <1>7, <1>8
<1> QED
  BY <1>3, <1>4, <1>5, <1>6, <1>7, <1>9

(* A clamped value is positive and within the limit.                       *)
LEMMA ClampBounds ==
  ASSUME NEW n \in Nat, NEW limit \in Nat, NEW default \in 1 .. limit
  PROVE  /\ Clamp(n, default, limit) \in 1 .. limit
         /\ n \in 1 .. limit => Clamp(n, default, limit) = n
BY DEF Clamp

(* The table, entry by entry.                                              *)
LEMMA Table ==
  /\ methodCount = 6
  /\ sMethods[1] = [method |-> "CreateBuffer", scalarIn |-> 1, scalarOut |-> 1]
  /\ sMethods[2] = [method |-> "Submit", scalarIn |-> 0, scalarOut |-> 0]
  /\ sMethods[3] = [method |-> "Wait", scalarIn |-> 1, scalarOut |-> 0]
  /\ sMethods[4] = [method |-> "ReadRegs", scalarIn |-> 0, scalarOut |-> 8]
  /\ sMethods[5] = [method |-> "GetGTConfig", scalarIn |-> 0, scalarOut |-> 8]
  /\ sMethods[6] = [method |-> "GetDisplayInfo", scalarIn |-> 0, scalarOut |-> 8]
BY DEF sMethods, methodCount

(* The counts of selector s, and its method.                               *)
LEMMA Entries ==
  ASSUME NEW s \in 0 .. 5
  PROVE  /\ sMethods[s + 1].scalarIn = IF s \in {0, 2} THEN 1 ELSE 0
         /\ sMethods[s + 1].scalarOut = IF s = 0 THEN 1 ELSE IF s \in {1, 2} THEN 0 ELSE 8
         /\ sMethods[s + 1].method = "CreateBuffer" <=> s = 0
         /\ sMethods[s + 1].method = "Submit" <=> s = 1
         /\ sMethods[s + 1].method = "Wait" <=> s = 2
         /\ sMethods[s + 1].method = "ReadRegs" <=> s = 3
         /\ sMethods[s + 1].method = "GetGTConfig" <=> s = 4
         /\ sMethods[s + 1].method = "GetDisplayInfo" <=> s = 5
<1>1. CASE s = 0
  BY <1>1, Table
<1>2. CASE s = 1
  BY <1>2, Table
<1>3. CASE s = 2
  BY <1>3, Table
<1>4. CASE s = 3
  BY <1>4, Table
<1>5. CASE s = 4
  BY <1>5, Table
<1>6. CASE s = 5
  BY <1>6, Table
<1> QED
  BY <1>1, <1>2, <1>3, <1>4, <1>5, <1>6

(* The number of outputs sMethods asks of selector s.                      *)
Outputs(s) == IF s = 0 THEN 1 ELSE IF s \in {1, 2} THEN 0 ELSE 8

Untouched == \A i \in 1 .. MaxScalars : scalarOutput[i] = Unset

(* The inductive invariant of a call: the reply is untouched until the end,*)
(* the counts are those of the table from the handler on, and a successful *)
(* reply carries what its method returns.                                  *)
CallInv ==
  /\ UCTypeOK
  /\ at \in {"trap", "handler", "service"} => Untouched /\ scalarOutputCount = room /\ kr = "none"
  /\ at \in {"handler", "service"} => selector \in 0 .. 5 /\ room = Outputs(selector)
  /\ at = "handler" /\ selector \in {0, 2} => Len(scalarInput) = 1
  /\ at = "service" => selector \in {0, 2}
  /\ at = "service" /\ selector = 0 => arg = Input(Page, MaxBytes) /\ arg \in 1 .. MaxBytes
  /\ at = "service" /\ selector = 2 => arg \in 1 .. MaxWait
  /\ at = "reply" /\ kr # "Success" => Untouched
  /\ at = "reply" /\ kr = "Success" =>
       /\ selector \in 0 .. 5 /\ room = Outputs(selector) /\ scalarOutputCount = room
       /\ \A i \in 1 .. MaxScalars : scalarOutput[i] # Unset <=> i <= room
       /\ selector = 0 => scalarOutput[1] = Cookie
       /\ selector = 1 => ~csOff
       /\ selector = 3 => \A i \in 1 .. 8 : scalarOutput[i] = ReadReg(kSafeOffs[i])
  /\ at = "reply" /\ selector = 0 /\ kr \in {"Success", "NoResources"} =>
       arg = Input(Page, MaxBytes) /\ arg \in 1 .. MaxBytes /\ sz = PageAlign(arg)

(* The argument a handler takes from the scalars is within its limit.      *)
LEMMA InputBounds ==
  ASSUME UCTypeOK, NEW limit \in Nat, NEW default \in 1 .. limit
  PROVE  Input(default, limit) \in 1 .. limit
<1>1. CASE Len(scalarInput) >= 1
  <2>1. scalarInput[1] \in Nat
    BY <1>1 DEF UCTypeOK
  <2>2. scalarInput[1] % Word \in Nat
    BY <2>1, SizeAssumption
  <2> QED BY <1>1, <2>2, ClampBounds DEF Input
<1>2. CASE ~(Len(scalarInput) >= 1)
  BY <1>2 DEF Input
<1> QED BY <1>1, <1>2

(* A call that has just been made satisfies the invariant.                 *)
LEMMA CallBegins ==
  ASSUME CallInv, NEW sel \in Nat, NEW input \in Seq(Nat), NEW outCnt \in 0 .. MaxScalars,
         Arguments(sel, input, outCnt), at' \in {"idle", "trap"}
  PROVE  CallInv'
<1>1. UCTypeOK'
  BY SizeAssumption DEF CallInv, UCTypeOK, Arguments, UCResults, Results, Unset, MaxScalars
<1>2. Untouched' /\ scalarOutputCount' = room' /\ kr' = "none"
  BY DEF Arguments, Untouched
<1> QED
  BY <1>1, <1>2 DEF CallInv

(* A reply that carries no result.                                         *)
LEMMA CallIsRefused ==
  ASSUME CallInv, at = "trap", at' = "reply", NEW r \in {"Unsupported", "BadArgument", "NotAttached"},
         kr' = r, UNCHANGED <<csOff, bar0Length, callVars, replyVars, arg, sz>>
  PROVE  CallInv'
<1>1. UCTypeOK'
  BY DEF CallInv, UCTypeOK, UCResults, callVars, replyVars
<1>2. Untouched'
  BY DEF CallInv, Untouched, replyVars
<1>3. kr' # "Success" /\ kr' # "NoResources"
  OBVIOUS
<1> QED
  BY <1>1, <1>2, <1>3 DEF CallInv

(* The registers a handler copies out are all real entries.                *)
LEMMA OffsetsAreReal ==
  /\ \A i \in 1 .. 8 : /\ kSafeOffs[i] \in Nat
                       /\ GTConfigOffs[i] \in Nat
                       /\ DisplayInfoOffs[i] \in Nat
  /\ Len(kSafeOffs) = 10
<1>1. \A i \in 1 .. 8 : kSafeOffs[i] \in Nat
  BY DEF kSafeOffs
<1>2. \A i \in 1 .. 8 : GTConfigOffs[i] \in Nat
  BY DEF GTConfigOffs, FORCEWAKE_ACK
<1>3. \A i \in 1 .. 8 : DisplayInfoOffs[i] \in Nat
  BY DEF DisplayInfoOffs
<1>4. Len(kSafeOffs) = 10
  BY DEF kSafeOffs
<1> QED BY <1>1, <1>2, <1>3, <1>4

(* Copying eight of them fills the eight entries there is room for.        *)
LEMMA CopyFills ==
  ASSUME CallInv, at = "handler", selector \in 3 .. 5, at' = "reply", kr' = "Success",
         NEW offs, \A i \in 1 .. 8 : offs[i] \in Nat, CopyOut(offs, 8),
         selector = 3 => offs = kSafeOffs,
         UNCHANGED <<csOff, bar0Length, callVars, arg, sz>>
  PROVE  CallInv'
<1>1. \A i \in 1 .. 8 : ReadReg(offs[i]) \in Int /\ ReadReg(offs[i]) # Unset
  BY DEF ReadReg, kSentinelOutOfRange, Unset
<1>2. /\ scalarOutput' \in [1 .. MaxScalars -> Int]
      /\ \A i \in 1 .. 8 : scalarOutput'[i] = ReadReg(offs[i])
      /\ \A i \in 9 .. MaxScalars : scalarOutput'[i] = scalarOutput[i]
      /\ scalarOutputCount' = 8
  BY <1>1 DEF CopyOut, MaxScalars, CallInv, UCTypeOK
<1>3. room' = 8 /\ room' = Outputs(selector') /\ selector' \in 3 .. 5
  BY DEF CallInv, Outputs, callVars
<1>4. \A i \in 1 .. MaxScalars : scalarOutput'[i] # Unset <=> i <= room'
  <2>1. Untouched
    BY DEF CallInv
  <2> QED BY <1>1, <1>2, <1>3, <2>1 DEF Untouched, MaxScalars
<1>5. UCTypeOK'
  BY <1>2, <1>3 DEF CallInv, UCTypeOK, UCResults, Results, callVars, MaxScalars
<1>6. selector' = 3 => \A i \in 1 .. 8 : scalarOutput'[i] = ReadReg(kSafeOffs[i])'
  BY <1>2 DEF ReadReg, callVars
<1>7. /\ selector' \in 0 .. 5 /\ selector' # 0 /\ selector' # 1
      /\ scalarOutputCount' = room'
  <2>1. \A s \in 3 .. 5 : s \in 0 .. 5 /\ s # 0 /\ s # 1
    OBVIOUS
  <2>2. selector' \in 0 .. 5 /\ selector' # 0 /\ selector' # 1
    BY <1>3, <2>1, Zenon
  <2>3. scalarOutputCount' = room'
    BY <1>2, <1>3, Zenon
  <2> QED BY <2>2, <2>3
<1>8. at' \notin {"trap", "handler", "service"}
  OBVIOUS
<1> QED
  BY <1>3, <1>4, <1>5, <1>6, <1>7, <1>8, Zenon DEF CallInv

(* Every step of a call inside the kernel keeps its invariant.             *)
LEMMA KernelKeepsCall ==
  ASSUME CallInv, KernelStep
  PROVE  CallInv'
<1> DEFINE Entry == sMethods[selector + 1]
<1>0. at \in {"handler", "service"} =>
        /\ Method = "CreateBuffer" <=> selector = 0
        /\ Method = "Submit" <=> selector = 1
        /\ Method = "Wait" <=> selector = 2
        /\ Method = "ReadRegs" <=> selector = 3
        /\ Method = "GetGTConfig" <=> selector = 4
        /\ Method = "GetDisplayInfo" <=> selector = 5
  BY Entries DEF CallInv, Method
<1>1. CASE CallDead
  BY <1>1, CallIsRefused DEF CallDead
<1>2. CASE ExternalMethod
  <2>1. CASE kr' \in {"Unsupported", "BadArgument"} /\ at' = "reply"
    BY <1>2, <2>1, CallIsRefused DEF ExternalMethod
  <2>2. CASE ~(kr' \in {"Unsupported", "BadArgument"} /\ at' = "reply")
    <3>1. /\ selector < methodCount /\ at = "trap" /\ at' = "handler"
          /\ CountOK(Entry.scalarIn, Len(scalarInput))
          /\ CountOK(Entry.scalarOut, scalarOutputCount)
          /\ UNCHANGED <<csOff, bar0Length, callVars, replyVars, arg, sz, kr>>
      BY <1>2, <2>2 DEF ExternalMethod
    <3>2. selector \in 0 .. 5
      BY <3>1, Table DEF CallInv, UCTypeOK
    <3>3. /\ selector \in {0, 2} => Len(scalarInput) = 1
          /\ scalarOutputCount = Outputs(selector)
      <4>1. /\ Entry.scalarIn = IF selector \in {0, 2} THEN 1 ELSE 0
            /\ Entry.scalarOut = Outputs(selector)
        BY <3>2, Entries DEF Outputs
      <4>2. Outputs(selector) # -1
        BY DEF Outputs
      <4> HIDE DEF Entry
      <4>3. Entry.scalarOut = scalarOutputCount
        BY <3>1, <4>1, <4>2 DEF CountOK, kIOUCVariableStructureSize
      <4>4. selector \in {0, 2} => Len(scalarInput) = 1
        BY <3>1, <4>1 DEF CountOK, kIOUCVariableStructureSize
      <4> QED BY <4>1, <4>3, <4>4
    <3>4. UCTypeOK' /\ Untouched'
      BY <3>1 DEF CallInv, UCTypeOK, Untouched, callVars, replyVars
    <3> QED
      BY <3>1, <3>2, <3>3, <3>4 DEF CallInv, callVars, replyVars
  <2> QED BY <2>1, <2>2
<1>3. CASE SCreateBuffer
  <2>1. Input(Page, MaxBytes) \in 1 .. MaxBytes
    <3>1. Page \in 1 .. MaxBytes
      BY ToolAssumption, SizeAssumption
    <3> QED BY <3>1, InputBounds, SizeAssumption DEF CallInv
  <2>2. selector = 0 /\ at = "handler"
    BY <1>0, <1>3 DEF SCreateBuffer
  <2>3. UCTypeOK' /\ Untouched'
    BY <1>3, <2>1, SizeAssumption DEF SCreateBuffer, CallInv, UCTypeOK, Untouched, callVars, replyVars
  <2>4. arg' = Input(Page, MaxBytes)'
    BY <1>3 DEF SCreateBuffer, Input, callVars
  <2> QED
    BY <1>3, <2>1, <2>2, <2>3, <2>4 DEF SCreateBuffer, CallInv, callVars, replyVars
<1>4. CASE UcCreateBuffer
  <2>1. /\ selector = 0 /\ at = "service" /\ room = 1 /\ scalarOutputCount = 1
        /\ arg \in 1 .. MaxBytes /\ arg = Input(Page, MaxBytes) /\ Untouched
    BY <1>0, <1>4 DEF UcCreateBuffer, CallInv, Outputs
  <2>2. /\ sz' = PageAlign(arg) /\ sz' \in 0 .. Word - 1
        /\ kr' \in {"Success", "NoResources"}
    BY <1>4, <2>1, PageAlignRounds, SizeAssumption DEF UcCreateBuffer, Answers
  <2>3. arg' = Input(Page, MaxBytes)' /\ sz' = PageAlign(arg')
    BY <1>4, <2>1, <2>2 DEF UcCreateBuffer, Input, callVars
  <2>4. CASE kr' = "Success"
    <3>1. scalarOutput' = [scalarOutput EXCEPT ![1] = Cookie] /\ scalarOutputCount' = 1
      BY <1>4, <2>1, <2>4 DEF UcCreateBuffer
    <3>2. UCTypeOK'
      <4>1. scalarOutput' \in [1 .. MaxScalars -> Int] /\ scalarOutputCount' \in 0 .. MaxScalars
        <5>1. scalarOutput \in [1 .. MaxScalars -> Int] /\ Cookie \in Int
          BY DEF CallInv, UCTypeOK, Cookie
        <5>2. scalarOutput' \in [1 .. MaxScalars -> Int]
          BY <3>1, <5>1
        <5>3. scalarOutputCount' \in 0 .. MaxScalars
          BY <3>1 DEF MaxScalars
        <5> QED BY <5>2, <5>3
      <4>2. UNCHANGED <<csOff, bar0Length, selector, scalarInput, room, arg>> /\ at' = "reply"
        BY <1>4 DEF UcCreateBuffer, callVars
      <4>3. kr' \in UCResults
        BY <2>4 DEF UCResults, Results
      <4> QED
        BY <2>2, <4>1, <4>2, <4>3 DEF CallInv, UCTypeOK
    <3>3. /\ scalarOutput'[1] = Cookie
          /\ \A i \in 1 .. MaxScalars : scalarOutput'[i] # Unset <=> i <= 1
      BY <2>1, <3>1 DEF CallInv, UCTypeOK, Untouched, Cookie, Unset, MaxScalars
    <3> QED
      BY <1>4, <2>1, <2>3, <2>4, <3>1, <3>2, <3>3 DEF UcCreateBuffer, CallInv, callVars, Outputs
  <2>5. CASE kr' # "Success"
    <3>1. UCTypeOK' /\ Untouched'
      BY <1>4, <2>1, <2>2, <2>5
      DEF UcCreateBuffer, CallInv, UCTypeOK, UCResults, Results, Untouched, callVars, replyVars
    <3> QED
      BY <1>4, <2>1, <2>3, <2>5, <3>1 DEF UcCreateBuffer, CallInv, callVars
  <2> QED BY <2>4, <2>5
<1>5. CASE SSubmit
  <2>1. selector = 1 /\ at = "handler" /\ room = 0 /\ scalarOutputCount = 0 /\ Untouched
    BY <1>0, <1>5 DEF SSubmit, CallInv, Outputs
  <2>2. kr' \in Results /\ (kr' = "Success" => ~csOff)
    BY <1>5 DEF SSubmit, Answers, Results
  <2>3. UCTypeOK' /\ Untouched'
    BY <1>5, <2>1, <2>2 DEF SSubmit, CallInv, UCTypeOK, UCResults, Untouched, callVars, replyVars
  <2>4. \A i \in 1 .. MaxScalars : ~(i <= 0)
    BY DEF MaxScalars
  <2> QED
    BY <1>5, <2>1, <2>2, <2>3, <2>4 DEF SSubmit, CallInv, Untouched, callVars, replyVars, Outputs
<1>6. CASE SWait
  <2>1. Input(DefaultWait, MaxWait) \in 1 .. MaxWait
    BY InputBounds, SizeAssumption DEF CallInv
  <2>2. selector = 2 /\ at = "handler"
    BY <1>0, <1>6 DEF SWait
  <2>3. UCTypeOK' /\ Untouched'
    BY <1>6, <2>1, SizeAssumption DEF SWait, CallInv, UCTypeOK, Untouched, callVars, replyVars
  <2> QED
    BY <1>6, <2>1, <2>2, <2>3 DEF SWait, CallInv, callVars, replyVars
<1>7. CASE UcWait
  <2>1. selector = 2 /\ at = "service" /\ room = 0 /\ scalarOutputCount = 0 /\ Untouched
    BY <1>0, <1>7 DEF UcWait, CallInv, Outputs
  <2>2. kr' = "Success"
    BY <1>7 DEF UcWait, Answers
  <2>3. UCTypeOK' /\ Untouched'
    BY <1>7, <2>1, <2>2
    DEF UcWait, CallInv, UCTypeOK, UCResults, Results, Untouched, callVars, replyVars
  <2>4. \A i \in 1 .. MaxScalars : ~(i <= 0)
    BY DEF MaxScalars
  <2> QED
    BY <1>7, <2>1, <2>2, <2>3, <2>4 DEF UcWait, CallInv, Untouched, callVars, replyVars, Outputs
<1>8. CASE SReadRegs
  <2>1. selector = 3 /\ at = "handler"
    BY <1>0, <1>8 DEF SReadRegs
  <2>2. kr' = "Success" /\ CopyOut(kSafeOffs, 8)
    BY <1>8, OffsetsAreReal DEF SReadRegs, Answers
  <2> QED
    BY <1>8, <2>1, <2>2, CopyFills, OffsetsAreReal DEF SReadRegs
<1>9. ASSUME NEW m \in {"GetGTConfig", "GetDisplayInfo"}, NEW offs,
             \A i \in 1 .. 8 : offs[i] \in Nat, SGetRegs(m, offs)
      PROVE  CallInv'
  <2>1. selector \in 4 .. 5 /\ at = "handler" /\ scalarOutputCount = 8
    BY <1>0, <1>9 DEF SGetRegs, CallInv, Outputs
  <2>2. kr' = "Success" /\ CopyOut(offs, 8)
    BY <1>9, <2>1 DEF SGetRegs, Answers
  <2> QED
    BY <1>9, <2>1, <2>2, CopyFills DEF SGetRegs
<1> QED
  BY <1>1, <1>2, <1>3, <1>4, <1>5, <1>6, <1>7, <1>8, <1>9, OffsetsAreReal
  DEF KernelStep, SGetGTConfig, SGetDisplayInfo

(* What a step in the kernel leaves alone.                                 *)
LEMMA KernelLeaves ==
  ASSUME KernelStep
  PROVE  /\ at \in {"trap", "handler", "service"}
         /\ UNCHANGED <<csOff, bar0Length, selector, scalarInput>>
BY DEF KernelStep, CallDead, ExternalMethod, SCreateBuffer, UcCreateBuffer, SSubmit, SWait,
       UcWait, SReadRegs, SGetGTConfig, SGetDisplayInfo, SGetRegs, callVars

ToolTypeOK ==
  /\ tpc \in {"shell", "open", "run", "result", "waiting", "close"}
  /\ cmd \in Commands
  /\ conn \in BOOLEAN
  /\ bytes \in 0 .. Word - 1
  /\ said \in {"nothing", "error", "connected", "registers", "completed", "created"}
  /\ out \in Seq(Int)

(* The call in progress is the one the command has made.                   *)
CommandInv ==
  /\ tpc \in {"shell", "open", "run"} => at = "idle"
  /\ tpc = "close" => at \in {"idle", "reply"}
  /\ tpc = "result" /\ cmd = "regdump" => selector = 3
  /\ tpc = "result" /\ cmd = "noop" => selector = 1
  /\ tpc = "result" /\ cmd = "mkbuf" =>
       selector = 0 /\ scalarInput = <<bytes>> /\ bytes \in 1 .. ToolMax
  /\ tpc = "waiting" => cmd = "noop" /\ ~csOff
  /\ tpc # "close" => said \in {"nothing", "error"}

PrintedInv == RegdumpShowsRegisters /\ NoopIsHonest /\ ToolGetsWhatItPrints

(* The inductive invariant of the programs and their calls.                *)
XectlInv == CallInv /\ ToolTypeOK /\ CommandInv /\ PrintedInv

(* As long as nothing but a usage or an error line has been printed, what  *)
(* is printed is right.                                                    *)
LEMMA NothingPrinted ==
  ASSUME said' \in {"nothing", "error", "connected"}
  PROVE  PrintedInv'
BY DEF PrintedInv, RegdumpShowsRegisters, NoopIsHonest, ToolGetsWhatItPrints

(* The steps that make a call.                                             *)
LEMMA CallKeepsInv ==
  ASSUME XectlInv, NEW sel \in Nat, NEW input \in Seq(Nat), NEW outCnt \in 0 .. MaxScalars,
         CallMethod(sel, input, outCnt), tpc # "close", tpc' \in {"result", "waiting"},
         UNCHANGED <<cmd, conn, said, out>>, bytes' \in 0 .. Word - 1,
         tpc' = "result" /\ cmd = "regdump" => sel = 3,
         tpc' = "result" /\ cmd = "noop" => sel = 1,
         tpc' = "result" /\ cmd = "mkbuf" =>
           sel = 0 /\ input = <<bytes'>> /\ bytes' \in 1 .. ToolMax,
         tpc' = "waiting" => cmd = "noop" /\ ~csOff
  PROVE  XectlInv'
<1>1. CallInv'
  BY CallBegins DEF XectlInv, CallMethod
<1>2. ToolTypeOK'
  BY DEF XectlInv, ToolTypeOK
<1>3. CommandInv'
  BY DEF XectlInv, CommandInv, CallMethod, Arguments
<1>4. PrintedInv'
  BY NothingPrinted DEF XectlInv, CommandInv
<1> QED BY <1>1, <1>2, <1>3, <1>4 DEF XectlInv

(* A report of a reply leaves the call alone.                              *)
LEMMA ReportKeepsInv ==
  ASSUME XectlInv, NEW c, NEW w, NEW values \in Seq(Int),
         NEW s \in {"nothing", "error", "registers", "completed", "created"},
         Reports(c, w, s, values), PrintedInv'
  PROVE  XectlInv'
<1>1. CallInv'
  BY DEF XectlInv, Reports, ucVars, CallInv, UCTypeOK, Untouched, Input, ReadReg, PageAlign,
         callVars, replyVars
<1>2. ToolTypeOK'
  BY DEF XectlInv, ToolTypeOK, Reports
<1>3. CommandInv'
  BY DEF XectlInv, CommandInv, Reports, ucVars
<1> QED BY <1>1, <1>2, <1>3 DEF XectlInv

(* A line printed about a mkbuf call: the driver allocated what xectl      *)
(* asked for, rounded up.                                                  *)
LEMMA MkbufIsHonest ==
  ASSUME XectlInv, tpc = "result", cmd = "mkbuf", at = "reply", kr = "Success"
  PROVE  scalarOutput[1] = Cookie /\ bytes <= sz /\ sz < bytes + Page
<1>1. /\ selector = 0 /\ scalarInput = <<bytes>> /\ bytes \in 1 .. ToolMax
  BY DEF XectlInv, CommandInv
<1>2. /\ scalarOutput[1] = Cookie /\ arg = Input(Page, MaxBytes) /\ sz = PageAlign(arg)
  BY <1>1 DEF XectlInv, CallInv
<1>3. bytes \in 1 .. MaxBytes /\ bytes % Word = bytes /\ Page \in 1 .. MaxBytes
  BY <1>1, SizeAssumption, ToolAssumption
<1>4. Input(Page, MaxBytes) = Clamp(bytes, Page, MaxBytes)
  BY <1>1, <1>3 DEF Input
<1>5. arg = bytes
  BY <1>2, <1>3, <1>4, ClampBounds, SizeAssumption
<1>6. PageAlign(bytes) - Page < bytes /\ bytes <= PageAlign(bytes) /\ PageAlign(bytes) \in Page .. MaxBytes
  BY <1>3, PageAlignRounds
<1> QED BY <1>2, <1>3, <1>5, <1>6, SizeAssumption

(* Small facts the steps below share.                                      *)
LEMMA Trivia ==
  /\ << >> \in Seq(Nat) /\ << >> \in Seq(Int) /\ <<0, 0>> \in Seq(Nat)
  /\ 0 \in 0 .. MaxScalars /\ 1 \in 0 .. MaxScalars /\ 8 \in 0 .. MaxScalars
  /\ 0 \in 0 .. Word - 1
BY SizeAssumption DEF MaxScalars

(* The steps of a program outside of a call.                               *)
LEMMA IdleKeepsInv ==
  ASSUME XectlInv, UNCHANGED ucVars, ToolTypeOK', CommandInv', said' \in {"nothing", "error", "connected"}
  PROVE  XectlInv'
<1>1. CallInv'
  BY DEF XectlInv, ucVars, CallInv, UCTypeOK, Untouched, Input, ReadReg, PageAlign, callVars, replyVars
<1> QED BY <1>1, NothingPrinted DEF XectlInv

(* Every step of a program in user space keeps the invariant.              *)
LEMMA ToolKeepsInv ==
  ASSUME XectlInv, ToolStep
  PROVE  XectlInv'
<1>1. CASE OpenConnection \/ OpenFails \/ CmdInfo \/ CmdUnknown
  <2>1. UNCHANGED ucVars /\ said' \in {"nothing", "error", "connected"}
    BY <1>1 DEF OpenConnection, OpenFails, CmdInfo, CmdUnknown, XectlInv, CommandInv
  <2>2. ToolTypeOK'
    BY <1>1 DEF OpenConnection, OpenFails, CmdInfo, CmdUnknown, XectlInv, ToolTypeOK
  <2>3. CommandInv'
    BY <1>1 DEF OpenConnection, OpenFails, CmdInfo, CmdUnknown, XectlInv, CommandInv, ucVars
  <2> QED BY <2>1, <2>2, <2>3, IdleKeepsInv
<1>2. CASE CmdRegdump
  <2>1. bytes' \in 0 .. Word - 1
    BY <1>2 DEF CmdRegdump, XectlInv, ToolTypeOK
  <2>2. CallMethod(3, << >>, 8)
    BY <1>2 DEF CmdRegdump, Call, kMethodReadRegs
  <2> QED BY <1>2, <2>1, <2>2, CallKeepsInv, Trivia DEF CmdRegdump, Call
<1>3. CASE CmdNoop
  <2>1. bytes' \in 0 .. Word - 1
    BY <1>3 DEF CmdNoop, XectlInv, ToolTypeOK
  <2>2. CallMethod(1, << >>, 0)
    BY <1>3 DEF CmdNoop, Call, kMethodSubmit
  <2> QED BY <1>3, <2>1, <2>2, CallKeepsInv, Trivia DEF CmdNoop, Call
<1>4. CASE CmdMkbuf
  <2> DEFINE n == Clamp(bytes, Page, ToolMax)
  <2>1. n \in 1 .. ToolMax /\ n \in 0 .. Word - 1
    <3>1. bytes \in Nat /\ ToolMax \in Nat /\ Page \in 1 .. ToolMax /\ ToolMax <= Word - 1
      BY SizeAssumption, ToolAssumption DEF XectlInv, ToolTypeOK
    <3> QED BY <3>1, ClampBounds, SizeAssumption
  <2>2. CallMethod(0, <<n>>, 1) /\ bytes' = n
    BY <1>4 DEF CmdMkbuf, Call, kMethodCreateBuffer
  <2>3. <<n>> \in Seq(Nat)
    BY <2>1, ToolAssumption
  <2> HIDE DEF n
  <2> QED BY <1>4, <2>1, <2>2, <2>3, CallKeepsInv, Trivia DEF CmdMkbuf, Call
<1>5. ASSUME NEW sel \in 0 .. methodCount, NEW outCnt \in Rooms,
             NEW input \in {<< >>, <<0, 0>>} \cup {<<n>> : n \in Scalars},
             OtherCalls(sel, input, outCnt)
      PROVE  XectlInv'
  <2>1. sel \in Nat /\ outCnt \in 0 .. MaxScalars
    BY ToolAssumption, Table
  <2>2. input \in Seq(Nat)
    <3>1. CASE input \in {<< >>, <<0, 0>>}
      BY <3>1, Trivia
    <3>2. ASSUME NEW n \in Scalars, input = <<n>>
          PROVE  input \in Seq(Nat)
      BY <3>2, ToolAssumption
    <3> QED BY <3>1, <3>2
  <2>3. bytes' \in 0 .. Word - 1
    BY <1>5 DEF OtherCalls, XectlInv, ToolTypeOK
  <2> QED BY <1>5, <2>1, <2>2, <2>3, CallKeepsInv DEF OtherCalls, Call
<1>6. CASE GiveUp
  <2>1. PICK c \in {"regdump", "noop", "mkbuf"}, w \in {"result", "waiting"} :
          Reports(c, w, "error", << >>)
    BY <1>6 DEF GiveUp
  <2> QED BY <2>1, ReportKeepsInv, NothingPrinted, Trivia DEF Reports
<1>7. CASE RegdumpPrints
  <2> DEFINE v == [i \in 1 .. scalarOutputCount |-> scalarOutput[i]]
  <2>1. /\ kr = "Success" /\ tpc = "result" /\ cmd = "regdump" /\ at = "reply"
        /\ Reports("regdump", "result", "registers", v)
    BY <1>7 DEF RegdumpPrints, Reports
  <2>2. selector = 3
    BY <2>1 DEF XectlInv, CommandInv
  <2>3. /\ scalarOutputCount = 8
        /\ \A i \in 1 .. 8 : scalarOutput[i] = ReadReg(kSafeOffs[i])
    BY <2>1, <2>2 DEF XectlInv, CallInv, Outputs
  <2>4. \A i \in 1 .. 8 : scalarOutput[i] \in Int
    <3>1. scalarOutput \in [1 .. MaxScalars -> Int]
      BY DEF XectlInv, CallInv, UCTypeOK
    <3> QED BY <3>1 DEF MaxScalars
  <2>5. v \in Seq(Int) /\ Len(v) = 8 /\ \A i \in 1 .. 8 : v[i] = ReadReg(kSafeOffs[i])
    BY <2>3, <2>4
  <2> HIDE DEF v
  <2>6. PrintedInv'
    <3>1. out' = v /\ said' = "registers" /\ UNCHANGED bar0Length
      BY <2>1 DEF Reports, ucVars
    <3> QED
      BY <2>5, <3>1
      DEF PrintedInv, RegdumpShowsRegisters, NoopIsHonest, ToolGetsWhatItPrints, ReadReg
  <2> QED BY <2>1, <2>5, <2>6, ReportKeepsInv
<1>8. CASE NoopWaits
  <2>1. ~csOff
    BY <1>8 DEF NoopWaits, XectlInv, CommandInv, CallInv
  <2>2. CallMethod(2, <<DefaultWait>>, 0) /\ <<DefaultWait>> \in Seq(Nat)
    BY <1>8, SizeAssumption DEF NoopWaits, kMethodWait
  <2>3. bytes' \in 0 .. Word - 1
    BY <1>8 DEF NoopWaits, XectlInv, ToolTypeOK
  <2> QED BY <1>8, <2>1, <2>2, <2>3, CallKeepsInv, Trivia DEF NoopWaits
<1>9. CASE NoopCompletes
  <2>1. Reports("noop", "waiting", "completed", << >>)
    BY <1>9 DEF NoopCompletes
  <2>2. ~csOff'
    BY <2>1 DEF Reports, ucVars, XectlInv, CommandInv
  <2>3. PrintedInv'
    BY <2>1, <2>2 DEF Reports, PrintedInv, RegdumpShowsRegisters, NoopIsHonest, ToolGetsWhatItPrints
  <2> QED BY <2>1, <2>3, ReportKeepsInv, Trivia
<1>10. CASE MkbufPrints
  <2>1. Reports("mkbuf", "result", "created", <<scalarOutput[1]>>) /\ kr = "Success"
    BY <1>10 DEF MkbufPrints
  <2>2. scalarOutput[1] = Cookie /\ bytes <= sz /\ sz < bytes + Page
    BY <2>1, MkbufIsHonest DEF Reports
  <2>3. PrintedInv'
    BY <2>1, <2>2
    DEF Reports, ucVars, PrintedInv, RegdumpShowsRegisters, NoopIsHonest, ToolGetsWhatItPrints
  <2>4. <<scalarOutput[1]>> \in Seq(Int)
    BY <2>2 DEF Cookie
  <2> QED BY <2>1, <2>3, <2>4, ReportKeepsInv
<1>11. CASE OtherReturns
  <2>1. Reports("other", "result", "nothing", << >>)
    BY <1>11 DEF OtherReturns
  <2> QED BY <2>1, ReportKeepsInv, NothingPrinted, Trivia DEF Reports
<1>12. CASE CloseConnection
  <2>1. CallInv'
    BY <1>12, CallBegins, Trivia DEF CloseConnection, Forget, XectlInv
  <2>2. ToolTypeOK' /\ said' = "nothing"
    BY <1>12, Trivia DEF CloseConnection, ToolTypeOK, Commands
  <2>3. CommandInv'
    BY <1>12 DEF CloseConnection, Forget, CommandInv
  <2> QED BY <2>1, <2>2, <2>3, NothingPrinted DEF XectlInv
<1> QED
  BY <1>1, <1>2, <1>3, <1>4, <1>5, <1>6, <1>7, <1>8, <1>9, <1>10, <1>11, <1>12 DEF ToolStep

(* Every step of the specification does.                                   *)
LEMMA XectlStepInv ==
  ASSUME XectlInv, [XectlNext]_xectlVars
  PROVE  XectlInv'
<1>1. CASE UNCHANGED xectlVars
  <2>1. CallInv'
    BY <1>1 DEF xectlVars, XectlInv, ucVars, CallInv, UCTypeOK, Untouched, Input, ReadReg, PageAlign,
                callVars, replyVars
  <2>2. ToolTypeOK' /\ CommandInv'
    BY <1>1 DEF xectlVars, toolVars, ucVars, callVars, XectlInv, ToolTypeOK, CommandInv
  <2>3. PrintedInv'
    BY <1>1 DEF xectlVars, toolVars, ucVars, XectlInv, PrintedInv, RegdumpShowsRegisters, NoopIsHonest,
                ToolGetsWhatItPrints, ReadReg
  <2> QED BY <2>1, <2>2, <2>3 DEF XectlInv
<1>2. ASSUME NEW c \in Commands, NEW n \in Nat, Main(c, n)
      PROVE  XectlInv'
  <2>1. n % Word \in 0 .. Word - 1 /\ 0 \in 0 .. Word - 1
    BY SizeAssumption
  <2>2. ToolTypeOK'
    BY <1>2, <2>1 DEF Main, XectlInv, ToolTypeOK
  <2>3. CommandInv'
    BY <1>2 DEF Main, XectlInv, CommandInv, ucVars
  <2> QED BY <1>2, <2>2, <2>3, IdleKeepsInv DEF Main
<1>3. CASE ToolStep
  BY <1>3, ToolKeepsInv
<1>4. CASE KernelStep /\ UNCHANGED toolVars
  <2>1. CallInv'
    BY <1>4, KernelKeepsCall DEF XectlInv
  <2>2. tpc \in {"result", "waiting"} /\ UNCHANGED <<csOff, bar0Length, selector, scalarInput>>
    BY <1>4, KernelLeaves DEF XectlInv, CommandInv, ToolTypeOK
  <2>3. ToolTypeOK' /\ CommandInv'
    BY <1>4, <2>2 DEF toolVars, XectlInv, ToolTypeOK, CommandInv
  <2>4. said' \in {"nothing", "error"}
    BY <1>4, <2>2 DEF toolVars, XectlInv, CommandInv
  <2> QED BY <2>1, <2>3, <2>4, NothingPrinted DEF XectlInv
<1>5. 0 \in Nat /\ Scalars \subseteq Nat /\ "mkbuf" \in Commands
  BY ToolAssumption DEF Commands
<1> QED
  BY <1>1, <1>2, <1>3, <1>4, <1>5 DEF XectlNext

(* The invariant of the programs and their calls.                          *)
THEOREM XectlInvariant == XectlSpec => []XectlInv
<1>1. XectlInit => XectlInv
  <2> SUFFICES ASSUME XectlInit PROVE XectlInv
    OBVIOUS
  <2>1. CallInv
    BY SizeAssumption DEF XectlInit, UCInit, CallInv, UCTypeOK, UCResults, Results, Unset, MaxScalars
  <2>2. ToolTypeOK /\ CommandInv
    BY Trivia DEF XectlInit, UCInit, ToolTypeOK, CommandInv, Commands
  <2>3. PrintedInv
    BY DEF XectlInit, PrintedInv, RegdumpShowsRegisters, NoopIsHonest, ToolGetsWhatItPrints
  <2> QED BY <2>1, <2>2, <2>3 DEF XectlInv
<1> QED BY <1>1, XectlStepInv, PTL DEF XectlSpec

(* The counts of sMethods protect the program's buffers in every handler.  *)
THEOREM RepliesFit == XectlSpec => []RepliesFillTheRoom
<1>1. XectlInv => RepliesFillTheRoom
  BY DEF XectlInv, CallInv, RepliesFillTheRoom, Untouched
<1> QED BY <1>1, XectlInvariant, PTL

(* Every allocation is the right number of whole pages, whatever the       *)
(* scalar and whatever the real values of the word, page and limits.       *)
THEOREM AllocationsAreSound == XectlSpec => []AllocationSound
<1>1. XectlInv => AllocationSound
  BY PageAlignRounds DEF XectlInv, CallInv, AllocationSound
<1> QED BY <1>1, XectlInvariant, PTL

(* No scalar gets past the limits of sWait.                                *)
THEOREM WaitsAreBounded == XectlSpec => []WaitWithinLimits
<1>1. XectlInv => WaitWithinLimits
  <2> SUFFICES ASSUME XectlInv, at = "service", Method = "Wait"
               PROVE  arg \in 1 .. MaxWait
    BY DEF WaitWithinLimits
  <2>1. selector \in 0 .. 5
    BY DEF XectlInv, CallInv
  <2>2. selector = 2
    BY <2>1, Entries DEF Method
  <2> QED BY <2>2 DEF XectlInv, CallInv
<1> QED BY <1>1, XectlInvariant, PTL

(* The types of a call and of the programs, for every word size: neither   *)
(* the argument nor the allocation of a call leaves its 32 bits.           *)
THEOREM XectlTypeCorrect == XectlSpec => []XectlTypeOK
<1>1. XectlInv => XectlTypeOK
  <2> SUFFICES ASSUME XectlInv PROVE XectlTypeOK
    OBVIOUS
  <2>1. UCTypeOK
    BY DEF XectlInv, CallInv
  <2>2. ToolTypeOK
    BY DEF XectlInv
  <2> QED BY <2>1, <2>2 DEF XectlTypeOK, ToolTypeOK
<1> QED BY <1>1, XectlInvariant, PTL

(* regdump prints the eight registers it names, in order, on every BAR.    *)
THEOREM RegdumpIsHonest == XectlSpec => []RegdumpShowsRegisters
<1>1. XectlInv => RegdumpShowsRegisters
  BY DEF XectlInv, PrintedInv
<1> QED BY <1>1, XectlInvariant, PTL

(* noop reports completion only where submissions are allowed.             *)
THEOREM NoopsAreHonest == XectlSpec => []NoopIsHonest
<1>1. XectlInv => NoopIsHonest
  BY DEF XectlInv, PrintedInv
<1> QED BY <1>1, XectlInvariant, PTL

(* mkbuf announces a buffer only if it exists, and with a size it has, for *)
(* every size asked for and every page and limit.                          *)
THEOREM MkbufsAreHonest == XectlSpec => []ToolGetsWhatItPrints
<1>1. XectlInv => ToolGetsWhatItPrints
  BY DEF XectlInv, PrintedInv
<1> QED BY <1>1, XectlInvariant, PTL

-----------------------------------------------------------------------------
(* A program holds a connection only after it has opened one.              *)
ConnInv == tpc \in {"shell", "open"} => ~conn

(* A step in the kernel takes a call one stage further at least.           *)
LEMMA KernelAdvances ==
  ASSUME KernelStep
  PROVE  \/ at = "trap" /\ at' \in {"handler", "reply"}
         \/ at = "handler" /\ at' \in {"service", "reply"}
         \/ at = "service" /\ at' = "reply"
BY DEF KernelStep, CallDead, ExternalMethod, SCreateBuffer, UcCreateBuffer, SSubmit, SWait,
       UcWait, SReadRegs, SGetGTConfig, SGetDisplayInfo, SGetRegs

(* A step of a program in user space takes it one stage further: only the  *)
(* successful noop goes on to a second call, and only once.                *)
LEMMA ToolAdvances ==
  ASSUME ToolStep
  PROVE  \/ tpc = "open" /\ tpc' = "run"
         \/ tpc = "open" /\ tpc' = "shell" /\ conn' = conn
         \/ tpc = "run" /\ (tpc' = "close" \/ (tpc' = "result" /\ at' = "trap"))
         \/ tpc = "result" /\ (tpc' = "close" \/ (tpc' = "waiting" /\ at' = "trap"))
         \/ tpc = "waiting" /\ tpc' = "close"
         \/ tpc = "close" /\ tpc' = "shell" /\ ~conn'
<1>1. CASE OpenConnection \/ OpenFails \/ CmdInfo \/ CmdUnknown \/ CloseConnection
  BY <1>1 DEF OpenConnection, OpenFails, CmdInfo, CmdUnknown, CloseConnection
<1>2. CASE \/ CmdRegdump \/ CmdNoop \/ CmdMkbuf
           \/ \E sel \in 0 .. methodCount, outCnt \in Rooms :
                \E input \in {<< >>, <<0, 0>>} \cup {<<n>> : n \in Scalars} :
                  OtherCalls(sel, input, outCnt)
  BY <1>2 DEF CmdRegdump, CmdNoop, CmdMkbuf, OtherCalls, Call, CallMethod
<1>3. CASE GiveUp \/ RegdumpPrints \/ NoopCompletes \/ MkbufPrints \/ OtherReturns
  BY <1>3 DEF GiveUp, RegdumpPrints, NoopCompletes, MkbufPrints, OtherReturns, Reports
<1>4. CASE NoopWaits
  BY <1>4 DEF NoopWaits, CallMethod
<1> QED
  BY <1>1, <1>2, <1>3, <1>4 DEF ToolStep

(* Every step brings a program nearer to its end.                          *)
LEMMA ProgramAdvances ==
  ASSUME XectlInv, ConnInv, XectlNext
  PROVE  /\ ConnInv'
         /\ tpc # "shell" => ProgramLeft' < ProgramLeft
         /\ tpc' = "shell" => ~conn'
<1>1. at \in {"idle", "trap", "handler", "service", "reply"}
  BY DEF XectlInv, CallInv, UCTypeOK
<1>2. ASSUME NEW c, NEW n, Main(c, n)
      PROVE  ConnInv' /\ tpc = "shell" /\ ~conn'
  BY <1>2 DEF Main, ConnInv
<1>3. CASE ToolStep
  BY <1>1, <1>3, ToolAdvances DEF ConnInv, ProgramLeft
<1>4. CASE KernelStep /\ UNCHANGED toolVars
  <2>1. tpc \in {"result", "waiting"} /\ UNCHANGED <<tpc, conn>>
    BY <1>4, KernelLeaves DEF toolVars, XectlInv, CommandInv, ToolTypeOK
  <2> QED BY <1>4, <2>1, KernelAdvances DEF ConnInv, ProgramLeft
<1> QED
  BY <1>2, <1>3, <1>4 DEF XectlNext

(* Every program ends after at most eleven steps with its connection       *)
(* closed: no error path retries or goes back.                             *)
THEOREM ProgramsAreBounded ==
  XectlSpec => /\ ProgramsRunDown
               /\ [](ProgramLeft \in 0 .. 11 /\ (ProgramLeft = 0 => tpc = "shell"))
<1>1. XectlInit => ConnInv
  BY DEF XectlInit, ConnInv
<1>2. XectlInv /\ ConnInv /\ [XectlNext]_xectlVars => ConnInv'
  BY ProgramAdvances DEF ConnInv, xectlVars, toolVars
<1>3. XectlInv /\ ConnInv /\ [XectlNext]_xectlVars =>
        [/\ tpc # "shell" => ProgramLeft' < ProgramLeft
         /\ tpc' = "shell" => ~conn']_xectlVars
  BY ProgramAdvances
<1>4. XectlInv => ProgramLeft \in 0 .. 11 /\ (ProgramLeft = 0 => tpc = "shell")
  <2> SUFFICES ASSUME XectlInv
               PROVE  ProgramLeft \in 0 .. 11 /\ (ProgramLeft = 0 => tpc = "shell")
    OBVIOUS
  <2>1. tpc \in {"shell", "open", "run", "result", "waiting", "close"}
    BY DEF XectlInv, ToolTypeOK
  <2> QED BY <2>1 DEF ProgramLeft
<1> QED
  BY <1>1, <1>2, <1>3, <1>4, XectlInvariant, PTL DEF XectlSpec, ProgramsRunDown

=============================================================================
