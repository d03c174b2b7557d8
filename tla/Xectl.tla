------------------------------- MODULE Xectl -------------------------------
(***************************************************************************)
(* userspace/xectl.c on top of XeUserClient: one program after the other   *)
(* is started, opens a connection, makes the calls of its command and      *)
(* closes it.  The program is xectl with one of its commands, or any other *)
(* one, which makes one call with arguments of its own choice.             *)
(***************************************************************************)
EXTENDS XeUserClient

CONSTANTS
  ToolMax,              \* 16 MiB, the limit of xectl mkbuf
  Scalars,              \* values of a 64-bit scalar or of strtoul
  Rooms                 \* output counts another program may pass

ASSUME ToolAssumption ==
  /\ ToolMax \in Page .. MaxBytes
  /\ Scalars \subseteq Nat
  /\ Rooms \subseteq 0 .. MaxScalars

VARIABLES
  tpc,                  \* "shell", "open", "run", "result", "waiting", "close"
  cmd,                  \* argv[1], "other" for another program
  conn,                 \* the program holds a connection
  bytes,                \* the size of mkbuf
  said,                 \* the kind of the last line printed
  out                   \* the values printed with it

toolVars == <<tpc, cmd, conn, bytes, said, out>>
xectlVars == <<ucVars, toolVars>>

(* "unknown" is also mkbuf without a size, "usage" is no argument at all.  *)
Commands == {"usage", "info", "regdump", "noop", "mkbuf", "unknown", "other"}

(* The selectors by xectl's own enum.                                      *)
kMethodCreateBuffer == 0
kMethodSubmit == 1
kMethodWait == 2
kMethodReadRegs == 3

XectlTypeOK ==
  /\ UCTypeOK
  /\ tpc \in {"shell", "open", "run", "result", "waiting", "close"}
  /\ cmd \in Commands
  /\ conn \in BOOLEAN
  /\ bytes \in 0 .. Word - 1
  /\ said \in {"nothing", "error", "connected", "registers", "completed", "created"}
  /\ out \in Seq(Int)

XectlInit ==
  /\ UCInit
  /\ tpc = "shell" /\ cmd = "usage" /\ conn = FALSE
  /\ bytes = 0 /\ said = "nothing" /\ out = << >>

(* Without an argument main prints the usage and returns.                  *)
Main(c, n) ==
  /\ tpc = "shell"
  /\ cmd' = c
  /\ bytes' = IF c = "mkbuf" THEN n % Word ELSE 0
  /\ IF c = "usage" THEN said' = "error" /\ UNCHANGED tpc
                    ELSE said' = "nothing" /\ tpc' = "open"
  /\ out' = << >>
  /\ UNCHANGED <<ucVars, conn>>

OpenConnection ==
  /\ tpc = "open"
  /\ tpc' = "run" /\ conn' = TRUE
  /\ UNCHANGED <<ucVars, cmd, bytes, said, out>>

(* No service, or IOServiceOpen fails: exit(1).                            *)
OpenFails ==
  /\ tpc = "open"
  /\ tpc' = "shell" /\ said' = "error"
  /\ UNCHANGED <<ucVars, cmd, conn, bytes, out>>

CmdInfo ==
  /\ tpc = "run" /\ cmd = "info"
  /\ said' = "connected" /\ tpc' = "close"
  /\ UNCHANGED <<ucVars, cmd, conn, bytes, out>>

CmdUnknown ==
  /\ tpc = "run" /\ cmd = "unknown"
  /\ said' = "error" /\ tpc' = "close"
  /\ UNCHANGED <<ucVars, cmd, conn, bytes, out>>

(* A command or another program makes a call and waits for its result.     *)
Call(sel, input, outCnt) ==
  /\ at = "idle" /\ CallMethod(sel, input, outCnt)
  /\ tpc' = "result"
  /\ UNCHANGED <<cmd, conn, said, out>>

(* Mutant: xectl's enum has the display method in the place of ReadRegs.   *)
CmdRegdumpStaleEnum ==
  /\ tpc = "run" /\ cmd = "regdump"
  /\ Call(kMethodReadRegs + 2, << >>, 8)
  /\ UNCHANGED bytes

CmdRegdump ==
  /\ tpc = "run" /\ cmd = "regdump"
  /\ Call(kMethodReadRegs, << >>, 8)
  /\ UNCHANGED bytes

CmdNoop ==
  /\ tpc = "run" /\ cmd = "noop"
  /\ Call(kMethodSubmit, << >>, 0)
  /\ UNCHANGED bytes

(* Mutant: the size is sent before it is clamped.                          *)
CmdMkbufClampsLate ==
  /\ tpc = "run" /\ cmd = "mkbuf"
  /\ bytes' = Clamp(bytes, Page, ToolMax)
  /\ Call(kMethodCreateBuffer, <<bytes>>, 1)

CmdMkbuf ==
  /\ tpc = "run" /\ cmd = "mkbuf"
  /\ LET n == Clamp(bytes, Page, ToolMax) IN
       bytes' = n /\ Call(kMethodCreateBuffer, <<n>>, 1)

OtherCalls(sel, input, outCnt) ==
  /\ tpc = "run" /\ cmd = "other"
  /\ Call(sel, input, outCnt)
  /\ UNCHANGED bytes

(* The program has its reply and prints a line.                            *)
Reports(c, w, s, values) ==
  /\ tpc = w /\ cmd = c /\ at = "reply"
  /\ said' = s /\ out' = values
  /\ tpc' = "close"
  /\ UNCHANGED <<ucVars, cmd, conn, bytes>>

(* Mutant: a failed command returns from main without closing.             *)
GiveUpUnclosed ==
  /\ tpc \in {"result", "waiting"} /\ cmd # "other" /\ at = "reply" /\ kr # "Success"
  /\ said' = "error" /\ tpc' = "shell"
  /\ Forget
  /\ UNCHANGED <<cmd, conn, bytes, out>>

(* Mutant: a command that failed is tried again.                           *)
GiveUpRetries ==
  /\ kr # "Success"
  /\ tpc \in {"result", "waiting"} /\ cmd # "other" /\ at = "reply"
  /\ tpc' = "run" /\ Forget
  /\ UNCHANGED <<cmd, conn, bytes, said, out>>

(* Every command gives up on a result other than KERN_SUCCESS.             *)
GiveUp ==
  /\ kr # "Success"
  /\ \E c \in {"regdump", "noop", "mkbuf"}, w \in {"result", "waiting"} :
       Reports(c, w, "error", << >>)

RegdumpPrints ==
  /\ kr = "Success"
  /\ Reports("regdump", "result", "registers",
             [i \in 1 .. scalarOutputCount |-> scalarOutput[i]])

(* Mutant: a command stream that is off is not a reason to stop.           *)
NoopWaitsAnyway ==
  /\ tpc = "result" /\ cmd = "noop" /\ at = "reply" /\ kr \in {"Success", "NotReady"}
  /\ CallMethod(kMethodWait, <<DefaultWait>>, 0)
  /\ tpc' = "waiting"
  /\ UNCHANGED <<cmd, conn, bytes, said, out>>

(* The submission succeeded: cmd_noop calls kMethodWait.                   *)
NoopWaits ==
  /\ tpc = "result" /\ cmd = "noop" /\ at = "reply" /\ kr = "Success"
  /\ CallMethod(kMethodWait, <<DefaultWait>>, 0)
  /\ tpc' = "waiting"
  /\ UNCHANGED <<cmd, conn, bytes, said, out>>

NoopCompletes ==
  kr = "Success" /\ Reports("noop", "waiting", "completed", << >>)

MkbufPrints ==
  kr = "Success" /\ Reports("mkbuf", "result", "created", <<scalarOutput[1]>>)

OtherReturns == Reports("other", "result", "nothing", << >>)

(* IOServiceClose, and the end of the program with all it had.             *)
CloseConnection ==
  /\ tpc = "close"
  /\ tpc' = "shell" /\ conn' = FALSE
  /\ cmd' = "usage" /\ bytes' = 0 /\ said' = "nothing" /\ out' = << >>
  /\ Forget

(* A program that has been started, in user space.                         *)
ToolStep ==
  \/ OpenConnection \/ OpenFails \/ CmdInfo \/ CmdUnknown
  \/ CmdRegdump \/ CmdNoop \/ CmdMkbuf
  \/ \E sel \in 0 .. methodCount, outCnt \in Rooms :
       \E input \in {<< >>, <<0, 0>>} \cup {<<n>> : n \in Scalars} :
         OtherCalls(sel, input, outCnt)
  \/ GiveUp \/ RegdumpPrints \/ NoopWaits \/ NoopCompletes \/ MkbufPrints
  \/ OtherReturns \/ CloseConnection

XectlNext ==
  \/ \E c \in Commands \ {"mkbuf"} : Main(c, 0)
  \/ \E n \in Scalars : Main("mkbuf", n)
  \/ ToolStep
  \/ KernelStep /\ UNCHANGED toolVars

(* A program that runs goes on running, and so does its thread in the      *)
(* kernel: no handler waits for anything without a bound.                  *)
XectlSpec ==
  /\ XectlInit /\ [][XectlNext]_xectlVars
  /\ WF_xectlVars(ToolStep)
  /\ WF_xectlVars(KernelStep /\ UNCHANGED toolVars)

-----------------------------------------------------------------------------
(* regdump prints the first eight registers of kSafeOffs, in their order,  *)
(* and nothing that was never read: xectl's enum, sMethods, the handler    *)
(* and the test of the result have to agree for it.                        *)
RegdumpShowsRegisters ==
  said = "registers" =>
    /\ Len(out) = 8
    /\ \A i \in 1 .. 8 : out[i] = ReadReg(kSafeOffs[i])

(* "NOOP completed" is never printed on a machine whose boot flags forbid  *)
(* submissions, although ucWait, called after it, always succeeds.         *)
NoopIsHonest == said = "completed" => ~csOff

(* A buffer xectl announces exists, and has at least the size printed with *)
(* it and less than a page more: the driver's conversion and clamp leave   *)
(* the tool's value alone.                                                 *)
ToolGetsWhatItPrints ==
  said = "created" =>
    /\ out = <<Cookie>>
    /\ bytes <= sz /\ sz < bytes + Page

(* "Requesting a NOOP submission (`kMethodSubmit`), which is currently a   *)
(* stub returning `kIOReturnNotReady` from the command stream"             *)
(* (docs/STATUS.md:10): no submission succeeds.                            *)
SubmitIsStub == at = "reply" /\ selector = kMethodSubmit => kr # "Success"

(* The steps a program has left to make at most, in the kernel and out.    *)
ProgramLeft ==
  LET inKernel == CASE at = "trap"    -> 3
                    [] at = "handler" -> 2
                    [] at = "service" -> 1
                    [] OTHER          -> 0
  IN  CASE tpc = "open"    -> 11
        [] tpc = "run"     -> 10
        [] tpc = "result"  -> 6 + inKernel
        [] tpc = "waiting" -> 2 + inKernel
        [] tpc = "close"   -> 1
        [] OTHER           -> 0

(* A program never goes back: each step brings it nearer to its end, no    *)
(* error path retries, and at the end the connection is closed.            *)
ProgramsRunDown ==
  [][/\ tpc # "shell" => ProgramLeft' < ProgramLeft
     /\ tpc' = "shell" => ~conn']_xectlVars

(* Every program that is started comes to its end, on every error path,    *)
(* and leaves no connection behind.                                        *)
ProgramsEndClosed == tpc # "shell" ~> tpc = "shell" /\ ~conn

=============================================================================
