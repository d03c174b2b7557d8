----------------------------- MODULE XeMethods -----------------------------
(***************************************************************************)
(* The external methods of kexts/XeService.hpp by the names of their       *)
(* selectors, and the results user space can get from each of them.        *)
(***************************************************************************)

ReadMethods == {"ReadRegs", "GetGTConfig", "GetDisplayInfo"}
AllMethods == ReadMethods \cup {"CreateBuffer", "Submit", "Wait"}

Results == {"none", "Success", "NotReady", "NoResources", "NoMemory"}

(* What method m may answer on a connection that is open; csOff says that  *)
(* a boot flag has turned the command stream off.  The tests of mmio and   *)
(* m_boList are not among the reasons to fail.                             *)
Answers(m, csOff) ==
  CASE m = "CreateBuffer" -> {"Success", "NoResources"}
    [] m = "Submit"       -> IF csOff THEN {"NotReady", "NoResources"}
                                      ELSE {"Success", "NoResources", "NoMemory"}
    [] OTHER              -> {"Success"}

=============================================================================
