----------------------------- MODULE XeThreads -----------------------------
(***************************************************************************)
(* The kernel threads on which external methods of XeUserClient run.  The  *)
(* kext serialises nothing (no IOLock, command gate or work loop), so each *)
(* thread that user space brings into the kernel runs its method at once.  *)
(***************************************************************************)

CONSTANT Threads

(* User space that issues one call at a time, as userspace/xectl.c does.   *)
SoleCaller == \A t, u \in Threads : t = u

=============================================================================
