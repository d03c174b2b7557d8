---------------------------- MODULE XeServiceAPI ----------------------------
(***************************************************************************)
(* What the kext promises to user space: a service that is published once, *)
(* connections to it, and calls on them.  The service does not go away     *)
(* under a connection, a connection does not go away under a call, and a   *)
(* call gets one of the answers of its method, whatever else goes on.      *)
(***************************************************************************)
EXTENDS XeMethods

CONSTANTS Threads, Clients, NoClient, Methods

VARIABLES
  service,              \* "absent", "published", "withdrawn", "retired"
  csOff,                \* the command stream is turned off
  conn,                 \* the connections that exist
  call, on,             \* per thread: the method it runs, and on which one
  answer                \* what the last call that was answered got

apiVars == <<service, csOff, conn, call, on, answer>>

APIInit ==
  /\ service = "absent" /\ csOff = FALSE /\ conn = {}
  /\ call = [t \in Threads |-> "none"]
  /\ on = [t \in Threads |-> NoClient]
  /\ answer = "none"

(* The boot flags are settled before anybody can call.                     *)
Configure ==
  /\ service = "absent" /\ csOff' \in BOOLEAN
  /\ UNCHANGED <<service, conn, call, on, answer>>

Publish ==
  /\ service = "absent" /\ service' = "published"
  /\ UNCHANGED <<csOff, conn, call, on, answer>>

(* No new connections from now on; those that exist go on working.         *)
Withdraw ==
  /\ service = "published" /\ service' = "withdrawn"
  /\ UNCHANGED <<csOff, conn, call, on, answer>>

Retire ==
  /\ service = "withdrawn" /\ conn = {} /\ service' = "retired"
  /\ UNCHANGED <<csOff, conn, call, on, answer>>

Connect(c) ==
  /\ service = "published" /\ c \notin conn
  /\ conn' = conn \cup {c}
  /\ UNCHANGED <<service, csOff, call, on, answer>>

Disconnect(c) ==
  /\ c \in conn /\ \A t \in Threads : on[t] # c
  /\ conn' = conn \ {c}
  /\ UNCHANGED <<service, csOff, call, on, answer>>

Begin(t, c, m) ==
  /\ call[t] = "none" /\ c \in conn
  /\ call' = [call EXCEPT ![t] = m]
  /\ on' = [on EXCEPT ![t] = c]
  /\ UNCHANGED <<service, csOff, conn, answer>>

Answer(t, r) ==
  /\ call[t] # "none" /\ r \in Answers(call[t], csOff)
  /\ call' = [call EXCEPT ![t] = "none"]
  /\ on' = [on EXCEPT ![t] = NoClient]
  /\ answer' = r
  /\ UNCHANGED <<service, csOff, conn>>

APINext ==
  \/ Configure \/ Publish \/ Withdraw \/ Retire
  \/ \E c \in Clients : Connect(c) \/ Disconnect(c)
  \/ \E t \in Threads, c \in Clients, m \in Methods : Begin(t, c, m)
  \/ \E t \in Threads, r \in Results : Answer(t, r)

APISpec == APIInit /\ [][APINext]_apiVars

=============================================================================
