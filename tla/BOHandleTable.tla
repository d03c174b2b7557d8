--------------------------- MODULE BOHandleTable ---------------------------
(***************************************************************************)
(* What the buffer registry promises to user space (README.md, "BO         *)
(* registry"): a table of buffers that only grows while it is open, and    *)
(* handles that index into it.  A handle given out names the buffer it was *)
(* given out for until the table closes.                                   *)
(***************************************************************************)
EXTENDS Naturals, Sequences

CONSTANT BOs

VARIABLES
  open,                 \* the table exists
  table,                \* the buffers, in the order they were published
  handles               \* <<handle, buffer>> pairs given to user space

tableVars == <<open, table, handles>>

TableInit == open = FALSE /\ table = << >> /\ handles = {}

Open ==
  /\ ~open /\ open' = TRUE
  /\ UNCHANGED <<table, handles>>

Publish(b) ==
  /\ open
  /\ \A i \in DOMAIN table : table[i] # b
  /\ table' = Append(table, b)
  /\ UNCHANGED <<open, handles>>

HandOut(k) ==
  /\ open
  /\ handles' = handles \cup {<<k, table[k]>>}
  /\ UNCHANGED <<open, table>>

Close ==
  /\ open /\ open' = FALSE
  /\ table' = << >> /\ handles' = {}

TableNext ==
  \/ Open \/ Close
  \/ \E b \in BOs : Publish(b)
  \/ \E k \in DOMAIN table : HandOut(k)

TableSpec == TableInit /\ [][TableNext]_tableVars

=============================================================================
