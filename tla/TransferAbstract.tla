-------------------------- MODULE TransferAbstract --------------------------
(***************************************************************************)
(* What a transfer run promises its caller, independent of batching.       *)
(*                                                                         *)
(* Messages are read from the source stream in order.  A message that has *)
(* been read is pending until it is resolved, and it is resolved at most   *)
(* once, to imported or failed.  Once the run is cancelled no further      *)
(* message is read; messages already read may stay pending.                *)
(***************************************************************************)
EXTENDS Naturals

CONSTANTS
  Msgs          \* the message identifiers, in stream order 1..N

VARIABLES
  read,         \* number of messages taken from the stream
  status,       \* status[m]: "unread", "pending", "imported" or "failed"
  cancelled     \* the run's stop flag

vars == <<read, status, cancelled>>

Terminal == {"imported", "failed"}

Init ==
  /\ read = 0
  /\ status = [m \in Msgs |-> "unread"]
  /\ cancelled = FALSE

\* The next message is read; it may be resolved in the same step.
Read ==
  /\ ~cancelled
  /\ read + 1 \in Msgs
  /\ read' = read + 1
  /\ \E s \in {"pending"} \cup Terminal :
       status' = [status EXCEPT ![read + 1] = s]
  /\ UNCHANGED cancelled

\* Any set of pending messages is resolved at once, each to one outcome.
Resolve ==
  \E S \in SUBSET {m \in Msgs : status[m] = "pending"} :
    /\ S # {}
    /\ \E r \in [S -> Terminal] :
         status' = [m \in Msgs |-> IF m \in S THEN r[m] ELSE status[m]]
    /\ UNCHANGED <<read, cancelled>>

Cancel ==
  /\ ~cancelled
  /\ cancelled' = TRUE
  /\ UNCHANGED <<read, status>>

Next == Read \/ Resolve \/ Cancel

Spec == Init /\ [][Next]_vars
=============================================================================
