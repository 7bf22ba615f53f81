----------------------------- MODULE ReportFifo -----------------------------
(***************************************************************************)
(* What a report queue of usbd_hid.c promises to its two users: a bounded  *)
(* queue.  A report joins at the back while there is room, the oldest one  *)
(* leaves at the front, and nothing else changes it.                       *)
(***************************************************************************)
EXTENDS Integers, Sequences

CONSTANTS
  Report,  \* what the queue may hold
  Room     \* how many, a natural number

VARIABLE queue

Put(r) == Len(queue) < Room /\ queue' = Append(queue, r)

Take == queue # <<>> /\ queue' = Tail(queue)

Fifo == queue = <<>> /\ [][Take \/ \E r \in Report : Put(r)]_queue

=============================================================================
