------------------------- MODULE TaskQueueRefinement -------------------------
(***************************************************************************)
(* TaskQueue implements AtLeastOnceQueue.  A task is held while a record   *)
(* of it is stored, in whichever column family and under however many      *)
(* keys; it was delivered once a dequeue committed, acknowledged once an   *)
(* ack counted it.                                                         *)
(***************************************************************************)
EXTENDS TaskQueue

Contract ==
  INSTANCE AtLeastOnceQueue WITH
    held <- IdsOf(db),
    delivered <- {i \in Ids : deliveries[i] > 0},
    acked <- {i \in Ids : tally[i] > 0}

\* Every interleaving of the real operations looks to the clients like a
\* history of the at-least-once queue: no commit of any of them makes a task
\* disappear that it does not settle, brings one back that was not settled,
\* delivers one that is not stored or acknowledges one nobody was given.
ImplementsContract == Contract!Spec
=============================================================================
