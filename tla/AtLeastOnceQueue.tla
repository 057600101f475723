--------------------------- MODULE AtLeastOnceQueue ---------------------------
(***************************************************************************)
(* What the task store promises its clients, with no keys, locks, column   *)
(* families or write batches.  A task that was accepted is held until it   *)
(* is settled: acknowledged, or discarded by an eviction, a purge or an    *)
(* expiry.  Only accepted tasks are delivered and only delivered tasks are *)
(* acknowledged.  A settled task may come back, because a nack, a reap, a  *)
(* replay or a delivery that read it before it was settled writes it       *)
(* again: delivery is at least once, never at most once.                   *)
(***************************************************************************)
CONSTANT Ids

VARIABLES
  accepted,       \* tasks whose enqueue was answered
  held,           \* tasks the store has in some column family
  delivered,      \* tasks a consumer has been given
  acked,          \* tasks an acknowledgement was counted for
  settled         \* tasks acknowledged or discarded

vars == <<accepted, held, delivered, acked, settled>>

Init ==
  /\ accepted = {}
  /\ held = {}
  /\ delivered = {}
  /\ acked = {}
  /\ settled = {}

\* The store keeps what it holds, and may take back what was settled.
Kept == held \subseteq held' /\ held' \subseteq held \cup settled

\* Of what the store holds, only tasks of S may go.
Dropped(S) == held \ S \subseteq held' /\ held' \subseteq held

\* The answer to an enqueue: every task is new, and stored.
Accept(S) ==
  /\ S # {}
  /\ S \cap accepted = {}
  /\ accepted' = accepted \cup S
  /\ held' = held \cup S
  /\ UNCHANGED <<delivered, acked, settled>>

\* The answer to a dequeue: every task handed out is held.
Deliver(S) ==
  /\ Kept
  /\ S \subseteq held'
  /\ delivered' = delivered \cup S
  /\ UNCHANGED <<accepted, acked, settled>>

\* The answer to an ack that counted the tasks S.
Acknowledge(S) ==
  /\ S \subseteq delivered
  /\ acked' = acked \cup S
  /\ settled' = settled \cup S
  /\ Dropped(S)
  /\ UNCHANGED <<accepted, delivered>>

\* An eviction, a purge or an expiry.
Discard(S) ==
  /\ S \subseteq accepted
  /\ settled' = settled \cup S
  /\ Dropped(S)
  /\ UNCHANGED <<accepted, delivered, acked>>

Next ==
  \E S \in SUBSET Ids : Accept(S) \/ Deliver(S) \/ Acknowledge(S) \/ Discard(S)

Spec == Init /\ [][Next]_vars
=============================================================================
