------------------------------ MODULE Delivery ------------------------------
(***************************************************************************)
(* What the ingestion path promises, without saying how: at-least-once     *)
(* delivery with a parking lot.  An accepted batch is owed until it has    *)
(* been stored or parked in failed_ingest, and a parked one is resolved    *)
(* only once it has been stored.  IngestPipeline implements this.          *)
(***************************************************************************)
CONSTANT Batches

VARIABLES
  accepted,   \* batches the Writer has answered 204
  owed,       \* batches some stream entry still has to deliver
  persisted,  \* batches stored at least once
  parked      \* batches with an unresolved failed_ingest row

vars == <<accepted, owed, persisted, parked>>

Init == accepted = {} /\ owed = {} /\ persisted = {} /\ parked = {}

Accept(b) ==
  /\ accepted' = accepted \cup {b}
  /\ owed' = owed \cup {b}
  /\ UNCHANGED <<persisted, parked>>

\* The stream took the batch but the client was told that it failed.
AcceptUnanswered(b) ==
  /\ owed' = owed \cup {b}
  /\ UNCHANGED <<accepted, persisted, parked>>

Store(b) ==
  /\ b \in owed \cup parked
  /\ persisted' = persisted \cup {b}
  /\ UNCHANGED <<accepted, owed, parked>>

Park(b) ==
  /\ b \in owed
  /\ parked' = parked \cup {b}
  /\ UNCHANGED <<accepted, owed, persisted>>

Settle(b) ==
  /\ b \in owed \cap (persisted \cup parked)
  /\ owed' = owed \ {b}
  /\ UNCHANGED <<accepted, persisted, parked>>

Resolve(b) ==
  /\ b \in parked \cap persisted
  /\ parked' = parked \ {b}
  /\ UNCHANGED <<accepted, owed, persisted>>

Next == \E b \in Batches :
  \/ Accept(b) \/ AcceptUnanswered(b) \/ Store(b)
  \/ Park(b) \/ Settle(b) \/ Resolve(b)

Spec == Init /\ [][Next]_vars

\* Every accepted batch is owed, stored or parked.
NothingLost == accepted \subseteq owed \cup persisted \cup parked
=============================================================================
