------------------------------ MODULE Delivery ------------------------------
(***************************************************************************)
(* What the outbox promises, without batches, retries or restarts: a       *)
(* record made on the device is held until the server has stored it, is    *)
(* closed only then, and is deleted from the device only after that.       *)
(***************************************************************************)
CONSTANT Records        \* the records the device may ever make

VARIABLES
  device,               \* what the device knows of each record
  server                \* the records the server has stored

dvars == <<device, server>>

Knowledge == {"none", "held", "closed", "deleted"}

DeliveryTypeOK ==
  /\ device \in [Records -> Knowledge]
  /\ server \in SUBSET Records

DeliveryInit ==
  /\ device = [r \in Records |-> "none"]
  /\ server = {}

Update(S, k) == device' = [r \in Records |-> IF r \in S THEN k ELSE device[r]]

\* The device makes a record.
Make(r) ==
  /\ device[r] = "none"
  /\ Update({r}, "held")
  /\ UNCHANGED server

\* The server stores records the device holds, maybe again.
Store(S) ==
  /\ \A r \in S : device[r] = "held"
  /\ server' = server \cup S
  /\ UNCHANGED device

\* The device learns that the server has stored them.
Close(S) ==
  /\ \A r \in S : device[r] = "held" /\ r \in server
  /\ Update(S, "closed")
  /\ UNCHANGED server

\* The device deletes records it has closed.
Delete(S) ==
  /\ \A r \in S : device[r] = "closed"
  /\ Update(S, "deleted")
  /\ UNCHANGED server

DeliveryNext ==
  \/ \E r \in Records : Make(r)
  \/ \E S \in SUBSET Records : Store(S) \/ Close(S) \/ Delete(S)

DeliverySpec == DeliveryInit /\ [][DeliveryNext]_dvars
=============================================================================
