------------------------------ MODULE MCOutbox ------------------------------
(* Outbox on small instances, and its refinement of Delivery. *)
EXTENDS Outbox
=============================================================================
