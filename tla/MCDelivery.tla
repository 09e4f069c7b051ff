----------------------------- MODULE MCDelivery -----------------------------
(* Instances of Delivery for TLC. *)
EXTENDS Delivery, TLC

\* Handlers are interchangeable; used by the safety run only.
HandlerSymmetry == Permutations(Handlers)

=============================================================================
