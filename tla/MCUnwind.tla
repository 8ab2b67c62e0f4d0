------------------------------ MODULE MCUnwind ------------------------------
(* Instances of Unwind. *)
EXTENDS Unwind

=============================================================================
