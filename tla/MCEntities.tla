----------------------------- MODULE MCEntities -----------------------------
(* A small instance of Entities: displays and capabilities are model values. *)
EXTENDS Entities
=============================================================================
