---------------------------- MODULE MCLifecycle ----------------------------
(***************************************************************************)
(* Small instances of Lifecycle.  Displays, flows and terms are model      *)
(* values given in the .cfg files.                                         *)
(***************************************************************************)
EXTENDS Lifecycle, TLC

\* Displays, flows, terms and handlers are interchangeable.
Symmetry == Permutations(Displays) \cup Permutations(Flows) \cup
            Permutations(Terms) \cup Permutations(Handlers)
=============================================================================
