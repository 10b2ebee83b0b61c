--------------------------- MODULE MCReplayGuard ---------------------------
(* A small instance of ReplayGuard: handlers are model values. *)
EXTENDS ReplayGuard, TLC

CONSTANTS h1, h2

\* Only call is indexed by handlers, and no action singles one out.
HandlerSymmetry == Permutations(Handlers)
=============================================================================
