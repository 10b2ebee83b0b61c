---------------------------- MODULE CommandQueue ----------------------------
(***************************************************************************)
(* What the Hub promises a display about one-time commands, whatever       *)
(* handlers, writes, restarts and lost messages are behind it.             *)
(*                                                                         *)
(* A command is stored; a stored command may be returned any number of     *)
(* times; it leaves the storage only after the display acknowledged it and *)
(* for good; and only when it has left is the acknowledgement confirmed,   *)
(* after which the display may forget the id and never sees it again.      *)
(***************************************************************************)
CONSTANT Commands

VARIABLES
    stored,        \* what survives a restart of the Hub
    held,          \* received and not yet confirmed
    acknowledged,  \* what the display has acknowledged, heard or not
    confirmed      \* what the display may forget

vars == <<stored, held, acknowledged, confirmed>>

Init == stored = {} /\ held = {} /\ acknowledged = {} /\ confirmed = {}

\* One write may bring in new commands and drop acknowledged ones.
Store(new) ==
    /\ stored \ new \subseteq acknowledged
    /\ (new \ stored) \cap (held \cup acknowledged \cup confirmed) = {}
    /\ stored' = new
    /\ UNCHANGED <<held, acknowledged, confirmed>>

Acknowledge(ids) ==
    /\ ids \subseteq held
    /\ acknowledged' = acknowledged \cup ids
    /\ UNCHANGED <<stored, held, confirmed>>

\* A response returns some commands and confirms some acknowledgements.
Exchange(returned, confirms) ==
    /\ returned \ held \subseteq stored
    /\ confirms \subseteq acknowledged \ stored
    /\ returned \cap (confirmed \cup confirms) = {}
    /\ held' = (held \ confirms) \cup returned
    /\ confirmed' = confirmed \cup confirms
    /\ UNCHANGED <<stored, acknowledged>>

Next ==
    \/ \E ids \in SUBSET Commands : Store(ids) \/ Acknowledge(ids)
    \/ \E returned, confirms \in SUBSET Commands : Exchange(returned, confirms)

Spec == Init /\ [][Next]_vars
=============================================================================
