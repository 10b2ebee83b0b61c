-------------------------- MODULE RevisionRegister --------------------------
(***************************************************************************)
(* What the Hub promises a display about its configuration: a register     *)
(* that the user writes, that a crash of the Hub may take back, but never  *)
(* behind what the display has, and that the display only reads forward.   *)
(***************************************************************************)
EXTENDS Naturals

CONSTANT Values

VARIABLES
    desired,  \* the register: a revision and its values
    active    \* the revision and the values the display has

vars == <<desired, active>>

Settings == [revision : Nat, values : Values]

\* b may take the place of a: it is newer or the same.
Follows(b, a) == b.revision > a.revision \/ b = a

Init ==
    /\ desired \in Settings /\ active \in Settings
    /\ active.revision < desired.revision

Write(new) ==
    /\ new.revision = desired.revision + 1
    /\ desired' = new
    /\ UNCHANGED active

\* A change that was not saved is lost, unless the display has it.
Lose(old) ==
    /\ old.revision < desired.revision /\ Follows(old, active)
    /\ desired' = old
    /\ UNCHANGED active

\* The display may miss revisions and need not have the newest.
Read(new) ==
    /\ Follows(new, active) /\ Follows(desired, new)
    /\ active' = new
    /\ UNCHANGED desired

\* [revision, values] range over what the variables may become.
Next ==
    \E revision \in 0..(desired.revision + 1), values \in Values :
      LET settings == [revision |-> revision, values |-> values]
      IN  Write(settings) \/ Lose(settings) \/ Read(settings)

Spec == Init /\ [][Next]_vars
=============================================================================
