----------------------------- MODULE MCWakePlan -----------------------------
(***************************************************************************)
(* A small instance of WakePlan: the hours 22 to 1 of one night, with the  *)
(* transition of the time zone in the middle of it.                        *)
(***************************************************************************)
EXTENDS WakePlan

\* Minute 1440 is midnight UTC; zones without an offset before it.
Fixed == [at |-> 1440, before |-> 0, after |-> 0]
Skipped == [at |-> 1380, before |-> 0, after |-> 60]
Repeated == [at |-> 1440, before |-> 0, after |-> -60]
HalfSkipped == [at |-> 1440, before |-> 0, after |-> 30]
HalfRepeated == [at |-> 1380, before |-> 0, after |-> -30]

SomeZones == {Fixed, Skipped, Repeated, HalfSkipped, HalfRepeated}

Night(late, midnight, early) ==
    [hour \in Hours |-> CASE hour = 23 -> late [] hour = 0 -> midnight
                          [] hour = 1 -> early [] OTHER -> 60]

Mixed == Night(20, 5, 30)
Sparse == Night(60, 15, 60)

\* An hour that is missing and one with an interval that is not offered.
Damaged == [hour \in {22, 23, 0} |-> IF hour = 22 THEN 7 ELSE 15]

StoredOnes == {Mixed, Damaged}
ChosenOnes == {Sparse}
SomeCorrections == {-60, 60}
SomeDrifts == {-110, 50}
=============================================================================
