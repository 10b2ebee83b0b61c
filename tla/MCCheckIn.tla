----------------------------- MODULE MCCheckIn -----------------------------
(***************************************************************************)
(* Small instances of CheckIn.  Handlers, schedules and contents are model *)
(* values given in the .cfg files.                                         *)
(***************************************************************************)
EXTENDS CheckInRefinement, TLC

CONSTANTS h1, h2

\* A daily OTA check that falls due at the last time of the day.
LatestOnly == {LastTime}

\* Bounds check_in_automatic: the reconfigure flow runs before the display's
\* first check-in only, and has replaced a check time that is never due by
\* then.
EditedBeforeCheckIns ==
    flow.pc # "idle" \/ rec.ota_check_time > LastTime => device.requests = 0

\* Handlers are interchangeable: wait and call are indexed by them and no
\* action singles one out.
HandlerSymmetry == Permutations(Handlers)
=============================================================================
