----------------------------- MODULE Scheduling -----------------------------
(***************************************************************************)
(* scheduling.py: when a sleeping display is to wake next.                 *)
(*                                                                         *)
(* Instants are seconds of the UTC timeline and boundaries are minutes of  *)
(* it.  A zone has one transition: at the minute zone.at its offset        *)
(* changes from zone.before to zone.after, which skips or repeats local    *)
(* time.  A loop that steps from minute to minute and breaks is the first  *)
(* minute that satisfies its condition.  earlier_override is left out: the *)
(* Hub never passes it.                                                    *)
(***************************************************************************)
EXTENDS Integers

IntervalOptions == {5, 10, 15, 20, 30, 60}
DefaultInterval == 30
DefaultSuspendedInterval == 60
SearchMinutes == 3 * 24 * 60

Hours == 0..23

\* raw is a mapping whose hours and values may be anything.
NormalizeWakeSchedule(raw) ==
    [hour \in Hours |->
       IF hour \in DOMAIN raw /\ raw[hour] \in IntervalOptions
       THEN raw[hour] ELSE DefaultInterval]

NormalizeWakeTimeCorrection(raw) == IF raw \in -60..60 THEN raw ELSE 0

NormalizeSuspendedRefreshInterval(raw) ==
    IF raw \in 5..300 THEN raw ELSE DefaultSuspendedInterval

LocalMinute(minute, zone) ==
    minute + (IF minute < zone.at THEN zone.before ELSE zone.after)

IsBoundary(minute, zone, schedule) ==
    LET local == LocalMinute(minute, zone)
    IN  (local % 60) % schedule[(local \div 60) % 24] = 0

\* The boundary at or before a minute.
PreviousBoundary(minute, zone, schedule) ==
    LET Hit(back) == IsBoundary(minute - back, zone, schedule)
    IN  minute - (CHOOSE back \in 0..SearchMinutes :
                    Hit(back) /\ \A less \in 0..(back - 1) : ~Hit(less))

\* Mutant of ScheduledBoundary: the first boundary ahead, however near.
NearestBoundary(now, zone, schedule) ==
    LET first == (now \div 60) + 1
        Found(minute) == IsBoundary(minute, zone, schedule)
    IN  CHOOSE minute \in first..(first + SearchMinutes) :
          Found(minute) /\ \A earlier \in first..(minute - 1) : ~Found(earlier)

\* Mutant of ScheduledBoundary: the half is that of the current hour's
\* interval, not of the real gap.
HalfIntervalBoundary(now, zone, schedule) ==
    LET first == (now \div 60) + 1
        hour == (LocalMinute(now \div 60, zone) \div 60) % 24
        Found(minute) ==
            /\ IsBoundary(minute, zone, schedule)
            /\ 2 * (60 * minute - now) > 60 * schedule[hour]
    IN  CHOOSE minute \in first..(first + SearchMinutes) :
          Found(minute) /\ \A earlier \in first..(minute - 1) : ~Found(earlier)

\* Mutant of ScheduledBoundary: a skipped boundary does not begin a cycle.
FirstCycleBoundary(now, zone, schedule) ==
    LET first == (now \div 60) + 1
        previous == PreviousBoundary(first - 1, zone, schedule)
        Found(minute) ==
            /\ IsBoundary(minute, zone, schedule)
            /\ 2 * (60 * minute - now) > 60 * (minute - previous)
    IN  CHOOSE minute \in first..(first + SearchMinutes) :
          Found(minute) /\ \A earlier \in first..(minute - 1) : ~Found(earlier)

\* The first boundary ahead that is more than half of its cycle away: one
\* that is nearer counts as served by this check-in.
ScheduledBoundary(now, zone, schedule) ==
    LET first == (now \div 60) + 1
        Found(minute) ==
            /\ IsBoundary(minute, zone, schedule)
            /\ 2 * (60 * minute - now) >
                 60 * (minute - PreviousBoundary(minute - 1, zone, schedule))
    IN  CHOOSE minute \in first..(first + SearchMinutes) :
          Found(minute) /\ \A earlier \in first..(minute - 1) : ~Found(earlier)

NextWake(now, zone, schedule, correction) ==
    60 * ScheduledBoundary(now, zone, NormalizeWakeSchedule(schedule))
      + NormalizeWakeTimeCorrection(correction)

SuspendedRefreshNextWake(now, interval, correction) ==
    now + 60 * NormalizeSuspendedRefreshInterval(interval)
      + NormalizeWakeTimeCorrection(correction)
=============================================================================
