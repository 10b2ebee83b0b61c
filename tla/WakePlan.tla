------------------------------ MODULE WakePlan ------------------------------
(***************************************************************************)
(* A display that sleeps as long as the Hub tells it, and the plan of its  *)
(* next wake that the Hub keeps, saves and derives availability from.      *)
(*                                                                         *)
(* Time moves from event to event.  A check-in is planned at the instant   *)
(* it is processed, saved, and answered; the display sleeps from the       *)
(* moment it has the response.  It wakes early or late by a drift, takes   *)
(* the response with a latency, and after a failure sleeps 300 seconds.    *)
(* The lock of the store is CheckIn's subject: here a save is one write of *)
(* the whole record.  The display has one request at a time.               *)
(***************************************************************************)
EXTENDS Scheduling

CONSTANTS
    Zones,             \* time zones, each with one transition
    StoredSchedules,   \* wake schedules in the file, some of them damaged
    ChosenSchedules,   \* those the reconfigure flow may be given
    Corrections,       \* wake corrections a user may enter, in seconds
    Intervals,         \* suspended intervals a user may enter, in minutes
    Drifts,            \* how late (or early) a display wakes, in seconds
    Latencies,         \* from planning to the response, in seconds
    Start, Horizon,    \* the display wakes from Start on and until Horizon
    MaxChanges,        \* bound on the changes a user makes
    MaxFailures        \* bound on failed check-ins and restarts

Tolerance == 120       \* AVAILABILITY_TOLERANCE
RetrySeconds == 300    \* the firmware's failure interval

\* What the firmware and the network must keep to: no wake is further than
\* half of the shortest cycle from its boundary, nor later than the tolerance.
ASSUME DriftAssumption ==
    /\ Drifts \subseteq Int /\ Latencies \subseteq Nat
    /\ \A drift \in Drifts, latency \in Latencies :
         drift + latency <= Tolerance
    /\ \A drift \in Drifts, latency \in Latencies, entered \in Corrections :
         drift + latency + NormalizeWakeTimeCorrection(entered) \in -149..149

\* Offsets are whole multiples of five minutes: those in use are of fifteen.
ASSUME ZoneAssumption ==
    \A z \in Zones : /\ {z.at, z.before, z.after} \subseteq Int
                     /\ z.before % 5 = 0 /\ z.after % 5 = 0

ASSUME StartAssumption == Start \in Int

VARIABLES
    now,       \* seconds
    zone,
    rec,       \* the record's settings and plan, in memory
    disk,      \* the same in the storage file
    exchange,  \* the check-in the Hub is executing
    device,    \* the display
    changes, failures

bounds == <<changes, failures>>
vars == <<now, zone, rec, disk, exchange, device, bounds>>

NoPlan == [at |-> 0, sleep |-> 0, boundary |-> 0, schedule |-> <<>>,
           suspended |-> FALSE]

NoExchange == [pc |-> "none", plan |-> NoPlan]

\* from_dict: a loaded record is normalized.
FromStorage(stored) ==
    [stored EXCEPT
       !.schedule = NormalizeWakeSchedule(@),
       !.correction = NormalizeWakeTimeCorrection(@),
       !.interval = NormalizeSuspendedRefreshInterval(@)]

Init ==
    /\ now = Start /\ zone \in Zones
    /\ \E schedule \in StoredSchedules, correction \in Corrections :
         disk = [schedule |-> schedule, correction |-> correction,
                 interval |-> DefaultSuspendedInterval, suspended |-> FALSE,
                 next |-> 0]
    /\ rec = FromStorage(disk)
    /\ exchange = NoExchange
    /\ device = [awake |-> FALSE, wakes |-> Start, plan |-> NoPlan]
    /\ changes = 0 /\ failures = 0

(***************************************************************************)
(* The display.                                                            *)
(***************************************************************************)
\* It wakes, and its request is at the Hub.
Wake(drift) ==
    /\ ~device.awake /\ device.wakes <= Horizon
    /\ now' = device.wakes + drift
    /\ device' = [device EXCEPT !.awake = TRUE]
    /\ UNCHANGED <<zone, rec, disk, exchange, bounds>>

Retry == [awake |-> FALSE, wakes |-> now + RetrySeconds, plan |-> NoPlan]

\* The request or its response is lost, or the display gives up.
Fail ==
    /\ device.awake /\ failures < MaxFailures
    /\ failures' = failures + 1
    /\ device' = Retry
    /\ exchange' = NoExchange
    /\ UNCHANGED <<now, zone, rec, disk, changes>>

(***************************************************************************)
(* HubCoordinator.async_process_checkin: plan, save, answer.               *)
(***************************************************************************)
Process ==
    LET wakes == IF rec.suspended
                 THEN SuspendedRefreshNextWake(now, rec.interval,
                                               rec.correction)
                 ELSE NextWake(now, zone, rec.schedule, rec.correction)
    IN  /\ device.awake /\ exchange.pc = "none"
        /\ rec' = [rec EXCEPT !.next = wakes]
        /\ exchange' =
             [pc |-> "saving",
              plan |-> [at |-> now, sleep |-> wakes - now,
                        boundary |-> (wakes - rec.correction) \div 60,
                        schedule |-> rec.schedule,
                        suspended |-> rec.suspended]]
        /\ UNCHANGED <<now, zone, disk, device, bounds>>

Write ==
    /\ disk # rec \/ exchange.pc = "saving"
    /\ disk' = rec
    /\ exchange' = [exchange EXCEPT !.pc = IF @ = "saving" THEN "saved" ELSE @]
    /\ UNCHANGED <<now, zone, rec, device, bounds>>

\* Mutant of Answer: the response does not wait for the save.
AnswerUnsaved(latency) ==
    /\ exchange.pc \in {"saving", "saved"}
    /\ now' = now + latency
    /\ device' = [awake |-> FALSE, wakes |-> now' + exchange.plan.sleep,
                  plan |-> exchange.plan]
    /\ exchange' = NoExchange
    /\ UNCHANGED <<zone, rec, disk, bounds>>

Answer(latency) ==
    /\ exchange.pc = "saved"
    /\ now' = now + latency
    /\ device' = [awake |-> FALSE, wakes |-> now' + exchange.plan.sleep,
                  plan |-> exchange.plan]
    /\ exchange' = NoExchange
    /\ UNCHANGED <<zone, rec, disk, bounds>>

(***************************************************************************)
(* The user's settings and restarts.                                       *)
(***************************************************************************)
Change(updated) ==
    /\ changes < MaxChanges /\ updated # rec
    /\ changes' = changes + 1
    /\ rec' = updated
    /\ UNCHANGED <<now, zone, disk, exchange, device, failures>>

SetSuspended ==
    \E value \in BOOLEAN : Change([rec EXCEPT !.suspended = value])

SetSuspendedInterval ==
    \E value \in Intervals :
      Change([rec EXCEPT !.interval =
                NormalizeSuspendedRefreshInterval(value)])

Reconfigure ==
    \E schedule \in ChosenSchedules, correction \in Corrections :
      Change([rec EXCEPT !.schedule = NormalizeWakeSchedule(schedule),
                         !.correction =
                           NormalizeWakeTimeCorrection(correction)])

\* Only the disk survives; a display that waits for its response fails.
Restart ==
    /\ failures < MaxFailures
    /\ failures' = failures + 1
    /\ rec' = FromStorage(disk)
    /\ exchange' = NoExchange
    /\ device' = IF device.awake THEN Retry ELSE device
    /\ UNCHANGED <<now, zone, disk, changes>>

Next ==
    \/ \E drift \in Drifts : Wake(drift)
    \/ Fail \/ Process \/ Write
    \/ \E latency \in Latencies : Answer(latency)
    \/ SetSuspended \/ SetSuspendedInterval \/ Reconfigure \/ Restart

Spec == Init /\ [][Next]_vars

-----------------------------------------------------------------------------
(***************************************************************************)
(* Properties.                                                             *)
(***************************************************************************)
Boundary(minute, schedule) == IsBoundary(minute, zone, schedule)

\* The boundary that follows another one.
FollowingBoundary(minute, schedule) ==
    CHOOSE next \in (minute + 1)..(minute + SearchMinutes) :
      /\ Boundary(next, schedule)
      /\ \A between \in (minute + 1)..(next - 1) : ~Boundary(between, schedule)

\* PROTOCOL.md, "A check-in in the first half of that cycle keeps the
\* upcoming boundary.  A check-in at or after the halfway point treats that
\* boundary as already served and advances to the following valid boundary":
\* across hours of different intervals and skipped and repeated local hours.
HalfOfTheRealCycle ==
    LET plan == exchange.plan
        previous == PreviousBoundary(plan.at \div 60, zone, plan.schedule)
        upcoming == FollowingBoundary(previous, plan.schedule)
    IN  exchange.pc # "none" /\ ~plan.suspended =>
          plan.boundary =
            IF 2 * (plan.at - 60 * previous) < 60 * (upcoming - previous)
            THEN upcoming ELSE FollowingBoundary(upcoming, plan.schedule)

\* PROTOCOL.md, "This prevents clock drift from causing another display
\* refresh a few seconds later": no display is sent to sleep for less than
\* half of the shortest cycle and the largest correction, 90 seconds.
NoSecondRefresh == exchange.pc # "none" => exchange.plan.sleep > 90

\* A sleeping display that has its plan is shown as available until it wakes,
\* however late within its drift, also when Home Assistant restarted or the
\* user changed the settings in between.
AvailableUntilItWakes ==
    ~device.awake /\ device.plan # NoPlan =>
      \A drift \in Drifts : device.wakes + drift <= rec.next + Tolerance

\* PROTOCOL.md, "the correction never accumulates from cycle to cycle": a
\* display that wakes on its plan, early or late, is given the boundary
\* that follows the one it woke for.  It skips none and serves none twice.
BoundariesInOrder ==
    [][ LET old == device.plan
            new == exchange'.plan
        IN  /\ exchange.pc = "none" /\ exchange'.pc = "saving"
            /\ old # NoPlan /\ ~old.suspended /\ ~new.suspended
            /\ old.schedule = new.schedule
            => new.boundary = FollowingBoundary(old.boundary, old.schedule)
      ]_vars
=============================================================================
