---------------------------- MODULE DeviceRecord ----------------------------
(***************************************************************************)
(* The durable record the Hub keeps for one paired display, and the        *)
(* methods of class DeviceRecord (models.py) that change it.  Each method  *)
(* is an operator from the record before the call to the record after it;  *)
(* the boolean a method returns ("did anything change") is the comparison  *)
(* of the two.                                                             *)
(*                                                                         *)
(* The data is cut down to what the check-in protocol tells apart.  Of the *)
(* desired configuration two keys are kept: suspend_display_refresh, which *)
(* selects how the next wake is planned, and show_battery_voltage, which   *)
(* stands for the keys that only travel to the firmware.  Command ids and  *)
(* nonces are numbers drawn by the callers.  The pending queue is a set:   *)
(* its order only selects which items a truncated response would carry,    *)
(* and DeliverableCommands leaves that selection open.                     *)
(***************************************************************************)
EXTENDS Integers, Sequences, FiniteSets

CONSTANTS
    NonceHistorySize,        \* NONCE_HISTORY_SIZE (64 in const.py)
    MaxCommandsPerResponse,  \* MAX_COMMANDS_PER_RESPONSE (16 in models.py)
    Schedules,               \* the 24-hour wake schedules a user may choose
    DefaultSchedule          \* DEFAULT_WAKE_SCHEDULE

ASSUME HistoryAssumption == NonceHistorySize \in Nat \ {0}
ASSUME ResponseAssumption == MaxCommandsPerResponse \in Nat \ {0}
ASSUME ScheduleAssumption == DefaultSchedule \in Schedules

Larger(a, b) == IF a >= b THEN a ELSE b
Smaller(a, b) == IF a <= b THEN a ELSE b

(***************************************************************************)
(* Types.  Day 0 is "no date yet" (None) and revision 0 "nothing yet".     *)
(***************************************************************************)
Desired == [suspend_display_refresh : BOOLEAN, show_battery_voltage : BOOLEAN]

DefaultDesired ==
    [suspend_display_refresh |-> FALSE, show_battery_voltage |-> TRUE]

Command == [id : Nat, type : {"ota_check", "wifi_full_scan"},
            source : {"manual", "automatic", "none"}, delivered : BOOLEAN]

Record == [desired : Desired, wake_schedule : Schedules,
           desired_revision : Nat, reported : Desired,
           reported_revision : Nat, applied_revision : Nat,
           delivered_revision : Nat, nonces : Seq(Nat),
           pending_commands : SUBSET Command,
           automatic_ota_enabled : BOOLEAN, ota_check_time : Nat,
           last_automatic_ota_date : Nat]

\* What the firmware reports about its configuration.
Report == [given : BOOLEAN, revision : Nat, applied : BOOLEAN,
           values : Desired]

\* The revisions of a record are ordered: nothing counts as applied that was
\* not delivered, nothing as delivered that was not desired, nothing as
\* applied that was not reported.
RevisionsOrdered(r) ==
    /\ 1 <= r.desired_revision
    /\ r.applied_revision <= r.delivered_revision
    /\ r.delivered_revision <= r.desired_revision
    /\ r.applied_revision <= r.reported_revision

\* At most one command of a kind is pending, and no id is used twice.
OnePendingPerKind(r) ==
    \A c, d \in r.pending_commands : c.type = d.type \/ c.id = d.id => c = d

\* The record created when a display has just been paired.
NewRecord(ota_time) ==
    [desired |-> DefaultDesired, wake_schedule |-> DefaultSchedule,
     desired_revision |-> 1, reported |-> DefaultDesired,
     reported_revision |-> 0, applied_revision |-> 0,
     delivered_revision |-> 0, nonces |-> <<>>, pending_commands |-> {},
     automatic_ota_enabled |-> FALSE, ota_check_time |-> ota_time,
     last_automatic_ota_date |-> 0]

(***************************************************************************)
(* Loading the stored form: as_dict loses nothing, and from_dict clamps    *)
(* the revisions it reads.                                                 *)
(***************************************************************************)
FromDict(r) ==
    LET desired_revision == Larger(1, r.desired_revision)
    IN  [r EXCEPT
           !.desired_revision = desired_revision,
           !.delivered_revision =
               Smaller(desired_revision,
                       Larger(r.applied_revision, r.delivered_revision))]

(***************************************************************************)
(* Configuration revisions.                                                *)
(***************************************************************************)
ConfigurationPending(r) == r.delivered_revision < r.desired_revision

ConfigurationApplicationPending(r) == r.applied_revision < r.desired_revision

\* One revision for any change of the desired values, of the schedule or of
\* the content; the same record when nothing changes.
UpdateConfiguration(r, desired, schedule, content_changed) ==
    IF desired = r.desired /\ schedule = r.wake_schedule /\ ~content_changed
    THEN r
    ELSE [r EXCEPT !.desired = desired,
                   !.wake_schedule = schedule,
                   !.desired_revision = @ + 1]

MarkConfigurationDelivered(r, revision) ==
    [r EXCEPT !.delivered_revision =
                  Larger(@, Smaller(revision, r.desired_revision))]

\* Mutant of ReportCountsAsApplied: takes receipt for application.
ReportCountsOnReceipt(r, report) ==
    /\ report.revision <= r.desired_revision
    /\ report.revision < r.desired_revision \/ report.values = r.desired

\* A report of the current revision counts as applied only when its values
\* are the desired ones; an older revision counts on the firmware's word.
ReportCountsAsApplied(r, report) ==
    /\ report.applied
    /\ report.revision <= r.desired_revision
    /\ report.revision < r.desired_revision \/ report.values = r.desired

\* Mutant of ApplyReported: a report of any revision applies the newest.
ApplyNewest(r, report) ==
    IF ~report.given
    THEN r
    ELSE [r EXCEPT
            !.reported = report.values,
            !.reported_revision = Larger(@, report.revision),
            !.applied_revision =
                IF ReportCountsAsApplied(r, report)
                THEN r.desired_revision ELSE @]

ApplyReported(r, report) ==
    IF ~report.given
    THEN r
    ELSE [r EXCEPT
            !.reported = report.values,
            !.reported_revision = Larger(@, report.revision),
            !.delivered_revision =
                IF report.revision <= r.desired_revision
                THEN Larger(@, report.revision) ELSE @,
            !.applied_revision =
                IF ReportCountsAsApplied(r, report)
                THEN Larger(@, report.revision) ELSE @]

(***************************************************************************)
(* Durable one-time commands.                                              *)
(***************************************************************************)
PendingOf(r, type) == {c \in r.pending_commands : c.type = type}

ManualOtaRequested(r) ==
    \E c \in PendingOf(r, "ota_check") : c.source = "manual"

WifiFullScanRequested(r) == PendingOf(r, "wifi_full_scan") # {}

\* Mutant of EnqueueOtaCommand: looks only for a command of the same source.
EnqueueOtaCommandPerSource(r, id, source) ==
    IF \E c \in PendingOf(r, "ota_check") : c.source = source
    THEN r
    ELSE [r EXCEPT !.pending_commands =
            @ \cup {[id |-> id, type |-> "ota_check", source |-> source,
                     delivered |-> FALSE]}]

EnqueueOtaCommand(r, id, source) ==
    IF PendingOf(r, "ota_check") # {}
    THEN r
    ELSE [r EXCEPT !.pending_commands =
            @ \cup {[id |-> id, type |-> "ota_check", source |-> source,
                     delivered |-> FALSE]}]

EnqueueWifiFullScanCommand(r, id) ==
    IF WifiFullScanRequested(r)
    THEN r
    ELSE [r EXCEPT !.pending_commands =
            @ \cup {[id |-> id, type |-> "wifi_full_scan", source |-> "none",
                     delivered |-> FALSE]}]

\* Mutant of MarkCommandsDelivered: what was delivered is done.
RemoveDeliveredCommands(r, ids) ==
    [r EXCEPT !.pending_commands = {c \in @ : c.id \notin ids}]

MarkCommandsDelivered(r, ids) ==
    [r EXCEPT !.pending_commands =
        {[c EXCEPT !.delivered = @ \/ c.id \in ids] : c \in @}]

AcknowledgeCommands(r, ids) ==
    [r EXCEPT !.pending_commands = {c \in @ : c.id \notin ids}]

\* Mutant of DeliverableCommands: sends the commands as they are stored.
DeliverStoredCommands(r) ==
    {S \in SUBSET r.pending_commands :
       Cardinality(S) = Smaller(Cardinality(r.pending_commands),
                                MaxCommandsPerResponse)}

\* The public part of the queue, cut to MaxCommandsPerResponse items: the
\* possible values of commands_for_delivery().
DeliverableCommands(r) ==
    LET public == {[id |-> c.id, type |-> c.type] : c \in r.pending_commands}
    IN  {S \in SUBSET public :
           Cardinality(S) = Smaller(Cardinality(public),
                                    MaxCommandsPerResponse)}

(***************************************************************************)
(* Automatic OTA.  today and time are the local date and wall-clock time.  *)
(***************************************************************************)
UpdateOtaSettings(r, enabled, check_time) ==
    [r EXCEPT !.automatic_ota_enabled = enabled,
              !.ota_check_time = check_time]

DeferAutomaticOtaUntilNextDay(r, today) ==
    IF r.automatic_ota_enabled
    THEN [r EXCEPT !.last_automatic_ota_date = today]
    ELSE r

AutomaticOtaDue(r, today, time) ==
    /\ r.automatic_ota_enabled
    /\ time >= r.ota_check_time
    /\ r.last_automatic_ota_date # today
    /\ PendingOf(r, "ota_check") = {}

\* Mutant of ScheduleAutomaticOta: does not remember the date.
ScheduleWithoutDate(r, today, time, id) ==
    IF AutomaticOtaDue(r, today, time)
    THEN EnqueueOtaCommand(r, id, "automatic")
    ELSE r

ScheduleAutomaticOta(r, today, time, id) ==
    IF AutomaticOtaDue(r, today, time)
    THEN [EnqueueOtaCommand(r, id, "automatic")
             EXCEPT !.last_automatic_ota_date = today]
    ELSE r

(***************************************************************************)
(* Replay history (security.py): the newest NonceHistorySize nonces.       *)
(***************************************************************************)
Remembered(r) == {r.nonces[i] : i \in DOMAIN r.nonces}

RememberNonce(r, nonce) ==
    LET history == Append(r.nonces, nonce)
    IN  [r EXCEPT !.nonces =
            SubSeq(history, Larger(1, Len(history) - NonceHistorySize + 1),
                   Len(history))]
=============================================================================
