---------------------------- MODULE CheckInProofs ----------------------------
(***************************************************************************)
(* Theorems about CheckIn, for any number of handlers, schedules and       *)
(* contents and any value of the bounds.                                   *)
(***************************************************************************)
EXTENDS CheckIn, SequenceTheorems, TLAPS

-----------------------------------------------------------------------------
(***************************************************************************)
(* Lemmas about DeviceRecord: what its methods preserve.  First the type.  *)
(***************************************************************************)
\* A freshly paired record (DeviceRecord's field defaults) is well formed.
LEMMA NewRecordType ==
    ASSUME NEW time \in Nat
    PROVE  NewRecord(time) \in Record
<1>1. DefaultDesired \in Desired
  BY DEF DefaultDesired, Desired
<1>2. <<>> \in Seq(Nat)
  OBVIOUS
<1> QED
  BY <1>1, <1>2, ScheduleAssumption DEF NewRecord, Record

\* from_dict yields a well-formed record from a well-formed stored one.
LEMMA FromDictType ==
    ASSUME NEW r \in Record
    PROVE  FromDict(r) \in Record
BY DEF FromDict, Record, Larger, Smaller

\* update_configuration keeps the type.
LEMMA UpdateConfigurationType ==
    ASSUME NEW r \in Record, NEW desired \in Desired,
           NEW schedule \in Schedules, NEW content_changed \in BOOLEAN
    PROVE  UpdateConfiguration(r, desired, schedule, content_changed) \in Record
<1>1. r.desired_revision + 1 \in Nat
  BY DEF Record
<1>2. [r EXCEPT !.desired = desired] \in Record
  BY DEF Record
<1>3. [r EXCEPT !.desired = desired, !.wake_schedule = schedule] \in Record
  BY <1>2 DEF Record
<1>4. [r EXCEPT !.desired = desired, !.wake_schedule = schedule,
                !.desired_revision = @ + 1] \in Record
  BY <1>1, <1>3 DEF Record
<1> QED
  BY <1>4 DEF UpdateConfiguration

\* mark_configuration_delivered keeps the type.
LEMMA MarkConfigurationDeliveredType ==
    ASSUME NEW r \in Record, NEW revision \in Nat
    PROVE  MarkConfigurationDelivered(r, revision) \in Record
BY DEF MarkConfigurationDelivered, Record, Larger, Smaller

\* apply_reported keeps the type.
LEMMA ApplyReportedType ==
    ASSUME NEW r \in Record, NEW report \in Report
    PROVE  ApplyReported(r, report) \in Record
BY DEF ApplyReported, Record, Report, Larger

\* enqueue_ota_command keeps the type.
LEMMA EnqueueOtaCommandType ==
    ASSUME NEW r \in Record, NEW id \in Nat,
           NEW source \in {"manual", "automatic"}
    PROVE  EnqueueOtaCommand(r, id, source) \in Record
<1>1. [id |-> id, type |-> "ota_check", source |-> source,
       delivered |-> FALSE] \in Command
  BY DEF Command
<1> QED
  BY <1>1 DEF EnqueueOtaCommand, Record

\* enqueue_wifi_full_scan_command keeps the type.
LEMMA EnqueueWifiFullScanCommandType ==
    ASSUME NEW r \in Record, NEW id \in Nat
    PROVE  EnqueueWifiFullScanCommand(r, id) \in Record
<1>1. [id |-> id, type |-> "wifi_full_scan", source |-> "none",
       delivered |-> FALSE] \in Command
  BY DEF Command
<1> QED
  BY <1>1 DEF EnqueueWifiFullScanCommand, Record

\* mark_commands_delivered keeps the type.
LEMMA MarkCommandsDeliveredType ==
    ASSUME NEW r \in Record, NEW ids
    PROVE  MarkCommandsDelivered(r, ids) \in Record
<1>1. \A c \in Command :
        [c EXCEPT !.delivered = @ \/ c.id \in ids] \in Command
  BY DEF Command
<1>2. {[c EXCEPT !.delivered = @ \/ c.id \in ids] : c \in r.pending_commands}
         \in SUBSET Command
  BY <1>1 DEF Record
<1> QED
  BY <1>2 DEF MarkCommandsDelivered, Record

\* acknowledge_commands keeps the type.
LEMMA AcknowledgeCommandsType ==
    ASSUME NEW r \in Record, NEW ids
    PROVE  AcknowledgeCommands(r, ids) \in Record
<1>1. {c \in r.pending_commands : c.id \notin ids} \in SUBSET Command
  BY DEF Record
<1> QED
  BY <1>1 DEF AcknowledgeCommands, Record

\* update_ota_settings keeps the type.
LEMMA UpdateOtaSettingsType ==
    ASSUME NEW r \in Record, NEW enabled \in BOOLEAN, NEW time \in Nat
    PROVE  UpdateOtaSettings(r, enabled, time) \in Record
BY DEF UpdateOtaSettings, Record

\* defer_automatic_ota_until_next_day keeps the type.
LEMMA DeferAutomaticOtaType ==
    ASSUME NEW r \in Record, NEW today \in Nat
    PROVE  DeferAutomaticOtaUntilNextDay(r, today) \in Record
BY DEF DeferAutomaticOtaUntilNextDay, Record

\* schedule_automatic_ota keeps the type.
LEMMA ScheduleAutomaticOtaType ==
    ASSUME NEW r \in Record, NEW today \in Nat, NEW time \in Nat, NEW id \in Nat
    PROVE  ScheduleAutomaticOta(r, today, time, id) \in Record
<1>1. EnqueueOtaCommand(r, id, "automatic") \in Record
  BY EnqueueOtaCommandType
<1> QED
  BY <1>1 DEF ScheduleAutomaticOta, Record

\* remember_nonce keeps the type and makes the nonce known.
LEMMA RememberNonceType ==
    ASSUME NEW r \in Record, NEW nonce \in Nat
    PROVE  RememberNonce(r, nonce) \in Record
<1> DEFINE history == Append(r.nonces, nonce)
           first == Larger(1, Len(history) - NonceHistorySize + 1)
           tail == SubSeq(history, first, Len(history))
<1>1. history \in Seq(Nat) /\ Len(history) \in Nat
  BY DEF Record
<1>2. first \in Int /\ first >= 1
  BY <1>1, HistoryAssumption DEF Larger
<1>3. \A i \in first .. Len(history) : history[i] \in Nat
  BY <1>1, <1>2
<1>4. tail \in Seq(Nat)
  BY <1>1, <1>2, <1>3, SubSeqProperties
<1> QED
  BY <1>4 DEF RememberNonce, Record

-----------------------------------------------------------------------------
(***************************************************************************)
(* Consistency: the revisions are ordered, each kind of command is pending *)
(* at most once, and all ids were drawn among the first n.                 *)
(***************************************************************************)
Consistent(r, n) ==
    /\ RevisionsOrdered(r)
    /\ OnePendingPerKind(r)
    /\ \A c \in r.pending_commands : 1 <= c.id /\ c.id <= n

\* A freshly paired record is consistent.
LEMMA NewRecordConsistent ==
    ASSUME NEW time \in Nat, NEW n \in Nat
    PROVE  Consistent(NewRecord(time), n)
BY DEF Consistent, NewRecord, RevisionsOrdered, OnePendingPerKind

\* Drawing more ids keeps a record consistent.
LEMMA ConsistentLater ==
    ASSUME NEW r \in Record, NEW n \in Nat, NEW m \in Nat, n <= m,
           Consistent(r, n)
    PROVE  Consistent(r, m)
BY DEF Consistent, Record, Command

\* from_dict changes nothing of a record whose revisions are ordered.
LEMMA FromDictIdentity ==
    ASSUME NEW r \in Record, RevisionsOrdered(r)
    PROVE  FromDict(r) = r
<1>1. Larger(1, r.desired_revision) = r.desired_revision
  BY DEF RevisionsOrdered, Record, Larger
<1>2. Smaller(r.desired_revision,
              Larger(r.applied_revision, r.delivered_revision))
        = r.delivered_revision
  BY DEF RevisionsOrdered, Record, Larger, Smaller
<1> QED
  BY <1>1, <1>2 DEF FromDict, Record

\* update_configuration and update_desired keep a record consistent.
LEMMA UpdateConfigurationConsistent ==
    ASSUME NEW r \in Record, NEW n, NEW desired \in Desired,
           NEW schedule \in Schedules, NEW content_changed \in BOOLEAN,
           Consistent(r, n)
    PROVE  Consistent(
             UpdateConfiguration(r, desired, schedule, content_changed), n)
<1> DEFINE updated == [r EXCEPT !.desired = desired, !.wake_schedule = schedule,
                                !.desired_revision = @ + 1]
<1>1. /\ updated.desired_revision = r.desired_revision + 1
      /\ updated.applied_revision = r.applied_revision
      /\ updated.delivered_revision = r.delivered_revision
      /\ updated.reported_revision = r.reported_revision
      /\ updated.pending_commands = r.pending_commands
  BY DEF Record
<1>2. r.desired_revision \in Nat /\ r.delivered_revision \in Nat
  BY DEF Record
<1> HIDE DEF updated
<1>3. Consistent(updated, n)
  BY <1>1, <1>2 DEF Consistent, RevisionsOrdered, OnePendingPerKind
<1> QED
  BY <1>3 DEF UpdateConfiguration, updated

\* mark_configuration_delivered keeps a record consistent.
LEMMA MarkConfigurationDeliveredConsistent ==
    ASSUME NEW r \in Record, NEW n, NEW revision \in Nat, Consistent(r, n)
    PROVE  Consistent(MarkConfigurationDelivered(r, revision), n)
BY DEF Consistent, MarkConfigurationDelivered, RevisionsOrdered,
       OnePendingPerKind, Record, Larger, Smaller

\* apply_reported keeps a record consistent, whatever is reported: a stale
\* revision, one the Hub does not know, or values that are not the desired.
LEMMA ApplyReportedConsistent ==
    ASSUME NEW r \in Record, NEW n, NEW report \in Report, Consistent(r, n)
    PROVE  Consistent(ApplyReported(r, report), n)
BY DEF Consistent, ApplyReported, ReportCountsAsApplied, RevisionsOrdered,
       OnePendingPerKind, Record, Report, Larger

\* enqueue_ota_command with the next id keeps a record consistent.
LEMMA EnqueueOtaCommandConsistent ==
    ASSUME NEW r \in Record, NEW n \in Nat, Consistent(r, n),
           NEW source \in {"manual", "automatic"}
    PROVE  Consistent(EnqueueOtaCommand(r, n + 1, source), n + 1)
<1> DEFINE command == [id |-> n + 1, type |-> "ota_check", source |-> source,
                       delivered |-> FALSE]
           longer == [r EXCEPT !.pending_commands = @ \cup {command}]
<1>1. CASE PendingOf(r, "ota_check") # {}
  BY <1>1, ConsistentLater DEF EnqueueOtaCommand
<1>2. CASE PendingOf(r, "ota_check") = {}
  <2>1. command.id = n + 1 /\ command.type = "ota_check"
    OBVIOUS
  <2>2. \A c \in r.pending_commands :
          c.type # "ota_check" /\ c.id \in 1..n
    BY <1>2 DEF PendingOf, Consistent, Record, Command
  <2>3. longer.pending_commands = r.pending_commands \cup {command}
    BY DEF Record
  <2>4. RevisionsOrdered(longer)
    BY DEF Consistent, RevisionsOrdered, Record
  <2> HIDE DEF command, longer
  <2>5. OnePendingPerKind(longer)
    BY <2>1, <2>2, <2>3 DEF OnePendingPerKind, Consistent
  <2>6. \A c \in longer.pending_commands : 1 <= c.id /\ c.id <= n + 1
    BY <2>1, <2>2, <2>3
  <2>7. EnqueueOtaCommand(r, n + 1, source) = longer
    BY <1>2 DEF EnqueueOtaCommand, longer, command
  <2> QED
    BY <2>4, <2>5, <2>6, <2>7 DEF Consistent
<1> QED
  BY <1>1, <1>2

\* enqueue_wifi_full_scan_command with the next id keeps a record consistent.
LEMMA EnqueueWifiFullScanCommandConsistent ==
    ASSUME NEW r \in Record, NEW n \in Nat, Consistent(r, n)
    PROVE  Consistent(EnqueueWifiFullScanCommand(r, n + 1), n + 1)
<1> DEFINE command == [id |-> n + 1, type |-> "wifi_full_scan",
                       source |-> "none", delivered |-> FALSE]
           longer == [r EXCEPT !.pending_commands = @ \cup {command}]
<1>1. CASE WifiFullScanRequested(r)
  BY <1>1, ConsistentLater DEF EnqueueWifiFullScanCommand
<1>2. CASE ~WifiFullScanRequested(r)
  <2>1. command.id = n + 1 /\ command.type = "wifi_full_scan"
    OBVIOUS
  <2>2. \A c \in r.pending_commands :
          c.type # "wifi_full_scan" /\ c.id \in 1..n
    BY <1>2 DEF WifiFullScanRequested, PendingOf, Consistent, Record, Command
  <2>3. longer.pending_commands = r.pending_commands \cup {command}
    BY DEF Record
  <2>4. RevisionsOrdered(longer)
    BY DEF Consistent, RevisionsOrdered, Record
  <2> HIDE DEF command, longer
  <2>5. OnePendingPerKind(longer)
    BY <2>1, <2>2, <2>3 DEF OnePendingPerKind, Consistent
  <2>6. \A c \in longer.pending_commands : 1 <= c.id /\ c.id <= n + 1
    BY <2>1, <2>2, <2>3
  <2>7. EnqueueWifiFullScanCommand(r, n + 1) = longer
    BY <1>2 DEF EnqueueWifiFullScanCommand, longer, command
  <2> QED
    BY <2>4, <2>5, <2>6, <2>7 DEF Consistent
<1> QED
  BY <1>1, <1>2

\* mark_commands_delivered keeps a record consistent.
LEMMA MarkCommandsDeliveredConsistent ==
    ASSUME NEW r \in Record, NEW n, NEW ids, Consistent(r, n)
    PROVE  Consistent(MarkCommandsDelivered(r, ids), n)
<1> DEFINE Marked(c) == [c EXCEPT !.delivered = @ \/ c.id \in ids]
           marked == MarkCommandsDelivered(r, ids)
<1>1. marked.pending_commands = {Marked(c) : c \in r.pending_commands}
  BY DEF MarkCommandsDelivered, Record
<1>2. \A c \in r.pending_commands :
        Marked(c).id = c.id /\ Marked(c).type = c.type
  BY DEF Record, Command
<1>3. RevisionsOrdered(marked)
  BY DEF Consistent, MarkCommandsDelivered, RevisionsOrdered, Record
<1> HIDE DEF Marked, marked
<1>4. OnePendingPerKind(marked)
  BY <1>1, <1>2 DEF Consistent, OnePendingPerKind
<1>5. \A c \in marked.pending_commands : 1 <= c.id /\ c.id <= n
  BY <1>1, <1>2 DEF Consistent
<1> QED
  BY <1>3, <1>4, <1>5 DEF Consistent, marked

\* acknowledge_commands keeps a record consistent.
LEMMA AcknowledgeCommandsConsistent ==
    ASSUME NEW r \in Record, NEW n, NEW ids, Consistent(r, n)
    PROVE  Consistent(AcknowledgeCommands(r, ids), n)
BY DEF Consistent, AcknowledgeCommands, RevisionsOrdered, OnePendingPerKind,
       Record

\* update_ota_settings keeps a record consistent.
LEMMA UpdateOtaSettingsConsistent ==
    ASSUME NEW r \in Record, NEW n, NEW enabled \in BOOLEAN, NEW time \in Nat,
           Consistent(r, n)
    PROVE  Consistent(UpdateOtaSettings(r, enabled, time), n)
BY DEF Consistent, UpdateOtaSettings, RevisionsOrdered, OnePendingPerKind,
       Record

\* defer_automatic_ota_until_next_day keeps a record consistent.
LEMMA DeferAutomaticOtaConsistent ==
    ASSUME NEW r \in Record, NEW n, NEW today \in Nat, Consistent(r, n)
    PROVE  Consistent(DeferAutomaticOtaUntilNextDay(r, today), n)
BY DEF Consistent, DeferAutomaticOtaUntilNextDay, RevisionsOrdered,
       OnePendingPerKind, Record

\* schedule_automatic_ota with the next id keeps a record consistent.
LEMMA ScheduleAutomaticOtaConsistent ==
    ASSUME NEW r \in Record, NEW n \in Nat, NEW today \in Nat, NEW time \in Nat,
           Consistent(r, n)
    PROVE  Consistent(ScheduleAutomaticOta(r, today, time, n + 1),
                      IF AutomaticOtaDue(r, today, time) THEN n + 1 ELSE n)
<1> DEFINE longer == EnqueueOtaCommand(r, n + 1, "automatic")
<1>1. longer \in Record /\ Consistent(longer, n + 1)
  BY EnqueueOtaCommandType, EnqueueOtaCommandConsistent
<1> HIDE DEF longer
<1>2. Consistent([longer EXCEPT !.last_automatic_ota_date = today], n + 1)
  BY <1>1 DEF Consistent, RevisionsOrdered, OnePendingPerKind, Record
<1> QED
  BY <1>2 DEF ScheduleAutomaticOta, longer

\* remember_nonce keeps a record consistent.
LEMMA RememberNonceConsistent ==
    ASSUME NEW r \in Record, NEW n, NEW nonce \in Nat, Consistent(r, n)
    PROVE  Consistent(RememberNonce(r, nonce), n)
BY DEF Consistent, RememberNonce, RevisionsOrdered, OnePendingPerKind, Record

-----------------------------------------------------------------------------
(***************************************************************************)
(* Configuration: which methods touch the revisions and the desired        *)
(* values, and how.                                                        *)
(***************************************************************************)
SameConfiguration(r, s) ==
    /\ s.desired = r.desired
    /\ s.desired_revision = r.desired_revision
    /\ s.delivered_revision = r.delivered_revision
    /\ s.applied_revision = r.applied_revision

\* A revision and its values are not newer than those of record r.
Within(revision, values, r) ==
    /\ revision <= r.desired_revision
    /\ revision = r.desired_revision => values = r.desired

\* Record s has the desired configuration of r or a newer one.
Extends(r, s) == Within(r.desired_revision, r.desired, s)

\* What is within r is within every record that extends r.
LEMMA WithinExtends ==
    ASSUME NEW r \in Record, NEW s \in Record, NEW revision \in Nat, NEW values,
           Within(revision, values, r), Extends(r, s)
    PROVE  Within(revision, values, s)
BY DEF Within, Extends, Record

\* Records of one configuration extend each other.
LEMMA SameExtends ==
    ASSUME NEW r \in Record, NEW s \in Record, SameConfiguration(r, s)
    PROVE  Extends(r, s)
BY DEF SameConfiguration, Extends, Within, Record

\* The methods for commands, OTA settings and nonces keep the configuration.
LEMMA OtherMethodsSameConfiguration ==
    ASSUME NEW r \in Record
    PROVE  /\ SameConfiguration(r, r)
           /\ \A id, source :
                SameConfiguration(r, EnqueueOtaCommand(r, id, source))
           /\ \A id : SameConfiguration(r, EnqueueWifiFullScanCommand(r, id))
           /\ \A ids : SameConfiguration(r, MarkCommandsDelivered(r, ids))
           /\ \A ids : SameConfiguration(r, AcknowledgeCommands(r, ids))
           /\ \A enabled, time :
                SameConfiguration(r, UpdateOtaSettings(r, enabled, time))
           /\ \A day :
                SameConfiguration(r, DeferAutomaticOtaUntilNextDay(r, day))
           /\ \A nonce : SameConfiguration(r, RememberNonce(r, nonce))
BY DEF SameConfiguration, EnqueueOtaCommand, EnqueueWifiFullScanCommand,
       MarkCommandsDelivered, AcknowledgeCommands, UpdateOtaSettings,
       DeferAutomaticOtaUntilNextDay, RememberNonce, Record

\* So does schedule_automatic_ota.
LEMMA ScheduleSameConfiguration ==
    ASSUME NEW r \in Record, NEW day \in Nat, NEW time \in Nat, NEW id \in Nat
    PROVE  SameConfiguration(r, ScheduleAutomaticOta(r, day, time, id))
<1>1. EnqueueOtaCommand(r, id, "automatic") \in Record
  BY EnqueueOtaCommandType
<1>2. SameConfiguration(r, EnqueueOtaCommand(r, id, "automatic"))
  BY OtherMethodsSameConfiguration
<1> QED
  BY <1>1, <1>2 DEF ScheduleAutomaticOta, SameConfiguration, Record

\* update_configuration takes a new revision for new values.
LEMMA UpdateConfigurationExtends ==
    ASSUME NEW r \in Record, NEW desired \in Desired,
           NEW schedule \in Schedules, NEW content_changed \in BOOLEAN
    PROVE  LET s == UpdateConfiguration(r, desired, schedule, content_changed)
           IN  /\ Extends(r, s)
               /\ s.delivered_revision = r.delivered_revision
               /\ s.applied_revision = r.applied_revision
<1> DEFINE s == UpdateConfiguration(r, desired, schedule, content_changed)
<1> DEFINE updated == [r EXCEPT !.desired = desired, !.wake_schedule = schedule,
                                !.desired_revision = @ + 1]
<1>1. /\ updated.desired_revision = r.desired_revision + 1
      /\ updated.applied_revision = r.applied_revision
      /\ updated.delivered_revision = r.delivered_revision
      /\ r.desired_revision \in Nat
  BY DEF Record
<1>2. s = r \/ s = updated
  BY DEF UpdateConfiguration
<1> HIDE DEF updated, s
<1>3. /\ Extends(r, s)
      /\ s.delivered_revision = r.delivered_revision
      /\ s.applied_revision = r.applied_revision
  BY <1>1, <1>2 DEF Extends, Within
<1> QED
  BY <1>3 DEF s

\* apply_reported leaves the desired configuration alone.
LEMMA ApplyReportedExtends ==
    ASSUME NEW r \in Record, NEW report \in Report
    PROVE  Extends(r, ApplyReported(r, report))
<1>1. /\ ApplyReported(r, report).desired = r.desired
      /\ ApplyReported(r, report).desired_revision = r.desired_revision
      /\ r.desired_revision \in Nat
  BY DEF ApplyReported, Record
<1> QED
  BY <1>1 DEF Extends, Within

\* mark_configuration_delivered leaves the desired configuration and the
\* applied revision alone.
LEMMA MarkConfigurationDeliveredExtends ==
    ASSUME NEW r \in Record, NEW revision \in Nat
    PROVE  /\ Extends(r, MarkConfigurationDelivered(r, revision))
           /\ MarkConfigurationDelivered(r, revision).applied_revision
                = r.applied_revision
<1>1. /\ MarkConfigurationDelivered(r, revision).desired = r.desired
      /\ MarkConfigurationDelivered(r, revision).desired_revision
           = r.desired_revision
      /\ MarkConfigurationDelivered(r, revision).applied_revision
           = r.applied_revision
      /\ r.desired_revision \in Nat
  BY DEF MarkConfigurationDelivered, Record
<1> QED
  BY <1>1 DEF Extends, Within

-----------------------------------------------------------------------------
(***************************************************************************)
(* Type correctness.                                                       *)
(***************************************************************************)
StoreType ==
    /\ rec \in Record /\ disk \in Record
    /\ writing \subseteq Record /\ AtMostOne(writing)
    /\ kept \subseteq Record /\ AtMostOne(kept)
    /\ wait \in [Callers -> {"none", "lock", "write", "resume"}]

\* A save of a well-formed record leaves the store well formed.
LEMMA SaveType ==
    ASSUME NEW r \in Record, NEW S, StoreType, Save(r, S)
    PROVE  StoreType'
BY DEF StoreType, Save, Uncontended, AtMostOne

\* So does a caller that goes on without a save.
LEMMA ReleaseType ==
    ASSUME NEW c, StoreType, Release(c)
    PROVE  StoreType'
BY DEF StoreType, Release, AtMostOne

\* Whatever evaluates the OTA schedule gets a well-formed record.
LEMMA ScheduledType ==
    ASSUME TypeOK, NEW r \in Record
    PROVE  Scheduled(r) \in Record
BY ScheduleAutomaticOtaType DEF TypeOK, Scheduled

\* The ghosts of automatic OTA keep their types.
LEMMA RecordSchedulingType ==
    ASSUME TypeOK, NEW r, RecordScheduling(r)
    PROVE  drawn' \in Nat /\ automatic' \subseteq [id : Nat, day : Nat]
BY DEF TypeOK, RecordScheduling

\* The empty request and response, and a fresh handler, are well formed.
LEMMA IdleType ==
    /\ NoRequest \in Request /\ NoResponse \in Response
    /\ IdleCall \in Call
    /\ IdleFlow \in [pc : {"idle", "saving", "scheduling"}, content : Contents]
    /\ DefaultDesired \in Desired
<1>1. DefaultDesired \in Desired
  BY DEF DefaultDesired, Desired
<1>2. NoRequest \in Request
  BY <1>1 DEF NoRequest, Request, Report
<1>3. NoResponse \in Response
  BY <1>1, ContentAssumption DEF NoResponse, Response, Plans
<1>4. IdleCall \in Call
  BY <1>2, <1>3 DEF IdleCall, Call
<1>5. IdleFlow \in [pc : {"idle", "saving", "scheduling"}, content : Contents]
  BY ContentAssumption DEF IdleFlow
<1> QED
  BY <1>1, <1>2, <1>3, <1>4, <1>5

\* Every initial state is well formed.
LEMMA InitType == Init => TypeOK
<1> SUFFICES ASSUME Init PROVE TypeOK
  OBVIOUS
<1>1. rec \in Record
  BY NewRecordType, TimeAssumption DEF Init
<1>2. device \in Device
  BY IdleType DEF Init, Device
<1> QED
  BY <1>1, <1>2, IdleType, ContentAssumption DEF Init, TypeOK, AtMostOne

\* The fields of a well-formed record that the actions read.
LEMMA FieldTypes ==
    ASSUME NEW r \in Record
    PROVE  /\ r.desired \in Desired /\ r.wake_schedule \in Schedules
           /\ r.desired_revision \in Nat /\ r.delivered_revision \in Nat
           /\ r.applied_revision \in Nat /\ r.reported_revision \in Nat
           /\ r.pending_commands \subseteq Command
           /\ r.automatic_ota_enabled \in BOOLEAN /\ r.ota_check_time \in Nat
BY DEF Record

\* What commands_for_delivery returns is public command items.
LEMMA DeliverableType ==
    ASSUME NEW r \in Record, NEW commands \in DeliverableCommands(r)
    PROVE  commands \subseteq Public
<1>1. \A c \in r.pending_commands : [id |-> c.id, type |-> c.type] \in Public
  BY DEF Record, Command, Public
<1> QED
  BY <1>1 DEF DeliverableCommands

\* Process builds a well-formed record and response.
LEMMA ProcessType ==
    ASSUME TypeOK, NEW h \in Handlers, Process(h)
    PROVE  TypeOK'
<1> DEFINE request == call[h].request
           reported == ApplyReported(rec, request.report)
           acknowledged == AcknowledgeCommands(reported, request.acks)
           updated == Scheduled(acknowledged)
<1>1. call[h] \in Call /\ request \in Request
  BY DEF TypeOK, Call
<1>2. request.report \in Report /\ request.nonce \in Nat
  BY <1>1 DEF Request
<1>3. acknowledged \in Record
  BY <1>2, ApplyReportedType, AcknowledgeCommandsType DEF TypeOK
<1>4. updated \in Record
  BY <1>3, ScheduledType
<1>5. StoreType'
  BY <1>4, SaveType DEF Process, TypeOK, StoreType
<1>6. drawn' \in Nat /\ automatic' \subseteq [id : Nat, day : Nat]
  BY RecordSchedulingType DEF Process
<1>7. PlanOf(rec) \in Plans
  BY FieldTypes DEF PlanOf, Plans, TypeOK
<1>8. \A commands \in DeliverableCommands(updated) :
        Draft(request, commands) \in Response
  BY <1>2, <1>4, <1>7, IdleType, DeliverableType DEF Draft, Response, TypeOK
<1>9. PICK commands \in DeliverableCommands(updated) :
        call' = [call EXCEPT ![h].pc = "checkin_save",
                             ![h].response = Draft(request, commands)]
  BY DEF Process
<1>10. call' \in [Handlers -> Call]
  BY <1>1, <1>8, <1>9 DEF TypeOK, Call
<1> QED
  BY <1>2, <1>5, <1>6, <1>10
     DEF Process, TypeOK, StoreType, user, display

\* Prepare builds a well-formed record and response.
LEMMA PrepareType ==
    ASSUME TypeOK, NEW h \in Handlers, Prepare(h)
    PROVE  TypeOK'
<1> DEFINE response == [call[h].response EXCEPT
                          !.revision = rec.desired_revision,
                          !.values = rec.desired]
           marked == MarkCommandsDelivered(
                       MarkConfigurationDelivered(rec, response.revision),
                       Ids(response.commands))
<1>1. call[h] \in Call /\ call[h].response \in Response
  BY DEF TypeOK, Call
<1>2. response \in Response /\ response.revision \in Nat
  BY <1>1, FieldTypes DEF Response, TypeOK
<1>3. marked \in Record
  BY <1>2, MarkConfigurationDeliveredType, MarkCommandsDeliveredType DEF TypeOK
<1>4. CASE /\ Save(marked, {h})
           /\ call' = [call EXCEPT ![h].pc = "delivery_save",
                                   ![h].response = response]
           /\ UNCHANGED display
  <2>1. StoreType'
    BY <1>3, <1>4, SaveType DEF TypeOK, StoreType
  <2>2. call' \in [Handlers -> Call]
    BY <1>1, <1>2, <1>4 DEF TypeOK, Call
  <2> QED
    BY <1>4, <2>1, <2>2 DEF Prepare, TypeOK, StoreType, user, display, ghosts
<1>5. CASE Answer(h, response) /\ Release(h)
  <2>1. StoreType'
    BY <1>5, ReleaseType DEF TypeOK, StoreType
  <2> QED
    BY <1>2, <1>5, <2>1, IdleType
       DEF Prepare, Answer, TypeOK, StoreType, user, ghosts
<1> QED
  BY <1>4, <1>5 DEF Prepare

\* Every step keeps the types.
LEMMA NextType == TypeOK /\ [Next]_vars => TypeOK'
<1> SUFFICES ASSUME TypeOK, [Next]_vars PROVE TypeOK'
  OBVIOUS
<1> USE DEF user, display, ghosts, StoreType
<1>1. CASE StartWrite
  BY <1>1 DEF StartWrite, TypeOK, AtMostOne
<1>2. CASE FinishWrite
  BY <1>2 DEF FinishWrite, TypeOK, AtMostOne
<1>3. CASE MinuteTick
  <2>1. StoreType'
    BY <1>3, SaveType, ScheduledType DEF MinuteTick, TypeOK, store
  <2> QED
    BY <1>3, <2>1, RecordSchedulingType DEF MinuteTick, TypeOK
<1>4. ASSUME NEW h \in Handlers, Authenticate(h) PROVE TypeOK'
  <2>1. PICK request \in sent :
          /\ Save(RememberNonce(rec, request.nonce), {h})
          /\ call' = [call EXCEPT ![h].pc = "nonce_save",
                                  ![h].request = request]
    BY <1>4 DEF Authenticate
  <2>2. request \in Request /\ request.nonce \in Nat
    BY DEF TypeOK, Request
  <2>3. StoreType'
    BY <2>1, <2>2, RememberNonceType, SaveType DEF TypeOK
  <2>4. call' \in [Handlers -> Call]
    BY <2>1, <2>2 DEF TypeOK, Call
  <2> QED
    BY <1>4, <2>3, <2>4 DEF Authenticate, TypeOK
<1>5. ASSUME NEW h \in Handlers, Return(h) PROVE TypeOK'
  <2>1. StoreType'
    BY <1>5, ReleaseType DEF Return, TypeOK
  <2>2. call[h].response \in Response
    BY DEF TypeOK, Call
  <2> QED
    BY <1>5, <2>1, <2>2, IdleType DEF Return, Answer, TypeOK
<1>6. ASSUME NEW key \in DOMAIN DefaultDesired, NEW value \in BOOLEAN,
             SetDesired(key, value)
      PROVE  TypeOK'
  <2>1. [rec.desired EXCEPT ![key] = value] \in Desired
    BY FieldTypes DEF TypeOK, Desired, DefaultDesired
  <2>2. UpdateConfiguration(rec, [rec.desired EXCEPT ![key] = value],
                            rec.wake_schedule, FALSE) \in Record
    BY <2>1, FieldTypes, UpdateConfigurationType DEF TypeOK
  <2>3. StoreType'
    BY <1>6, <2>2, SaveType DEF SetDesired, TypeOK
  <2> QED
    BY <1>6, <2>3 DEF SetDesired, TypeOK
<1>7. ASSUME NEW value \in BOOLEAN, SetAutomaticOta(value) PROVE TypeOK'
  <2>1. UpdateOtaSettings(rec, value, rec.ota_check_time) \in Record
    BY FieldTypes, UpdateOtaSettingsType DEF TypeOK
  <2>2. StoreType'
    BY <1>7, <2>1, DeferAutomaticOtaType, SaveType DEF SetAutomaticOta, TypeOK
  <2> QED
    BY <1>7, <2>2 DEF SetAutomaticOta, TypeOK
<1>8. CASE TurnOnManualOta
  <2>0. rec \in Record /\ drawn + 1 \in Nat
    BY DEF TypeOK
  <2>1. EnqueueOtaCommand(rec, drawn + 1, "manual") \in Record
    BY <2>0, EnqueueOtaCommandType
  <2>2. Save(EnqueueOtaCommand(rec, drawn + 1, "manual"), {})
    BY <1>8 DEF TurnOnManualOta
  <2>3. StoreType'
    BY <2>1, <2>2, SaveType DEF TypeOK
  <2> QED
    BY <1>8, <2>3 DEF TurnOnManualOta, Draw, TypeOK
<1>9. CASE TurnOnWifiFullScan
  <2>0. rec \in Record /\ drawn + 1 \in Nat
    BY DEF TypeOK
  <2>1. EnqueueWifiFullScanCommand(rec, drawn + 1) \in Record
    BY <2>0, EnqueueWifiFullScanCommandType
  <2>2. Save(EnqueueWifiFullScanCommand(rec, drawn + 1), {})
    BY <1>9 DEF TurnOnWifiFullScan
  <2>3. StoreType'
    BY <2>1, <2>2, SaveType DEF TypeOK
  <2> QED
    BY <1>9, <2>3 DEF TurnOnWifiFullScan, Draw, TypeOK
<1>10. ASSUME NEW schedule \in Schedules, NEW new \in Contents,
              NEW time \in CheckTimes, Reconfigure(schedule, new, time)
       PROVE  TypeOK'
  <2>1. UpdateConfiguration(rec, rec.desired, schedule, new # content)
          \in Record
    BY FieldTypes, UpdateConfigurationType DEF TypeOK
  <2>2. UpdateOtaSettings(
          UpdateConfiguration(rec, rec.desired, schedule, new # content),
          rec.automatic_ota_enabled, time) \in Record
    BY <2>1, FieldTypes, UpdateOtaSettingsType, TimeAssumption DEF TypeOK
  <2>3. StoreType'
    BY <1>10, <2>2, SaveType DEF Reconfigure, TypeOK
  <2> QED
    BY <1>10, <2>3 DEF Reconfigure, TypeOK
<1>11. CASE ScheduleAfterReconfigure
  <2>1. StoreType'
    BY <1>11, SaveType, ScheduledType DEF ScheduleAfterReconfigure, TypeOK
  <2> QED
    BY <1>11, <2>1, RecordSchedulingType DEF ScheduleAfterReconfigure, TypeOK
<1>12. CASE FinishReconfigure
  <2>1. StoreType'
    BY <1>12, ReleaseType DEF FinishReconfigure, TypeOK
  <2> QED
    BY <1>12, <2>1, IdleType DEF FinishReconfigure, TypeOK
<1>13. CASE Restart
  <2>1. FromDict(disk) \in Record /\ Scheduled(FromDict(disk)) \in Record
    BY FromDictType, ScheduledType DEF TypeOK
  <2> QED
    BY <1>13, <2>1, RecordSchedulingType, IdleType
       DEF Restart, TypeOK, AtMostOne
<1>14. CASE PassTime
  BY <1>14 DEF PassTime, TypeOK, store
<1>15. CASE MoveTimezone
  BY <1>15, TimeAssumption DEF MoveTimezone, TypeOK, store
<1>16. CASE Send
  <2> DEFINE fresh == device.requests + 1
  <2>1. PICK acks \in SUBSET device.accepted :
          /\ device' = [device EXCEPT !.requests = fresh, !.acks = acks,
                                      !.nonce = fresh]
          /\ sent' = sent \cup {[nonce |-> fresh, acks |-> acks,
                                 report |-> CurrentReport]}
    BY <1>16 DEF Send
  <2>2. fresh \in Nat /\ acks \subseteq Nat
    BY DEF TypeOK, Device
  <2>3. CurrentReport \in Report
    BY DEF CurrentReport, TypeOK, Device, Report
  <2> HIDE DEF fresh
  <2>4. device' \in Device
    BY <2>1, <2>2 DEF TypeOK, Device
  <2>5. sent' \subseteq Request
    BY <2>1, <2>2, <2>3 DEF TypeOK, Request
  <2> QED
    BY <1>16, <2>4, <2>5 DEF Send, TypeOK, store
<1>17. CASE Receive
  <2>1. PICK response \in inbox, applied \in BOOLEAN :
          device' = [device EXCEPT
                !.nonce = 0, !.acks = {}, !.revision = response.revision,
                !.values = response.values, !.applied = applied,
                !.accepted = (@ \ device.acks) \cup Ids(response.commands),
                !.forgotten = @ \cup device.acks]
    BY <1>17 DEF Receive
  <2>2. /\ response.revision \in Nat /\ response.values \in Desired
        /\ Ids(response.commands) \subseteq Nat
    BY DEF TypeOK, Response, Public, Ids
  <2>3. /\ device.accepted \subseteq Nat /\ device.acks \subseteq Nat
        /\ device.forgotten \subseteq Nat
    BY DEF TypeOK, Device
  <2>4. device' \in Device
    BY <2>1, <2>2, <2>3 DEF TypeOK, Device
  <2> QED
    BY <1>17, <2>4 DEF Receive, TypeOK, store
<1>18. CASE GiveUp
  BY <1>18 DEF GiveUp, TypeOK, Device, store
<1>19. CASE UNCHANGED vars
  BY <1>19 DEF vars, store, TypeOK, AtMostOne
<1> QED
  BY <1>1, <1>2, <1>3, <1>4, <1>5, <1>6, <1>7, <1>8, <1>9, <1>10, <1>11,
     <1>12, <1>13, <1>14, <1>15, <1>16, <1>17, <1>18, <1>19,
     ProcessType, PrepareType DEF Next

\* Every reachable state is well formed: the state variables of the Hub, the
\* messages and the display have their types, and the lock of the store
\* admits one write at a time.
THEOREM TypeCorrect == Spec => []TypeOK
  BY InitType, NextType, PTL DEF Spec

-----------------------------------------------------------------------------
(***************************************************************************)
(* The store.  RevisionOrder and NewestSnapshotIsCurrent depend on each    *)
(* other: a restart makes the record what from_dict reads from the disk,   *)
(* which is what is on the disk because the revisions there are ordered.   *)
(***************************************************************************)
StoreInv ==
    /\ \A r \in Copies : Consistent(r, drawn)
    /\ NewestSnapshotIsCurrent

\* Saving a consistent record keeps the invariant of the store.
LEMMA SaveStoreInv ==
    ASSUME TypeOK, StoreInv, NEW r \in Record, NEW S, Save(r, S),
           drawn' \in Nat, drawn <= drawn', Consistent(r, drawn')
    PROVE  StoreInv'
<1>1. \A c \in Copies : Consistent(c, drawn')
  BY ConsistentLater DEF StoreInv, Copies, TypeOK
<1>2. \A c \in Copies' : c \in Copies \/ c = r
  BY DEF Save, Copies
<1>3. \A c \in Copies' : Consistent(c, drawn')
  BY <1>1, <1>2
<1>4. NewestSnapshotIsCurrent'
  BY DEF Save, Uncontended, NewestSnapshotIsCurrent
<1> QED
  BY <1>3, <1>4 DEF StoreInv

\* A step that leaves the copies of the record alone keeps it too.
LEMMA SameStoreInv ==
    ASSUME StoreInv, UNCHANGED <<rec, disk, writing, kept, drawn>>
    PROVE  StoreInv'
BY DEF StoreInv, Copies, NewestSnapshotIsCurrent

\* The evaluation of the OTA schedule draws at most one id, and what it saves
\* is consistent.
LEMMA ScheduledConsistent ==
    ASSUME TypeOK, NEW r \in Record, Consistent(r, drawn), RecordScheduling(r)
    PROVE  /\ drawn' \in Nat /\ drawn <= drawn'
           /\ Consistent(Scheduled(r), drawn')
<1>1. clock.day \in Nat /\ clock.time \in Nat /\ drawn \in Nat
  BY DEF TypeOK
<1>2. drawn' = IF Due(r) THEN drawn + 1 ELSE drawn
  BY DEF RecordScheduling
<1> QED
  BY <1>1, <1>2, ScheduleAutomaticOtaConsistent DEF Scheduled, Due

\* The invariant of the store holds initially.
LEMMA InitStoreInv == Init => StoreInv
<1> SUFFICES ASSUME Init PROVE StoreInv
  OBVIOUS
<1>1. Consistent(rec, drawn)
  BY NewRecordConsistent, TimeAssumption DEF Init
<1> QED
  BY <1>1 DEF Init, StoreInv, Copies, NewestSnapshotIsCurrent

\* Every step keeps the invariant of the store.
LEMMA NextStoreInv == TypeOK /\ StoreInv /\ [Next]_vars => StoreInv'
<1> SUFFICES ASSUME TypeOK, StoreInv, [Next]_vars PROVE StoreInv'
  OBVIOUS
<1> USE DEF user, display, ghosts
<1>0. /\ rec \in Record /\ Consistent(rec, drawn)
      /\ drawn \in Nat /\ drawn <= drawn
  BY DEF StoreInv, Copies, TypeOK
<1>1. CASE StartWrite
  BY <1>1 DEF StartWrite, StoreInv, Copies, NewestSnapshotIsCurrent
<1>2. CASE FinishWrite
  BY <1>2 DEF FinishWrite, StoreInv, Copies, NewestSnapshotIsCurrent
<1>3. CASE MinuteTick
  <2>1. CASE Due(rec)
    BY <1>0, <1>3, <2>1, ScheduledConsistent, ScheduledType, SaveStoreInv
       DEF MinuteTick
  <2>2. CASE ~Due(rec)
    BY <1>3, <2>2, SameStoreInv DEF MinuteTick, RecordScheduling, store
  <2> QED
    BY <2>1, <2>2
<1>4. ASSUME NEW h \in Handlers, Authenticate(h) PROVE StoreInv'
  <2>1. PICK request \in sent : Save(RememberNonce(rec, request.nonce), {h})
    BY <1>4 DEF Authenticate
  <2>2. request.nonce \in Nat
    BY DEF TypeOK, Request
  <2>3. drawn' = drawn
    BY <1>4 DEF Authenticate
  <2> QED
    BY <1>0, <2>1, <2>2, <2>3, RememberNonceType, RememberNonceConsistent,
       SaveStoreInv
<1>5. ASSUME NEW h \in Handlers, Process(h) PROVE StoreInv'
  <2> DEFINE request == call[h].request
             reported == ApplyReported(rec, request.report)
             acknowledged == AcknowledgeCommands(reported, request.acks)
  <2>1. request.report \in Report
    BY DEF TypeOK, Call, Request
  <2>2. reported \in Record /\ Consistent(reported, drawn)
    BY <1>0, <2>1, ApplyReportedType, ApplyReportedConsistent
  <2> HIDE DEF reported
  <2>3. acknowledged \in Record /\ Consistent(acknowledged, drawn)
    BY <2>2, AcknowledgeCommandsType, AcknowledgeCommandsConsistent
  <2>4. RecordScheduling(acknowledged) /\ Save(Scheduled(acknowledged), {h})
    BY <1>5 DEF Process, reported
  <2> HIDE DEF acknowledged
  <2> QED
    BY <2>3, <2>4, ScheduledConsistent, ScheduledType, SaveStoreInv
<1>6. ASSUME NEW h \in Handlers, Prepare(h) PROVE StoreInv'
  <2> DEFINE response == [call[h].response EXCEPT
                            !.revision = rec.desired_revision,
                            !.values = rec.desired]
             delivered == MarkConfigurationDelivered(rec, response.revision)
             marked == MarkCommandsDelivered(delivered, Ids(response.commands))
  <2>1. response.revision \in Nat
    BY FieldTypes DEF TypeOK, Call, Response
  <2>2. delivered \in Record /\ Consistent(delivered, drawn)
    BY <1>0, <2>1, MarkConfigurationDeliveredType,
       MarkConfigurationDeliveredConsistent
  <2>3. marked \in Record /\ Consistent(marked, drawn)
    BY <2>2, MarkCommandsDeliveredType, MarkCommandsDeliveredConsistent
  <2>4. drawn' = drawn /\ (Save(marked, {h}) \/ Release(h))
    BY <1>6 DEF Prepare
  <2> QED
    BY <1>0, <2>3, <2>4, SaveStoreInv, SameStoreInv DEF Release
<1>7. ASSUME NEW h \in Handlers, Return(h) PROVE StoreInv'
  BY <1>7, SameStoreInv DEF Return, Release
<1>8. ASSUME NEW key \in DOMAIN DefaultDesired, NEW value \in BOOLEAN,
             SetDesired(key, value)
      PROVE  StoreInv'
  <2>1. [rec.desired EXCEPT ![key] = value] \in Desired
    BY <1>0, FieldTypes DEF Desired, DefaultDesired
  <2>2. drawn' = drawn
    BY <1>8 DEF SetDesired
  <2> QED
    BY <1>0, <1>8, <2>1, <2>2, FieldTypes, UpdateConfigurationType,
       UpdateConfigurationConsistent, SaveStoreInv DEF SetDesired
<1>9. ASSUME NEW value \in BOOLEAN, SetAutomaticOta(value) PROVE StoreInv'
  <2> DEFINE updated == UpdateOtaSettings(rec, value, rec.ota_check_time)
             deferred == DeferAutomaticOtaUntilNextDay(updated, clock.day)
  <2>1. updated \in Record /\ Consistent(updated, drawn)
    BY <1>0, FieldTypes, UpdateOtaSettingsType, UpdateOtaSettingsConsistent
  <2>2. deferred \in Record /\ Consistent(deferred, drawn)
    BY <2>1, DeferAutomaticOtaType, DeferAutomaticOtaConsistent DEF TypeOK
  <2>3. drawn' = drawn /\ (Save(updated, {}) \/ Save(deferred, {}))
    BY <1>9 DEF SetAutomaticOta
  <2> QED
    BY <1>0, <2>1, <2>2, <2>3, SaveStoreInv
<1>10. CASE TurnOnManualOta
  <2>1. drawn' = drawn + 1
    BY <1>10 DEF TurnOnManualOta, Draw
  <2> QED
    BY <1>0, <1>10, <2>1, EnqueueOtaCommandType, EnqueueOtaCommandConsistent,
       SaveStoreInv DEF TurnOnManualOta
<1>11. CASE TurnOnWifiFullScan
  <2>1. drawn' = drawn + 1
    BY <1>11 DEF TurnOnWifiFullScan, Draw
  <2> QED
    BY <1>0, <1>11, <2>1, EnqueueWifiFullScanCommandType,
       EnqueueWifiFullScanCommandConsistent, SaveStoreInv
       DEF TurnOnWifiFullScan
<1>12. ASSUME NEW schedule \in Schedules, NEW new \in Contents,
              NEW time \in CheckTimes, Reconfigure(schedule, new, time)
       PROVE  StoreInv'
  <2> DEFINE configured == UpdateConfiguration(rec, rec.desired, schedule,
                                               new # content)
             updated == UpdateOtaSettings(configured,
                                          rec.automatic_ota_enabled, time)
  <2>1. configured \in Record /\ Consistent(configured, drawn)
    BY <1>0, FieldTypes, UpdateConfigurationType, UpdateConfigurationConsistent
  <2>2. updated \in Record /\ Consistent(updated, drawn)
    BY <1>0, <2>1, FieldTypes, UpdateOtaSettingsType,
       UpdateOtaSettingsConsistent, TimeAssumption
  <2>3. drawn' = drawn /\ Save(updated, {Flow})
    BY <1>12 DEF Reconfigure
  <2> QED
    BY <1>0, <2>2, <2>3, SaveStoreInv
<1>13. CASE ScheduleAfterReconfigure
  BY <1>0, <1>13, ScheduledConsistent, ScheduledType, SaveStoreInv
     DEF ScheduleAfterReconfigure
<1>14. CASE FinishReconfigure
  BY <1>14, SameStoreInv DEF FinishReconfigure, Release
<1>15. CASE Restart
  <2>1. disk \in Record /\ Consistent(disk, drawn)
    BY DEF StoreInv, Copies, TypeOK
  <2>2. FromDict(disk) = disk
    BY <2>1, FromDictIdentity DEF Consistent
  <2>3. /\ drawn' \in Nat /\ drawn <= drawn'
        /\ Consistent(Scheduled(disk), drawn')
    BY <1>15, <2>1, <2>2, ScheduledConsistent DEF Restart
  <2>4. Consistent(disk, drawn')
    BY <1>0, <2>1, <2>3, ConsistentLater
  <2>5. ~Due(disk) => Scheduled(disk) = disk
    BY DEF Due, Scheduled, ScheduleAutomaticOta
  <2> QED
    BY <1>15, <2>2, <2>3, <2>4, <2>5
       DEF Restart, StoreInv, Copies, NewestSnapshotIsCurrent
<1>16. CASE PassTime \/ MoveTimezone \/ Send \/ Receive \/ GiveUp
  BY <1>16, SameStoreInv
     DEF PassTime, MoveTimezone, Send, Receive, GiveUp, store
<1>17. CASE UNCHANGED vars
  BY <1>17, SameStoreInv DEF vars, store
<1> QED
  BY <1>1, <1>2, <1>3, <1>4, <1>5, <1>6, <1>7, <1>8, <1>9, <1>10, <1>11,
     <1>12, <1>13, <1>14, <1>15, <1>16, <1>17 DEF Next

\* The invariant of the store holds in every reachable state.
THEOREM StoreInvariant == Spec => [](TypeOK /\ StoreInv)
  BY InitType, NextType, InitStoreInv, NextStoreInv, PTL DEF Spec

\* In every copy of the record the revisions are ordered: no interleaving,
\* late report or restart makes the Hub take for applied what it has not
\* delivered, or for delivered what nobody desires.
THEOREM RevisionsStayOrdered == Spec => []RevisionOrder
<1>1. StoreInv => RevisionOrder
  BY DEF StoreInv, Consistent, RevisionOrder
<1> QED
  BY <1>1, StoreInvariant, PTL

\* Every change of the record is on the disk or on its way there, whatever
\* the order in which the callers of async_save run.
THEOREM NoChangeIsLeftUnsaved == Spec => []NewestSnapshotIsCurrent
<1>1. StoreInv => NewestSnapshotIsCurrent
  BY DEF StoreInv
<1> QED
  BY <1>1, StoreInvariant, PTL

\* No copy of the queue ever holds two commands of a kind or one id twice,
\* although check-ins, the tick, the switches and the setup all add to it.
THEOREM CommandsStayUnique == Spec => []OneCommandPerKind
<1>1. StoreInv => OneCommandPerKind
  BY DEF StoreInv, Consistent, OneCommandPerKind
<1> QED
  BY <1>1, StoreInvariant, PTL
=============================================================================
