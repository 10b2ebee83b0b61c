---------------------------- MODULE CommandProofs ----------------------------
(***************************************************************************)
(* One-time commands: what the display holds stays stored until the        *)
(* display acknowledges it, what it may forget never returns, CheckIn      *)
(* implements CommandQueue, and a day has one automatic command.           *)
(*                                                                         *)
(* The queue is kept in several copies (disk, snapshot, record), of which  *)
(* a restart may take any but the first away.  The heart of the argument   *)
(* is how one copy may differ from an older one (Follows): it lacks only   *)
(* what was acknowledged, and has more only of what the display has never  *)
(* seen.                                                                   *)
(***************************************************************************)
EXTENDS RevisionProofs

-----------------------------------------------------------------------------
(***************************************************************************)
(* The invariant.                                                          *)
(***************************************************************************)
Queued(r) == Ids(r.pending_commands)

Acknowledged == UNION {request.acks : request \in sent}

\* What the display has, or can still take from the network.
Received ==
    device.accepted \cup UNION {Ids(response.commands) : response \in inbox}

Seen == Received \cup device.forgotten

\* The queue of s may come after that of r.
Follows(r, s) ==
    /\ Queued(r) \ Queued(s) \subseteq Acknowledged
    /\ (Queued(s) \ Queued(r)) \cap Seen = {}

FollowInv ==
    /\ \A r \in Copies : Follows(disk, r)
    /\ \A w \in writing : Follows(w, rec)

\* The display acknowledges what it holds, in the request it waits for.
DisplayInv ==
    /\ Acknowledged \subseteq device.accepted \cup device.forgotten
    /\ device.acks \subseteq Acknowledged
    /\ \A id \in Seen : id <= drawn
    /\ device.nonce = 0 => device.acks = {} /\ inbox = {}
    /\ \A request \in sent : request.nonce = device.nonce =>
         request.acks = device.acks
    /\ drawn <= MaxCommands

\* Nothing the display may forget is in a queue, and no response to come
\* brings it back.
Harmless(response) ==
    Ids(response.commands) \cap (device.forgotten \cup device.acks) = {}

ForgetInv ==
    /\ Received \ Acknowledged \subseteq Queued(disk)
    /\ \A r \in Copies : Queued(r) \cap device.forgotten = {}
    /\ \A response \in inbox : Harmless(response)
    /\ inbox # {} => \A r \in Copies : Queued(r) \cap device.acks = {}

\* Record r backs a response: it still has what the response carries and is
\* not yet acknowledged, and lacks what the response confirms.
Backs(r, response) ==
    /\ Ids(response.commands) \subseteq Queued(r) \cup Acknowledged
    /\ response.nonce = device.nonce => Queued(r) \cap device.acks = {}

\* A response that was drafted is backed by the record, by what its handler
\* waits for, and by the disk at the end.
Backed(h) ==
    LET response == call[h].response
    IN  /\ Backs(rec, response)
        /\ wait[h] = "write" => \A w \in writing : Backs(w, response)
        /\ wait[h] = "resume" => Backs(disk, response)
        /\ response.nonce = device.nonce => Harmless(response)

DraftInv ==
    \A h \in Handlers :
      call[h].pc \in {"checkin_save", "delivery_save"} => Backed(h)

QueueInv == FollowInv /\ DisplayInv /\ ForgetInv /\ DraftInv

\* The ids that the display can still receive or has seen.
Live == Seen \cup UNION {Queued(r) : r \in Copies}

\* The date of a copy is between that of the disk and that of the record, and
\* not in the future; an automatic command in a queue is no newer than the
\* date of that copy, and one that was seen no newer than that of the disk.
\* A command of which every copy was lost may share its date with another.
DateInv ==
    /\ \A r \in Copies :
         /\ disk.last_automatic_ota_date <= r.last_automatic_ota_date
         /\ r.last_automatic_ota_date <= rec.last_automatic_ota_date
    /\ rec.last_automatic_ota_date <= clock.day
    /\ \A a \in automatic :
         /\ a.id <= drawn
         /\ \A r \in Copies :
              a.id \in Queued(r) => a.day <= r.last_automatic_ota_date
         /\ a.id \in Seen => a.day <= disk.last_automatic_ota_date
    /\ \A a, b \in automatic :
         a.day = b.day /\ {a.id, b.id} \subseteq Live => a = b

-----------------------------------------------------------------------------
(***************************************************************************)
(* What a step does to the queue.                                          *)
(***************************************************************************)
\* Two records with the same queue and the same date.
SameQueue(r, s) ==
    /\ Queued(s) = Queued(r)
    /\ s.last_automatic_ota_date = r.last_automatic_ota_date

\* Which methods leave the queue alone.
LEMMA OtherMethodsSameQueue ==
    ASSUME NEW r \in Record
    PROVE  /\ SameQueue(r, r)
           /\ \A desired, schedule, changed :
                SameQueue(r, UpdateConfiguration(r, desired, schedule, changed))
           /\ \A revision :
                SameQueue(r, MarkConfigurationDelivered(r, revision))
           /\ \A report : SameQueue(r, ApplyReported(r, report))
           /\ \A enabled, time :
                SameQueue(r, UpdateOtaSettings(r, enabled, time))
           /\ \A nonce : SameQueue(r, RememberNonce(r, nonce))
BY DEF SameQueue, Queued, UpdateConfiguration, MarkConfigurationDelivered,
       ApplyReported, UpdateOtaSettings, RememberNonce, Record

\* Marking commands as delivered keeps their ids.
LEMMA MarkCommandsSameQueue ==
    ASSUME NEW r \in Record, NEW ids
    PROVE  SameQueue(r, MarkCommandsDelivered(r, ids))
<1> DEFINE Marked(c) == [c EXCEPT !.delivered = @ \/ c.id \in ids]
           s == MarkCommandsDelivered(r, ids)
<1>1. /\ s.pending_commands = {Marked(c) : c \in r.pending_commands}
      /\ s.last_automatic_ota_date = r.last_automatic_ota_date
  BY DEF MarkCommandsDelivered, Record
<1>2. \A c \in r.pending_commands : Marked(c).id = c.id
  BY DEF Record, Command
<1> HIDE DEF Marked, s
<1> QED
  BY <1>1, <1>2 DEF SameQueue, Queued, Ids, s

\* Acknowledged ids leave the queue, and nothing else does.
LEMMA AcknowledgeQueue ==
    ASSUME NEW r \in Record, NEW ids
    PROVE  LET s == AcknowledgeCommands(r, ids)
           IN  /\ Queued(s) = Queued(r) \ ids
               /\ s.last_automatic_ota_date = r.last_automatic_ota_date
BY DEF AcknowledgeCommands, Queued, Ids, Record

\* A new command adds its id.
LEMMA EnqueueQueue ==
    ASSUME NEW r \in Record, NEW id, NEW source,
           NEW s \in {EnqueueOtaCommand(r, id, source),
                      EnqueueWifiFullScanCommand(r, id)}
    PROVE  /\ Queued(s) = Queued(r) \/ Queued(s) = Queued(r) \cup {id}
           /\ s.last_automatic_ota_date = r.last_automatic_ota_date
<1>1. CASE s = r
  BY <1>1
<1>2. ASSUME NEW c, c.id = id, s = [r EXCEPT !.pending_commands = @ \cup {c}]
      PROVE  /\ Queued(s) = Queued(r) \cup {id}
             /\ s.last_automatic_ota_date = r.last_automatic_ota_date
  <2>1. /\ s.pending_commands = r.pending_commands \cup {c}
        /\ s.last_automatic_ota_date = r.last_automatic_ota_date
    BY <1>2 DEF Record
  <2> QED
    BY <1>2, <2>1 DEF Queued, Ids
<1>3. s = r \/ \E c : c.id = id /\ s = [r EXCEPT !.pending_commands = @ \cup {c}]
  <2> DEFINE ota == [id |-> id, type |-> "ota_check", source |-> source,
                     delivered |-> FALSE]
             scan == [id |-> id, type |-> "wifi_full_scan", source |-> "none",
                      delivered |-> FALSE]
  <2>1. ota.id = id /\ scan.id = id
    OBVIOUS
  <2>2. \/ s = r
        \/ s = [r EXCEPT !.pending_commands = @ \cup {ota}]
        \/ s = [r EXCEPT !.pending_commands = @ \cup {scan}]
    BY DEF EnqueueOtaCommand, EnqueueWifiFullScanCommand
  <2> HIDE DEF ota, scan
  <2> QED
    BY <2>1, <2>2
<1> QED
  BY <1>1, <1>2, <1>3

\* The queue of the record comes from that of record b: only acknowledged
\* commands have left it, and what is new has an id drawn in this step.  An
\* automatic command is new on a date that b had not seen.
Requeued(b) ==
    /\ Queued(b) \ Queued(rec') \subseteq Acknowledged
    /\ drawn' = drawn \/ (drawn < MaxCommands /\ drawn' = drawn + 1)
    /\ \A id \in Queued(rec') \ Queued(b) : id = drawn + 1 /\ drawn' = id
    /\ \/ /\ automatic' = automatic
          /\ rec'.last_automatic_ota_date
               \in {b.last_automatic_ota_date, clock.day}
       \/ /\ automatic' = automatic \cup {[id |-> drawn + 1, day |-> clock.day]}
          /\ drawn' = drawn + 1
          /\ b.last_automatic_ota_date # clock.day
          /\ rec'.last_automatic_ota_date = clock.day

\* A record with the same queue, while nothing is drawn.
LEMMA SameRequeued ==
    ASSUME NEW b, SameQueue(b, rec'), drawn' = drawn, automatic' = automatic
    PROVE  Requeued(b)
BY DEF SameQueue, Requeued

\* The evaluation of the OTA schedule, after acknowledged commands have left.
LEMMA ScheduledRequeues ==
    ASSUME TypeOK, NEW b \in Record, NEW r \in Record,
           RecordScheduling(r), rec' = Scheduled(r),
           Queued(r) \subseteq Queued(b),
           Queued(b) \ Queued(r) \subseteq Acknowledged,
           r.last_automatic_ota_date = b.last_automatic_ota_date
    PROVE  Requeued(b)
<1> DEFINE enqueued == EnqueueOtaCommand(r, drawn + 1, "automatic")
<1>1. CASE ~Due(r)
  BY <1>1 DEF Requeued, Scheduled, ScheduleAutomaticOta, Due, RecordScheduling
<1>2. CASE Due(r)
  <2>1. enqueued \in Record
    BY EnqueueOtaCommandType DEF TypeOK
  <2>2. Queued(enqueued) = Queued(r) \/ Queued(enqueued) = Queued(r) \cup {drawn + 1}
    BY EnqueueQueue
  <2>3. r.last_automatic_ota_date # clock.day
    BY <1>2 DEF Due, AutomaticOtaDue
  <2>4. rec' = [enqueued EXCEPT !.last_automatic_ota_date = clock.day]
    BY <1>2 DEF Scheduled, ScheduleAutomaticOta, Due
  <2> HIDE DEF enqueued
  <2>5. /\ Queued(rec') = Queued(enqueued)
        /\ rec'.last_automatic_ota_date = clock.day
    BY <2>1, <2>4 DEF Queued, Record
  <2>6. /\ drawn < MaxCommands /\ drawn' = drawn + 1
        /\ automatic' = automatic \cup {[id |-> drawn + 1, day |-> clock.day]}
    BY <1>2 DEF RecordScheduling
  <2> QED
    BY <2>2, <2>3, <2>5, <2>6 DEF Requeued
<1> QED
  BY <1>1, <1>2

\* A check-in drops what its request acknowledges.
LEMMA ProcessRequeues ==
    ASSUME TypeOK, NonceInv, NEW h \in Handlers, Process(h)
    PROVE  /\ Requeued(rec)
           /\ Queued(rec') \cap call[h].request.acks \subseteq {drawn + 1}
<1> DEFINE request == call[h].request
           reported == ApplyReported(rec, request.report)
           acknowledged == AcknowledgeCommands(reported, request.acks)
<1>1. /\ request.report \in Report /\ rec \in Record
      /\ request.acks \subseteq Acknowledged
  BY DEF TypeOK, Call, Request, Process, NonceInv, Acknowledged
<1>2. reported \in Record /\ SameQueue(rec, reported)
  BY <1>1, ApplyReportedType, OtherMethodsSameQueue
<1> HIDE DEF reported
<1>3. /\ acknowledged \in Record
      /\ Queued(acknowledged) = Queued(reported) \ request.acks
      /\ acknowledged.last_automatic_ota_date = reported.last_automatic_ota_date
  BY <1>2, AcknowledgeCommandsType, AcknowledgeQueue
<1>4. RecordScheduling(acknowledged) /\ rec' = Scheduled(acknowledged)
  BY DEF Process, Save, reported
<1> HIDE DEF acknowledged
<1>5. Requeued(acknowledged) /\ Requeued(rec)
  BY <1>1, <1>2, <1>3, <1>4, ScheduledRequeues DEF SameQueue
<1> QED
  BY <1>3, <1>5 DEF Requeued

\* The last part of a check-in keeps the queue.
LEMMA PrepareRequeues ==
    ASSUME TypeOK, NEW h \in Handlers, Prepare(h)
    PROVE  Requeued(rec)
<1> DEFINE response == [call[h].response EXCEPT
                          !.revision = rec.desired_revision,
                          !.values = rec.desired]
           delivered == MarkConfigurationDelivered(rec, response.revision)
           marked == MarkCommandsDelivered(delivered, Ids(response.commands))
<1>1. response.revision \in Nat /\ rec \in Record
  BY FieldTypes DEF TypeOK, Call, Response
<1>2. rec' = marked \/ rec' = rec
  BY DEF Prepare, Save, Release
<1>3. drawn' = drawn /\ automatic' = automatic
  BY DEF Prepare, ghosts
<1> HIDE DEF response
<1>4. delivered \in Record /\ SameQueue(rec, delivered)
  BY <1>1, MarkConfigurationDeliveredType, OtherMethodsSameQueue
<1> HIDE DEF delivered
<1>5. SameQueue(delivered, marked)
  BY <1>4, MarkCommandsSameQueue
<1> HIDE DEF marked
<1> QED
  BY <1>1, <1>2, <1>3, <1>4, <1>5, OtherMethodsSameQueue, SameRequeued
     DEF SameQueue

\* So does everything the user does, but for new commands.
LEMMA UserRequeues ==
    ASSUME TypeOK,
           \/ \E key \in DOMAIN DefaultDesired, value \in BOOLEAN :
                SetDesired(key, value)
           \/ \E value \in BOOLEAN : SetAutomaticOta(value)
           \/ TurnOnManualOta \/ TurnOnWifiFullScan
           \/ \E schedule \in Schedules, new \in Contents, time \in CheckTimes :
                Reconfigure(schedule, new, time)
    PROVE  Requeued(rec)
<1>0. rec \in Record
  BY DEF TypeOK
<1>1. ASSUME NEW key \in DOMAIN DefaultDesired, NEW value \in BOOLEAN,
             SetDesired(key, value)
      PROVE  Requeued(rec)
  BY <1>0, <1>1, OtherMethodsSameQueue, SameRequeued
     DEF SetDesired, Save, ghosts
<1>2. ASSUME NEW value \in BOOLEAN, SetAutomaticOta(value)
      PROVE  Requeued(rec)
  <2> DEFINE updated == UpdateOtaSettings(rec, value, rec.ota_check_time)
             deferred == DeferAutomaticOtaUntilNextDay(updated, clock.day)
  <2>1. updated \in Record /\ SameQueue(rec, updated)
    BY <1>0, FieldTypes, UpdateOtaSettingsType, OtherMethodsSameQueue
  <2>2. rec' = updated \/ rec' = deferred
    BY <1>2 DEF SetAutomaticOta, Save
  <2>3. drawn' = drawn /\ automatic' = automatic
    BY <1>2 DEF SetAutomaticOta, ghosts
  <2> HIDE DEF updated
  <2>4. /\ Queued(deferred) = Queued(updated)
        /\ deferred.last_automatic_ota_date
             \in {updated.last_automatic_ota_date, clock.day}
    BY <2>1 DEF DeferAutomaticOtaUntilNextDay, Queued, Record
  <2> HIDE DEF deferred
  <2> QED
    BY <2>1, <2>2, <2>3, <2>4 DEF SameQueue, Requeued
<1>3. CASE TurnOnManualOta \/ TurnOnWifiFullScan
  <2>1. rec' \in {EnqueueOtaCommand(rec, drawn + 1, "manual"),
                  EnqueueWifiFullScanCommand(rec, drawn + 1)}
    BY <1>3 DEF TurnOnManualOta, TurnOnWifiFullScan, Save
  <2>2. /\ drawn < MaxCommands /\ drawn' = drawn + 1
        /\ automatic' = automatic
    BY <1>3 DEF TurnOnManualOta, TurnOnWifiFullScan, Draw
  <2> QED
    BY <1>0, <2>1, <2>2, EnqueueQueue DEF Requeued
<1>4. ASSUME NEW schedule \in Schedules, NEW new \in Contents,
             NEW time \in CheckTimes, Reconfigure(schedule, new, time)
      PROVE  Requeued(rec)
  <2> DEFINE configured == UpdateConfiguration(rec, rec.desired, schedule,
                                               new # content)
  <2>1. configured \in Record /\ SameQueue(rec, configured)
    BY <1>0, FieldTypes, UpdateConfigurationType, OtherMethodsSameQueue
  <2>2. /\ rec' = UpdateOtaSettings(configured, rec.automatic_ota_enabled, time)
        /\ drawn' = drawn /\ automatic' = automatic
    BY <1>4 DEF Reconfigure, Save, ghosts
  <2> HIDE DEF configured
  <2> QED
    BY <2>1, <2>2, OtherMethodsSameQueue, SameRequeued DEF SameQueue
<1> QED
  BY <1>1, <1>2, <1>3, <1>4

\* Every step gives the record a queue that comes from the one it had; a
\* restart, from the one on the disk.
LEMMA QueueSteps ==
    TypeOK /\ StoreInv /\ NonceInv /\ [Next]_vars
    => Requeued(rec) \/ (Restart /\ Requeued(disk))
<1> SUFFICES ASSUME TypeOK, StoreInv, NonceInv, [Next]_vars
             PROVE  Requeued(rec) \/ (Restart /\ Requeued(disk))
  OBVIOUS
<1>0. rec \in Record /\ SameQueue(rec, rec)
  BY DEF TypeOK, SameQueue
<1>1. CASE MinuteTick
  <2>1. RecordScheduling(rec) /\ (Due(rec) => rec' = Scheduled(rec))
    BY <1>1 DEF MinuteTick, Save
  <2>2. ~Due(rec) => rec' = rec /\ drawn' = drawn /\ automatic' = automatic
    BY <1>1 DEF MinuteTick, store, RecordScheduling
  <2> QED
    BY <1>0, <2>1, <2>2, ScheduledRequeues, SameRequeued
<1>2. ASSUME NEW h \in Handlers,
             Authenticate(h) \/ Process(h) \/ Prepare(h) \/ Return(h)
      PROVE  Requeued(rec)
  <2>1. CASE Authenticate(h)
    <3>1. PICK request \in sent : rec' = RememberNonce(rec, request.nonce)
      BY <2>1 DEF Authenticate, Save
    <3>2. drawn' = drawn /\ automatic' = automatic
      BY <2>1 DEF Authenticate, ghosts
    <3> QED
      BY <1>0, <3>1, <3>2, OtherMethodsSameQueue, SameRequeued
  <2>2. CASE Return(h)
    BY <1>0, <2>2, SameRequeued DEF Return, Release, ghosts
  <2> QED
    BY <1>2, <2>1, <2>2, ProcessRequeues, PrepareRequeues
<1>3. CASE ScheduleAfterReconfigure
  BY <1>0, <1>3, ScheduledRequeues DEF ScheduleAfterReconfigure, Save
<1>4. CASE Restart
  <2>1. disk \in Record /\ FromDict(disk) = disk
    BY FromDictIdentity DEF StoreInv, Copies, Consistent, TypeOK
  <2>2. RecordScheduling(disk) /\ rec' = Scheduled(disk)
    BY <1>4, <2>1 DEF Restart
  <2> QED
    BY <1>4, <2>1, <2>2, ScheduledRequeues
<1>5. CASE \/ StartWrite \/ FinishWrite \/ FinishReconfigure
           \/ PassTime \/ MoveTimezone \/ Send \/ Receive \/ GiveUp
           \/ UNCHANGED vars
  <2>1. rec' = rec /\ drawn' = drawn /\ automatic' = automatic
    BY <1>5 DEF StartWrite, FinishWrite, FinishReconfigure, PassTime,
       MoveTimezone, Send, Receive, GiveUp, Release, vars, store, ghosts
  <2> QED
    BY <1>0, <2>1, SameRequeued
<1> QED
  BY <1>1, <1>2, <1>3, <1>4, <1>5, UserRequeues DEF Next

-----------------------------------------------------------------------------
(***************************************************************************)
(* The invariant is kept: the copies of the queue.                         *)
(***************************************************************************)
\* What the display has seen was drawn, so a new id is not among it.
LEMMA NewIsUnseen ==
    ASSUME TypeOK, DisplayInv
    PROVE  drawn + 1 \notin Seen
BY DEF DisplayInv, TypeOK

\* What it acknowledges it has seen.
LEMMA AcknowledgedSeen ==
    ASSUME DisplayInv
    PROVE  Acknowledged \subseteq Seen /\ device.acks \subseteq Seen
BY DEF DisplayInv, Seen, Received

\* Following is transitive.
LEMMA FollowsTransitive ==
    ASSUME NEW r, NEW s, NEW t, Follows(r, s), Follows(s, t)
    PROVE  Follows(r, t)
BY DEF Follows

\* A queue follows the one it comes from.
LEMMA RequeuedFollows ==
    ASSUME TypeOK, DisplayInv, NEW b, Requeued(b)
    PROVE  Follows(b, rec')
BY NewIsUnseen DEF Requeued, Follows

\* In the new state each copy follows the disk, with respect to what was
\* acknowledged and seen before the step.
LEMMA CopiesFollow ==
    ASSUME TypeOK, StoreInv, StoreStep, DisplayInv, FollowInv,
           Requeued(rec) \/ (Restart /\ Requeued(disk))
    PROVE  /\ \A r \in Copies' : Follows(disk', r)
           /\ \A w \in writing' : Follows(w, rec')
<1>1. \A r : Follows(r, r)
  BY DEF Follows
<1>2. Follows(disk, rec) /\ \A r \in Copies : Follows(disk, r)
  BY DEF FollowInv, Copies
<1>3. Follows(disk, rec')
  BY <1>2, RequeuedFollows, FollowsTransitive
<1>4. CASE Reload \/ Restart
  <2>1. /\ disk' = disk /\ kept' = {}
        /\ writing' = {rec'} \/ writing' = {}
    BY <1>4, RestartReloads DEF Reload
  <2> QED
    BY <1>1, <1>3, <2>1 DEF Copies
<1>5. CASE StartWrite
  BY <1>1, <1>2, <1>5 DEF StartWrite, StoreInv, NewestSnapshotIsCurrent, Copies
<1>6. CASE FinishWrite
  <2>1. PICK w \in writing : disk' = w
    BY <1>6 DEF FinishWrite
  <2>2. rec' = rec /\ writing' = {} /\ kept' = kept /\ kept \subseteq {rec}
    BY <1>6 DEF FinishWrite, StoreInv, NewestSnapshotIsCurrent
  <2> QED
    BY <1>1, <2>1, <2>2 DEF FollowInv, Copies
<1>7. CASE ExtendingSave /\ ~Restart
  <2>1. PICK S \in Waiters : Save(rec', S)
    BY <1>7 DEF ExtendingSave
  <2>2. disk' = disk
    BY <2>1 DEF Save
  <2>3. /\ writing' = {rec'} \/ writing' = writing
        /\ kept' = {rec'} \/ kept' = kept
    BY <2>1 DEF Save
  <2>4. Follows(rec, rec')
    BY <1>7, RequeuedFollows
  <2>5. \A w \in writing : Follows(w, rec')
    BY <2>4, FollowsTransitive DEF FollowInv
  <2>6. \A r \in Copies' : Follows(disk, r)
    BY <1>2, <1>3, <2>2, <2>3 DEF Copies
  <2> QED
    BY <1>1, <2>2, <2>3, <2>5, <2>6
<1>8. CASE (\E c \in Callers : Release(c)) \/ UNCHANGED store
  BY <1>2, <1>8 DEF Release, store, Copies, FollowInv
<1> QED
  BY <1>4, <1>5, <1>6, <1>7, <1>8 DEF StoreStep

\* What the display has seen and no queue has, no queue gets.
LEMMA GoneStaysGone ==
    ASSUME TypeOK, StoreInv, StoreStep, DisplayInv,
           Requeued(rec) \/ (Restart /\ Requeued(disk)),
           NEW X \in SUBSET Seen, \A r \in Copies : Queued(r) \cap X = {}
    PROVE  \A r \in Copies' : Queued(r) \cap X = {}
<1>1. Copies' \subseteq Copies \cup {rec'} /\ rec \in Copies /\ disk \in Copies
  BY CopySteps DEF Copies
<1>2. Queued(rec') \cap X = {}
  BY <1>1, NewIsUnseen DEF Requeued
<1> QED
  BY <1>1, <1>2

-----------------------------------------------------------------------------
(***************************************************************************)
(* The responses on their way.                                             *)
(***************************************************************************)
\* What follows a record that backs a response backs it too.
LEMMA BacksFollows ==
    ASSUME DisplayInv, NEW r, NEW s, NEW response, Follows(r, s),
           Backs(r, response)
    PROVE  Backs(s, response)
BY AcknowledgedSeen DEF Follows, Backs

\* A response stays backed while its handler waits.
LEMMA BackedKept ==
    ASSUME TypeOK, StoreInv, LockInv, DisplayInv, StoreStep, Requeued(rec),
           UNCHANGED <<device, sent>>,
           NEW h \in Handlers, Backed(h), call'[h] = call[h]
    PROVE  Backed(h)'
<1> DEFINE response == call[h].response
           In(r) == Backs(r, response)
<1>0. h \in Callers
  BY DEF Callers
<1>1. In(rec')
  BY RequeuedFollows, BacksFollows DEF Backed
<1>2. /\ wait[h] = "write" => \A w \in writing : In(w)
      /\ wait[h] = "resume" => In(disk)
      /\ response.nonce = device.nonce => Harmless(response)
  BY DEF Backed
<1>3. SUFFICES /\ wait'[h] = "write" => \A w \in writing' : In(w)
               /\ wait'[h] = "resume" => In(disk')
  BY <1>1, <1>2 DEF Backed, Backs, Harmless, Acknowledged
<1> HIDE DEF In, response
<1>4. CASE StartWrite
  <2>1. kept = {rec} /\ writing' = {rec} /\ rec' = rec
    BY <1>4 DEF StartWrite, StoreInv, NewestSnapshotIsCurrent
  <2>2. wait'[h] # "resume"
    BY <1>0, <1>4 DEF StartWrite, LockFree, TypeOK
  <2> QED
    BY <1>1, <2>1, <2>2
<1>5. CASE FinishWrite
  BY <1>0, <1>2, <1>5 DEF FinishWrite, LockInv
<1>6. CASE ExtendingSave
  <2>1. PICK S \in Waiters : Save(rec', S)
    BY <1>6 DEF ExtendingSave
  <2>2. \/ wait'[h] = "write" /\ writing' = {rec'}
        \/ wait'[h] = "lock"
        \/ wait'[h] = wait[h] /\ writing' = {rec'}
        \/ wait'[h] = wait[h] /\ writing' = writing
    BY <1>0, <2>1 DEF Save
  <2>3. disk' = disk
    BY <2>1 DEF Save
  <2> QED
    BY <1>1, <1>2, <2>2, <2>3
<1>7. CASE \E c \in Callers : Release(c)
  BY <1>0, <1>2, <1>7 DEF Release, TypeOK
<1>8. CASE Reload
  BY <1>0, <1>8 DEF Reload
<1>9. CASE UNCHANGED store
  BY <1>2, <1>9 DEF store
<1> QED
  BY <1>4, <1>5, <1>6, <1>7, <1>8, <1>9 DEF StoreStep

\* What a response carries is in the queue it was drawn from.
LEMMA DeliverableQueued ==
    ASSUME NEW r \in Record, NEW commands \in DeliverableCommands(r)
    PROVE  Ids(commands) \subseteq Queued(r)
<1> DEFINE Public1(c) == [id |-> c.id, type |-> c.type]
<1>1. \A p \in commands : \E c \in r.pending_commands : p = Public1(c)
  BY DEF DeliverableCommands
<1>2. \A c : Public1(c).id = c.id
  OBVIOUS
<1> HIDE DEF Public1
<1> QED
  BY <1>1, <1>2 DEF Ids, Queued

\* A new draft is backed by the record that Process saves.
LEMMA DraftBacked ==
    ASSUME TypeOK, TypeOK', StoreInv, StoreStep, NonceInv, DisplayInv, ForgetInv,
           NEW h \in Handlers, DraftStep(h)
    PROVE  Backed(h)'
<1> DEFINE request == call[h].request
           response == call'[h].response
<1>1. /\ Process(h) /\ device' = device /\ sent' = sent
      /\ response.nonce = request.nonce /\ request \in sent
      /\ Ids(response.commands) \subseteq Queued(rec')
  BY DeliverableQueued DEF DraftStep, display, NonceInv, TypeOK
<1>2. /\ Requeued(rec)
      /\ Queued(rec') \cap request.acks \subseteq {drawn + 1}
  BY <1>1, ProcessRequeues
<1>3. /\ wait'[h] \in {"lock", "write"}
      /\ wait'[h] = "write" => writing' = {rec'}
  BY <1>1 DEF Process, Save, Callers
<1>4. Queued(rec') \cap device.forgotten = {}
  <2>1. device.forgotten \in SUBSET Seen /\ rec' \in Copies'
    BY DEF Seen, Copies
  <2> QED
    BY <1>2, <2>1, GoneStaysGone DEF ForgetInv
<1>5. response.nonce = device.nonce => Queued(rec') \cap device.acks = {}
  <2>1. response.nonce = device.nonce => request.acks = device.acks
    BY <1>1 DEF DisplayInv
  <2> QED
    BY <1>2, <2>1, NewIsUnseen, AcknowledgedSeen
<1>6. Acknowledged' = Acknowledged
  BY <1>1 DEF Acknowledged
<1>7. Backs(rec, call[h].response)'
  BY <1>1, <1>5, <1>6 DEF Backs
<1>8. (call[h].response.nonce = device.nonce => Harmless(call[h].response))'
  BY <1>1, <1>4, <1>5 DEF Harmless
<1>9. (wait[h] = "write" => \A w \in writing : Backs(w, call[h].response))'
  BY <1>3, <1>7
<1>10. (wait[h] = "resume" => Backs(disk, call[h].response))'
  BY <1>3
<1> QED
  BY <1>7, <1>8, <1>9, <1>10 DEF Backed

\* A response that is returned is backed by every copy.
LEMMA AnswerBacked ==
    ASSUME TypeOK, StoreInv, LockInv, NonceInv, DraftInv,
           NEW h \in Handlers, AnswerStep(h), NEW response \in inbox'
    PROVE  \/ response \in inbox
           \/ /\ response.nonce = device.nonce /\ response.nonce # 0
              /\ Harmless(response)
              /\ \A r \in Copies : Backs(r, response)
<1> SUFFICES ASSUME response.nonce = device.nonce, Returned(h, response)
             PROVE  /\ response.nonce # 0 /\ Harmless(response)
                    /\ \A r \in Copies : Backs(r, response)
  BY DEF AnswerStep
<1>1. /\ call[h].pc \in {"checkin_save", "delivery_save"} /\ Resumes(h)
      /\ response.nonce = call[h].response.nonce
      /\ response.commands = call[h].response.commands
  BY DEF AnswerStep, Returned
<1>2. response.nonce # 0
  BY <1>1 DEF NonceInv
<1>3. Harmless(response)
  BY <1>1 DEF DraftInv, Backed, Harmless
<1>4. \A r : Backs(r, call[h].response) => Backs(r, response)
  BY <1>1 DEF Backs
<1>5. Backed(h)
  BY <1>1 DEF DraftInv
<1>6. h \in Callers
  BY DEF Callers
<1>7. writing = {} /\ kept \subseteq {rec}
  BY <1>1, <1>6, ResumesAlone DEF StoreInv, NewestSnapshotIsCurrent
<1>8. wait[h] = "resume" \/ disk = rec
  BY <1>1, <1>7 DEF Resumes, StoreInv, NewestSnapshotIsCurrent
<1>9. Backs(rec, response) /\ Backs(disk, response)
  BY <1>4, <1>5, <1>8 DEF Backed
<1> QED
  BY <1>2, <1>3, <1>7, <1>9 DEF Copies

-----------------------------------------------------------------------------
(***************************************************************************)
(* What the display does.                                                  *)
(***************************************************************************)
\* The steps after which it has what it had, and has acknowledged the same.
QuietStep == UNCHANGED display

LEMMA QuietKeeps ==
    ASSUME QuietStep
    PROVE  /\ Acknowledged' = Acknowledged /\ Received' = Received
           /\ Seen' = Seen
BY DEF QuietStep, display, Acknowledged, Received, Seen

\* Sending acknowledges some of what it holds.
LEMMA SendAcknowledges ==
    ASSUME TypeOK, Send
    PROVE  /\ device.nonce = 0 /\ device'.nonce = device.requests + 1
           /\ device'.accepted = device.accepted
           /\ device'.forgotten = device.forgotten
           /\ device'.acks \subseteq device.accepted
           /\ Acknowledged' = Acknowledged \cup device'.acks
           /\ \A request \in sent' : \/ request \in sent
                                     \/ request.acks = device'.acks
           /\ inbox' = inbox /\ UNCHANGED <<store, call>>
<1>1. PICK acks \in SUBSET device.accepted :
        /\ device' = [device EXCEPT !.requests = device.requests + 1,
                                    !.acks = acks,
                                    !.nonce = device.requests + 1]
        /\ sent' = sent \cup {[nonce |-> device.requests + 1, acks |-> acks,
                               report |-> CurrentReport]}
  BY DEF Send
<1> DEFINE new == [nonce |-> device.requests + 1, acks |-> acks,
                   report |-> CurrentReport]
<1>2. new.acks = acks /\ sent' = sent \cup {new}
  BY <1>1
<1> HIDE DEF new
<1>3. /\ device'.nonce = device.requests + 1 /\ device'.acks = acks
      /\ device'.accepted = device.accepted
      /\ device'.forgotten = device.forgotten
  BY <1>1 DEF TypeOK, Device
<1>4. Acknowledged' = Acknowledged \cup device'.acks
  BY <1>2, <1>3 DEF Acknowledged
<1> QED
  BY <1>2, <1>3, <1>4 DEF Send

\* A response confirms the acknowledgements of the request it answers.
LEMMA ReceiveConfirms ==
    ASSUME TypeOK, Receive
    PROVE  \E response \in inbox :
             /\ device'.accepted
                  = (device.accepted \ device.acks) \cup Ids(response.commands)
             /\ device'.forgotten = device.forgotten \cup device.acks
             /\ device'.nonce = 0 /\ device'.acks = {} /\ inbox' = {}
             /\ sent' = sent /\ UNCHANGED <<store, call>>
<1>1. PICK response \in inbox, applied \in BOOLEAN :
        device' = [device EXCEPT
                !.nonce = 0, !.acks = {}, !.revision = response.revision,
                !.values = response.values, !.applied = applied,
                !.accepted = (@ \ device.acks) \cup Ids(response.commands),
                !.forgotten = @ \cup device.acks]
  BY DEF Receive
<1> QED
  BY <1>1 DEF Receive, TypeOK, Device

LEMMA GiveUpForgets ==
    ASSUME TypeOK, GiveUp
    PROVE  /\ device'.accepted = device.accepted
           /\ device'.forgotten = device.forgotten
           /\ device'.nonce = 0 /\ device'.acks = {} /\ inbox' = {}
           /\ sent' = sent /\ UNCHANGED <<store, call>>
BY DEF GiveUp, TypeOK, Device

\* Receive and GiveUp show the display nothing new.
LEMMA NothingNewIsSeen ==
    ASSUME TypeOK, DisplayInv, Receive \/ GiveUp
    PROVE  /\ Acknowledged' = Acknowledged
           /\ Received' \subseteq Received /\ Seen' \subseteq Seen
<1>1. CASE Receive
  BY <1>1, ReceiveConfirms, AcknowledgedSeen
     DEF Acknowledged, Received, Seen
<1>2. CASE GiveUp
  BY <1>2, GiveUpForgets DEF Acknowledged, Received, Seen
<1> QED
  BY <1>1, <1>2

\* Every step is quiet, an answer or one of these three.
LEMMA DisplaySteps ==
    ASSUME CallStep
    PROVE  \/ QuietStep
           \/ \E h \in Handlers : AnswerStep(h)
           \/ Send \/ Receive \/ GiveUp
BY DEF CallStep, BeginStep, DraftStep, MarkStep, OtherStep, Restart, QuietStep

\* Whatever the display sees for the first time is on the disk.
LEMMA SeenFromDisk ==
    ASSUME TypeOK, StoreInv, LockInv, NonceInv, QueueInv, CallStep
    PROVE  Seen' \subseteq Seen \cup Queued(disk)
<1> USE DEF QueueInv
<1>1. CASE QuietStep
  BY <1>1, QuietKeeps
<1>2. ASSUME NEW h \in Handlers, AnswerStep(h)
      PROVE  Seen' \subseteq Seen \cup Queued(disk)
  <2>1. device' = device /\ disk \in Copies
    BY <1>2 DEF AnswerStep, Copies
  <2>2. \A response \in inbox' :
          Ids(response.commands) \subseteq Seen \cup Queued(disk)
    BY <1>2, <2>1, AnswerBacked, AcknowledgedSeen DEF Backs, Seen, Received
  <2> QED
    BY <2>1, <2>2 DEF Seen, Received
<1>3. CASE Send
  BY <1>3, SendAcknowledges DEF Seen, Received
<1>4. CASE Receive \/ GiveUp
  BY <1>4, NothingNewIsSeen
<1> QED
  BY <1>1, <1>2, <1>3, <1>4, DisplaySteps

-----------------------------------------------------------------------------
(***************************************************************************)
(* Every step keeps the invariant.                                         *)
(***************************************************************************)
\* What a step does to the queues.
QueueStep == Requeued(rec) \/ (Restart /\ Requeued(disk))

\* Steps that leave the store alone.
LEMMA SameCopies ==
    ASSUME UNCHANGED <<rec, disk, writing, kept>>
    PROVE  Copies' = Copies
BY DEF Copies

\* Copies that follow still do when more is acknowledged, and what is newly
\* seen comes from the disk.
LEMMA FollowsLater ==
    ASSUME DisplayInv, FollowInv, UNCHANGED <<rec, disk, writing, kept>>,
           Acknowledged \subseteq Acknowledged',
           Seen' \subseteq Seen \cup Queued(disk)
    PROVE  FollowInv'
<1>1. Copies' = Copies
  BY SameCopies
<1>2. \A r \in Copies : Follows(disk, r)'
  BY DEF FollowInv, Follows, Queued
<1>3. \A w \in writing : Follows(w, rec)'
  <2>1. \A w \in writing : Queued(disk) \ Queued(w) \subseteq Seen
    BY AcknowledgedSeen DEF FollowInv, Follows, Copies
  <2> QED
    BY <2>1 DEF FollowInv, Follows, Queued
<1> QED
  BY <1>1, <1>2, <1>3 DEF FollowInv

\* The ids in a queue have been drawn.
LEMMA QueuedDrawn ==
    ASSUME TypeOK, StoreInv, NEW r \in Copies, NEW id \in Queued(r)
    PROVE  id \in Nat /\ 1 <= id /\ id <= drawn
<1>1. r \in Record /\ Consistent(r, drawn)
  BY DEF TypeOK, StoreInv, Copies
<1>2. PICK c \in r.pending_commands : c.id = id
  BY DEF Queued, Ids
<1>3. c \in Command
  BY <1>1, <1>2 DEF Record
<1> QED
  BY <1>1, <1>2, <1>3 DEF Consistent, Command

LEMMA NextFollowInv ==
    ASSUME TypeOK, StoreInv, LockInv, NonceInv, QueueInv, StoreStep, CallStep,
           QueueStep
    PROVE  FollowInv'
<1> USE DEF QueueInv
<1>1. CASE QuietStep
  BY <1>1, CopiesFollow, QuietKeeps DEF QueueStep, FollowInv, Follows
<1>2. ASSUME NEW h \in Handlers, AnswerStep(h) PROVE FollowInv'
  <2>1. Acknowledged' = Acknowledged
    BY <1>2 DEF AnswerStep, Acknowledged
  <2>2. Seen' \subseteq Seen \cup Queued(disk)
    BY SeenFromDisk
  <2> QED
    BY <1>2, <2>1, <2>2, FollowsLater DEF AnswerStep
<1>3. CASE Send
  <2>1. Seen' = Seen
    BY <1>3, SendAcknowledges DEF Seen, Received
  <2> QED
    BY <1>3, <2>1, SendAcknowledges, FollowsLater DEF store
<1>4. CASE Receive \/ GiveUp
  BY <1>4, NothingNewIsSeen, FollowsLater DEF Receive, GiveUp, store
<1> QED
  BY <1>1, <1>2, <1>3, <1>4, DisplaySteps

LEMMA NextDisplayInv ==
    ASSUME TypeOK, TypeOK', StoreInv, LockInv, NonceInv, QueueInv, CallStep,
           QueueStep
    PROVE  DisplayInv'
<1> USE DEF QueueInv
<1>0. /\ drawn \in Nat /\ drawn' \in Nat /\ drawn <= drawn'
      /\ drawn' <= MaxCommands
  BY BoundAssumption DEF QueueStep, Requeued, TypeOK, DisplayInv
<1>1. \A id \in Nat : id <= drawn => id <= drawn'
  BY <1>0
<1>2. \A id \in Queued(disk) : id \in Nat /\ id <= drawn
  BY QueuedDrawn DEF Copies
<1>3. Seen \subseteq Nat
  BY DEF TypeOK, Device, Response, Public, Seen, Received, Ids
<1>4. CASE QuietStep
  BY <1>0, <1>1, <1>3, <1>4, QuietKeeps
     DEF QuietStep, display, DisplayInv
<1>5. ASSUME NEW h \in Handlers, AnswerStep(h) PROVE DisplayInv'
  <2>1. device' = device /\ sent' = sent /\ Acknowledged' = Acknowledged
    BY <1>5 DEF AnswerStep, Acknowledged
  <2>2. \A response \in inbox' :
          response \in inbox \/ device.nonce # 0
    BY <1>5, AnswerBacked
  <2>3. Seen' \subseteq Seen \cup Queued(disk)
    BY SeenFromDisk
  <2>4. \A id \in Seen' : id <= drawn'
    BY <1>1, <1>2, <1>3, <2>3 DEF DisplayInv
  <2>5. device.nonce = 0 => inbox' = {}
    BY <2>2 DEF DisplayInv
  <2> QED
    BY <1>0, <2>1, <2>4, <2>5 DEF DisplayInv
<1>6. CASE Send
  <2>1. Seen' = Seen
    BY <1>6, SendAcknowledges DEF Seen, Received
  <2>2. device'.nonce # 0
    BY <1>6, SendAcknowledges DEF TypeOK, Device
  <2>3. \A request \in sent : request.nonce # device'.nonce
    BY <1>6, SendAcknowledges DEF NonceInv, TypeOK, Device, Request
  <2> QED
    BY <1>0, <1>1, <1>3, <1>6, <2>1, <2>2, <2>3, SendAcknowledges
       DEF DisplayInv
<1>7. CASE Receive \/ GiveUp
  <2>1. /\ device'.nonce = 0 /\ device'.acks = {} /\ inbox' = {}
        /\ sent' = sent /\ Acknowledged' = Acknowledged /\ Seen' \subseteq Seen
        /\ device.accepted \cup device.forgotten
             \subseteq device'.accepted \cup device'.forgotten
    BY <1>7, NothingNewIsSeen, ReceiveConfirms, GiveUpForgets
  <2>2. \A request \in sent : request.nonce # 0
    BY DEF NonceInv
  <2> QED
    BY <1>0, <1>1, <1>3, <2>1, <2>2 DEF DisplayInv
<1> QED
  BY <1>4, <1>5, <1>6, <1>7, DisplaySteps

LEMMA NextForgetInv ==
    ASSUME TypeOK, StoreInv, LockInv, NonceInv, QueueInv, StoreStep, CallStep,
           QueueStep
    PROVE  ForgetInv'
<1> USE DEF QueueInv
<1>1. CASE QuietStep
  <2>1. device' = device /\ inbox' = inbox
    BY <1>1 DEF QuietStep, display
  <2>2. Received' \ Acknowledged' \subseteq Queued(disk')
    <3>1. disk' \in Copies
      BY CopySteps DEF Copies
    <3> QED
      BY <1>1, <3>1, QuietKeeps DEF ForgetInv, FollowInv, Follows
  <2>3. \A r \in Copies' : Queued(r) \cap device.forgotten = {}
    <3>1. device.forgotten \in SUBSET Seen
      BY DEF Seen
    <3> QED
      BY <3>1, GoneStaysGone DEF ForgetInv, QueueStep
  <2>4. inbox # {} => \A r \in Copies' : Queued(r) \cap device.acks = {}
    <3>1. device.acks \in SUBSET Seen
      BY AcknowledgedSeen
    <3> QED
      BY <3>1, GoneStaysGone DEF ForgetInv, QueueStep
  <2> QED
    BY <2>1, <2>2, <2>3, <2>4 DEF ForgetInv, Harmless, Queued
<1>2. ASSUME NEW h \in Handlers, AnswerStep(h) PROVE ForgetInv'
  <2>1. /\ device' = device /\ sent' = sent /\ disk' = disk
        /\ Acknowledged' = Acknowledged /\ Copies' = Copies
    BY <1>2, SameCopies DEF AnswerStep, Acknowledged
  <2>2. \A response \in inbox' :
          /\ Harmless(response)
          /\ Ids(response.commands) \subseteq Queued(disk) \cup Acknowledged
    BY <1>2, AnswerBacked DEF ForgetInv, Backs, Copies, Received
  <2>3. inbox' # {} => \A r \in Copies : Queued(r) \cap device.acks = {}
    BY <1>2, AnswerBacked DEF ForgetInv, Backs
  <2>4. Received' \ Acknowledged' \subseteq Queued(disk')
    BY <2>1, <2>2 DEF ForgetInv, Received
  <2> QED
    BY <2>1, <2>2, <2>3, <2>4 DEF ForgetInv, Harmless, Queued
<1>3. CASE Send
  <2>1. inbox' = {} /\ Received' = Received /\ Acknowledged \subseteq Acknowledged'
    BY <1>3, SendAcknowledges DEF DisplayInv, Received
  <2>2. Copies' = Copies /\ disk' = disk /\ device'.forgotten = device.forgotten
    BY <1>3, SendAcknowledges, SameCopies DEF store
  <2> QED
    BY <2>1, <2>2 DEF ForgetInv, Queued
<1>4. CASE Receive \/ GiveUp
  <2>1. /\ Received' \subseteq Received /\ Acknowledged' = Acknowledged
        /\ inbox' = {}
    BY <1>4, NothingNewIsSeen, ReceiveConfirms, GiveUpForgets
  <2>2. Copies' = Copies /\ disk' = disk
    BY <1>4, SameCopies DEF Receive, GiveUp, store
  <2>3. \A r \in Copies : Queued(r) \cap device'.forgotten = {}
    BY <1>4, ReceiveConfirms, GiveUpForgets DEF ForgetInv
  <2> QED
    BY <2>1, <2>2, <2>3 DEF ForgetInv, Queued
<1> QED
  BY <1>1, <1>2, <1>3, <1>4, DisplaySteps

LEMMA NextDraftInv ==
    ASSUME TypeOK, TypeOK', StoreInv, LockInv, NonceInv, QueueInv, StoreStep,
           CallStep, QueueStep
    PROVE  DraftInv'
<1> USE DEF QueueInv
<1>1. CASE Restart
  BY <1>1 DEF Restart, IdleCall, DraftInv
<1>2. ASSUME ~Restart, UNCHANGED <<device, sent>>,
             NEW h \in Handlers, call'[h] = call[h],
             call'[h].pc \in {"checkin_save", "delivery_save"}
      PROVE  Backed(h)'
  BY <1>2, BackedKept DEF QueueStep, DraftInv
<1>3. ASSUME ~Restart, NEW h \in Handlers,
             BeginStep(h) \/ DraftStep(h) \/ MarkStep(h) \/ AnswerStep(h)
      PROVE  DraftInv'
  <2>1. OthersSame(h) /\ UNCHANGED <<device, sent>>
    BY <1>3 DEF BeginStep, DraftStep, MarkStep, AnswerStep, display
  <2>2. SUFFICES ASSUME call'[h].pc \in {"checkin_save", "delivery_save"}
                 PROVE  Backed(h)'
    BY <1>2, <1>3, <2>1 DEF DraftInv, OthersSame
  <2>3. CASE DraftStep(h)
    BY <2>3, DraftBacked
  <2>4. CASE MarkStep(h)
    <3>1. /\ call'[h].response.nonce = call[h].response.nonce
          /\ call'[h].response.commands = call[h].response.commands
          /\ wait'[h] \in {"lock", "write"}
          /\ wait'[h] = "write" => writing' = {rec'}
      BY <2>4 DEF MarkStep
    <3>2. Backed(h) /\ Follows(rec, rec')
      BY <1>3, <2>4, RequeuedFollows DEF MarkStep, DraftInv, QueueStep
    <3>3. Backs(rec', call[h].response)
      BY <3>2, BacksFollows DEF Backed
    <3>4. Backs(rec, call[h].response)'
      BY <2>1, <3>1, <3>3 DEF Backs, Acknowledged
    <3>5. (call[h].response.nonce = device.nonce => Harmless(call[h].response))'
      BY <2>1, <3>1, <3>2 DEF Backed, Harmless
    <3>6. (wait[h] = "write" => \A w \in writing : Backs(w, call[h].response))'
      BY <3>1, <3>4
    <3>7. (wait[h] = "resume" => Backs(disk, call[h].response))'
      BY <3>1
    <3> QED
      BY <3>4, <3>5, <3>6, <3>7 DEF Backed
  <2>5. CASE BeginStep(h) \/ AnswerStep(h)
    BY <2>2, <2>5 DEF BeginStep, AnswerStep, IdleCall
  <2> QED
    BY <1>3, <2>3, <2>4, <2>5
<1>4. CASE Send \/ Receive \/ GiveUp
  <2>1. /\ UNCHANGED <<rec, disk, writing, wait, call>>
        /\ Acknowledged \subseteq Acknowledged'
    BY <1>4, SendAcknowledges, ReceiveConfirms, GiveUpForgets
       DEF store, Acknowledged
  <2>2. ASSUME NEW h \in Handlers,
               call[h].pc \in {"checkin_save", "delivery_save"}
        PROVE  /\ Backed(h)
               /\ call[h].response.nonce # device'.nonce
    <3>1. /\ 1 <= call[h].response.nonce
          /\ call[h].response.nonce <= device.requests
      BY <2>2 DEF NonceInv
    <3>2. \/ device'.nonce = device.requests + 1
          \/ device'.nonce = 0
      BY <1>4, SendAcknowledges, ReceiveConfirms, GiveUpForgets
    <3> QED
      BY <2>2, <3>1, <3>2 DEF DraftInv, TypeOK, Call, Response, Device
  <2> QED
    BY <2>1, <2>2 DEF DraftInv, Backed, Backs
<1>5. CASE OtherStep /\ ~Restart
  BY <1>2, <1>5 DEF OtherStep, display, DraftInv
<1> QED
  BY <1>1, <1>3, <1>4, <1>5 DEF CallStep

-----------------------------------------------------------------------------
(***************************************************************************)
(* The theorems about the queue.                                           *)
(***************************************************************************)
\* The invariant holds initially.
LEMMA InitQueueInv == Init => QueueInv
<1> SUFFICES ASSUME Init PROVE QueueInv
  OBVIOUS
<1>1. PICK time \in CheckTimes : rec = NewRecord(time)
  BY DEF Init
<1>2. Queued(rec) = {}
  BY <1>1 DEF Queued, Ids, NewRecord
<1>3. /\ disk = rec /\ writing = {} /\ kept = {}
      /\ sent = {} /\ inbox = {} /\ drawn = 0
      /\ device.acks = {} /\ device.accepted = {} /\ device.forgotten = {}
      /\ \A h \in Handlers : call[h].pc = "idle"
  BY DEF Init, IdleCall
<1>4. Acknowledged = {} /\ Received = {} /\ Seen = {} /\ Copies = {rec}
  BY <1>3 DEF Acknowledged, Received, Seen, Copies
<1>5. FollowInv /\ ForgetInv
  BY <1>2, <1>3, <1>4 DEF FollowInv, Follows, ForgetInv
<1>6. DisplayInv /\ DraftInv
  BY <1>3, <1>4, BoundAssumption DEF DisplayInv, DraftInv
<1> QED
  BY <1>5, <1>6 DEF QueueInv

\* Every step keeps it.
LEMMA NextQueueInv ==
    /\ TypeOK /\ TypeOK' /\ StoreInv /\ RevisionInv /\ QueueInv
    /\ [Next]_vars
    => QueueInv'
<1> SUFFICES ASSUME TypeOK, TypeOK', StoreInv, RevisionInv, QueueInv,
                    [Next]_vars
             PROVE  QueueInv'
  OBVIOUS
<1>1. LockInv /\ NonceInv
  BY DEF RevisionInv
<1>2. StoreStep /\ CallStep /\ QueueStep
  BY <1>1, StoreSteps, CallSteps, QueueSteps DEF QueueStep
<1>3. FollowInv' /\ DisplayInv' /\ ForgetInv' /\ DraftInv'
  BY <1>1, <1>2, NextFollowInv, NextDisplayInv, NextForgetInv, NextDraftInv
<1> QED
  BY <1>3 DEF QueueInv

\* The invariant holds in every reachable state.
THEOREM QueueInvariant == Spec => []QueueInv
<1>1. Spec => [](TypeOK /\ StoreInv)
  BY StoreInvariant
<1>2. Spec => []RevisionInv
  BY RevisionInvariant
<1> QED
  BY <1>1, <1>2, InitQueueInv, NextQueueInv, PTL DEF Spec

\* A command the display has received is on the disk until the display
\* acknowledges it, whatever is lost, repeated or restarted.
THEOREM CommandsAreKept == Spec => []CommandKeptUntilAcknowledged
<1>1. QueueInv => CommandKeptUntilAcknowledged
  BY DEF QueueInv, ForgetInv, Received, Acknowledged, Queued,
     CommandKeptUntilAcknowledged
<1> QED
  BY <1>1, QueueInvariant, PTL

\* A command whose acknowledgement was confirmed never reaches the display
\* again, not even through a request that was served late.
THEOREM ForgottenIsForgotten == Spec => []ForgottenCommandNeverReturns
<1>1. QueueInv => ForgottenCommandNeverReturns
  BY DEF QueueInv, ForgetInv, Harmless, ForgottenCommandNeverReturns
<1> QED
  BY <1>1, QueueInvariant, PTL

-----------------------------------------------------------------------------
(***************************************************************************)
(* CheckIn implements CommandQueue.                                        *)
(***************************************************************************)
\* The steps of the queue, for ids within the bound.
LEMMA QueueMapping ==
    /\ \A ids \in SUBSET (1..MaxCommands) :
         Queue!Store(ids) \/ Queue!Acknowledge(ids) => Queue!Next
    /\ \A returned, confirms \in SUBSET (1..MaxCommands) :
         Queue!Exchange(returned, confirms) => Queue!Next
BY DEF Queue!Next

\* Every id in use is one of the bounded ids.
LEMMA IdsInUse ==
    ASSUME TypeOK, StoreInv, DisplayInv
    PROVE  /\ Seen \subseteq Nat
           /\ \A r \in Copies : Queued(r) \subseteq 1..MaxCommands
<1>1. Seen \subseteq Nat
  BY DEF TypeOK, Device, Response, Public, Seen, Received, Ids
<1>2. drawn \in Nat /\ drawn <= MaxCommands /\ MaxCommands \in Nat
  BY BoundAssumption DEF TypeOK, DisplayInv
<1> QED
  BY <1>1, <1>2, QueuedDrawn

\* What the display has seen is at least 1: it came from a queue.
SeenInv == \A id \in Seen : 1 <= id

LEMMA NextSeenInv ==
    ASSUME TypeOK, StoreInv, LockInv, NonceInv, QueueInv, SeenInv, CallStep
    PROVE  SeenInv'
BY SeenFromDisk, QueuedDrawn DEF SeenInv, Copies

THEOREM SeenInvariant == Spec => []SeenInv
<1>1. Init => SeenInv
  BY DEF Init, SeenInv, Seen, Received
<1>2. TypeOK /\ StoreInv /\ RevisionInv /\ QueueInv /\ SeenInv /\ [Next]_vars
      => SeenInv'
  BY CallSteps, NextSeenInv DEF RevisionInv
<1>3. Spec => [](TypeOK /\ StoreInv)
  BY StoreInvariant
<1> QED
  BY <1>1, <1>2, <1>3, RevisionInvariant, QueueInvariant, PTL DEF Spec

\* A quiet step stores what follows what was stored.
LEMMA QuietStores ==
    ASSUME TypeOK, StoreInv, QueueInv, StoreStep, QuietStep
    PROVE  Queue!Next
<1>1. disk' = disk \/ disk' \in writing
  BY CopySteps
<1>2. disk' \in Copies /\ Follows(disk, disk')
  BY <1>1 DEF QueueInv, FollowInv, Copies
<1>3. /\ UNCHANGED <<device, Acknowledged>>
      /\ device.accepted \cup Acknowledged \cup device.forgotten \subseteq Seen
  BY QuietKeeps, AcknowledgedSeen
     DEF QuietStep, display, QueueInv, Seen, Received
<1>4. Queue!Store(Queued(disk'))
  BY <1>2, <1>3 DEF Queue!Store, Follows, Queued, Acknowledged
<1>5. Queued(disk') \in SUBSET (1..MaxCommands)
  BY <1>2, IdsInUse DEF QueueInv
<1> QED
  BY <1>4, <1>5, QueueMapping

\* A request acknowledges what the display holds.
LEMMA SendImplements ==
    ASSUME TypeOK, StoreInv, QueueInv, SeenInv, Send
    PROVE  Queue!Next
<1>1. PICK ids : ids = device'.acks
  OBVIOUS
<1>2. Queue!Acknowledge(ids)
  BY <1>1, SendAcknowledges DEF Queue!Acknowledge, store, Acknowledged
<1>3. ids \subseteq Seen
  BY <1>1, SendAcknowledges DEF Seen, Received
<1>4. drawn \in Nat /\ drawn <= MaxCommands /\ MaxCommands \in Nat
  BY BoundAssumption DEF TypeOK, QueueInv, DisplayInv
<1>5. ids \in SUBSET (1..MaxCommands)
  BY <1>3, <1>4, IdsInUse DEF SeenInv, QueueInv, DisplayInv
<1> QED
  BY <1>2, <1>5, QueueMapping

\* A response returns stored commands and confirms what has left the disk.
LEMMA ReceiveImplements ==
    ASSUME TypeOK, StoreInv, QueueInv, SeenInv, Receive
    PROVE  Queue!Next
<1>1. PICK response \in inbox :
        /\ device'.accepted
             = (device.accepted \ device.acks) \cup Ids(response.commands)
        /\ device'.forgotten = device.forgotten \cup device.acks
        /\ sent' = sent /\ UNCHANGED <<store, call>>
  BY ReceiveConfirms
<1> DEFINE returned == Ids(response.commands)
<1>2. /\ returned \subseteq Received /\ device.acks \subseteq Acknowledged
      /\ returned \cap (device.forgotten \cup device.acks) = {}
      /\ Queued(disk) \cap device.acks = {}
  BY <1>1 DEF QueueInv, ForgetInv, DisplayInv, Harmless, Received, Copies
<1>3. Acknowledged \subseteq device.accepted \cup device.forgotten
  BY DEF QueueInv, DisplayInv
<1>4. returned \ device.accepted \subseteq Queued(disk)
  BY <1>2, <1>3 DEF QueueInv, ForgetInv
<1> HIDE DEF returned
<1>5. Queue!Exchange(returned, device.acks)
  BY <1>1, <1>2, <1>4 DEF Queue!Exchange, store, Queued, Acknowledged, returned
<1>6. returned \cup device.acks \subseteq Seen
  BY <1>2, AcknowledgedSeen DEF QueueInv, Seen
<1>7. drawn \in Nat /\ drawn <= MaxCommands /\ MaxCommands \in Nat
  BY BoundAssumption DEF TypeOK, QueueInv, DisplayInv
<1>8. /\ returned \in SUBSET (1..MaxCommands)
      /\ device.acks \in SUBSET (1..MaxCommands)
  BY <1>6, <1>7, IdsInUse DEF SeenInv, QueueInv, DisplayInv
<1> QED
  BY <1>5, <1>8, QueueMapping

\* Every step is a step of the queue or changes nothing in it.
LEMMA NextQueue ==
    /\ TypeOK /\ StoreInv /\ RevisionInv /\ QueueInv /\ SeenInv
    /\ [Next]_vars
    => [Queue!Next]_(Queue!vars)
<1> SUFFICES ASSUME TypeOK, StoreInv, RevisionInv, QueueInv, SeenInv,
                    [Next]_vars
             PROVE  Queue!Next \/ UNCHANGED Queue!vars
  OBVIOUS
<1>1. CASE QuietStep
  BY <1>1, StoreSteps, QuietStores
<1>2. ASSUME NEW h \in Handlers, AnswerStep(h) PROVE UNCHANGED Queue!vars
  BY <1>2 DEF AnswerStep, Queue!vars
<1>3. CASE Send
  BY <1>3, SendImplements
<1>4. CASE Receive
  BY <1>4, ReceiveImplements
<1>5. CASE GiveUp
  BY <1>5, GiveUpForgets DEF store, Queue!vars
<1> QED
  BY <1>1, <1>2, <1>3, <1>4, <1>5, CallSteps, DisplaySteps

\* Through lost and repeated requests, overlapping handlers and restarts the
\* display sees the queue of CommandQueue.
THEOREM CheckInImplementsQueue == Spec => ImplementsQueue
<1>1. Init => Queue!Init
  <2>1. ASSUME Init PROVE Ids(disk.pending_commands) = {}
    BY <2>1 DEF Init, NewRecord, Ids
  <2> QED
    BY <2>1 DEF Init, Queue!Init
<1>2. Spec => [](TypeOK /\ StoreInv)
  BY StoreInvariant
<1> QED
  BY <1>1, <1>2, RevisionInvariant, QueueInvariant, SeenInvariant, NextQueue,
     PTL DEF Spec, ImplementsQueue, Queue!Spec

-----------------------------------------------------------------------------
(***************************************************************************)
(* One automatic command per day.                                          *)
(***************************************************************************)
\* The queue and the date of the record come from those of b: the record
\* itself, or the disk when every other copy is lost.
ComesFrom(b) ==
    /\ Requeued(b)
    /\ \/ b = rec /\ Copies' \subseteq Copies \cup {rec'}
       \/ b = disk /\ Copies' \subseteq {disk, rec'} /\ disk' = disk

LEMMA Origin ==
    ASSUME TypeOK, StoreInv, StoreStep, QueueStep
    PROVE  \E b \in {rec, disk} : ComesFrom(b)
<1>1. CASE Restart /\ Requeued(disk)
  BY <1>1, RestartReloads DEF ComesFrom, Copies
<1>2. CASE Requeued(rec)
  BY <1>2, CopySteps DEF ComesFrom
<1> QED
  BY <1>1, <1>2 DEF QueueStep

\* Dates are numbers.
LEMMA DateTypes ==
    ASSUME TypeOK, TypeOK'
    PROVE  /\ \A r \in Copies \cup Copies' : r.last_automatic_ota_date \in Nat
           /\ clock.day \in Nat /\ clock'.day \in Nat
           /\ drawn \in Nat /\ drawn' \in Nat
           /\ \A a \in automatic : a.id \in Nat /\ a.day \in Nat
BY DEF TypeOK, Copies, Record

\* The date of the record moves on, and not beyond today.
LEMMA RecordDate ==
    ASSUME TypeOK, TypeOK', DateInv, NEW b \in {rec, disk}, Requeued(b)
    PROVE  /\ b.last_automatic_ota_date <= rec'.last_automatic_ota_date
           /\ rec'.last_automatic_ota_date <= clock.day
           /\ disk.last_automatic_ota_date <= b.last_automatic_ota_date
           /\ b.last_automatic_ota_date <= clock.day
<1>1. b \in Copies /\ rec \in Copies /\ disk \in Copies /\ rec' \in Copies'
  BY DEF Copies
<1>2. /\ disk.last_automatic_ota_date <= b.last_automatic_ota_date
      /\ b.last_automatic_ota_date <= clock.day
  BY <1>1, DateTypes DEF DateInv
<1> QED
  BY <1>1, <1>2, DateTypes DEF Requeued

\* Every date lies between that of the disk and that of the record.
LEMMA NextDates ==
    ASSUME TypeOK, TypeOK', StoreInv, StoreStep, QueueStep, DateInv
    PROVE  /\ disk.last_automatic_ota_date <= disk'.last_automatic_ota_date
           /\ \A r \in Copies' :
                /\ disk'.last_automatic_ota_date <= r.last_automatic_ota_date
                /\ r.last_automatic_ota_date <= rec'.last_automatic_ota_date
<1>0. /\ rec \in Copies /\ disk \in Copies
      /\ rec' \in Copies' /\ disk' \in Copies'
  BY DEF Copies
<1>1. \A r \in Copies :
        /\ disk.last_automatic_ota_date <= r.last_automatic_ota_date
        /\ r.last_automatic_ota_date <= rec.last_automatic_ota_date
        /\ r.last_automatic_ota_date \in Nat
  BY DateTypes DEF DateInv
<1>2. PICK b \in {rec, disk} : ComesFrom(b)
  BY Origin
<1>3. /\ disk.last_automatic_ota_date <= b.last_automatic_ota_date
      /\ b.last_automatic_ota_date <= rec'.last_automatic_ota_date
      /\ rec'.last_automatic_ota_date \in Nat
  BY <1>0, <1>2, RecordDate, DateTypes DEF ComesFrom
<1>4. CASE disk' = disk
  <2>1. CASE b = rec /\ Copies' \subseteq Copies \cup {rec'}
    BY <1>0, <1>1, <1>3, <1>4, <2>1
  <2>2. CASE b = disk /\ Copies' \subseteq {disk, rec'}
    BY <1>0, <1>1, <1>3, <1>4, <2>2
  <2> QED
    BY <1>2, <2>1, <2>2 DEF ComesFrom
<1>5. CASE FinishWrite
  <2>1. PICK w \in writing : disk' = w
    BY <1>5 DEF FinishWrite
  <2>2. Copies' \subseteq {rec, w} /\ rec' = rec /\ w \in Copies
    BY <1>5, <2>1
       DEF FinishWrite, Copies, StoreInv, NewestSnapshotIsCurrent
  <2> QED
    BY <1>0, <1>1, <2>1, <2>2
<1>6. disk' = disk \/ FinishWrite
  BY DEF StoreStep, StartWrite, Reload, ExtendingSave, Save, Release, store
<1> QED
  BY <1>4, <1>5, <1>6

\* Where an automatic command is that was created before this step.
LEMMA OldCommands ==
    ASSUME TypeOK, TypeOK', StoreInv, LockInv, NonceInv, QueueInv, StoreStep,
           CallStep, DateInv, NEW a \in automatic,
           NEW b \in {rec, disk}, ComesFrom(b)
    PROVE  /\ a.id \in Seen' => /\ a.day <= disk.last_automatic_ota_date
                                /\ a.id \in Live
           /\ \A r \in Copies' : a.id \in Queued(r) =>
                /\ a.day <= r.last_automatic_ota_date
                /\ a.day <= b.last_automatic_ota_date
                /\ a.id \in Live
<1>0. /\ rec \in Copies /\ disk \in Copies /\ b \in Copies
      /\ \A r \in Copies : Queued(r) \subseteq Live
      /\ Seen \subseteq Live
  BY DEF Copies, Live
<1>1. \A r \in Copies : a.id \in Queued(r) =>
        /\ a.day <= r.last_automatic_ota_date
        /\ r.last_automatic_ota_date <= rec.last_automatic_ota_date
        /\ a.day <= rec.last_automatic_ota_date
  BY <1>0, DateTypes DEF DateInv
<1>2. ASSUME a.id \in Seen'
      PROVE  a.day <= disk.last_automatic_ota_date /\ a.id \in Live
  BY <1>0, <1>1, <1>2, SeenFromDisk DEF DateInv
<1>3. ASSUME a.id \in Queued(rec')
      PROVE  /\ a.id \in Queued(b)
             /\ a.day <= b.last_automatic_ota_date
             /\ a.day <= rec'.last_automatic_ota_date
  <2>1. a.id <= drawn /\ rec' \in Copies'
    BY DEF DateInv, Copies
  <2>2. a.id \in Queued(b)
    BY <1>3, <2>1, DateTypes DEF ComesFrom, Requeued
  <2> QED
    BY <1>0, <1>1, <2>1, <2>2, RecordDate, DateTypes DEF ComesFrom
<1>4. ASSUME NEW r \in Copies', a.id \in Queued(r)
      PROVE  /\ a.day <= r.last_automatic_ota_date
             /\ a.day <= b.last_automatic_ota_date
             /\ a.id \in Live
  <2>1. CASE r = rec'
    BY <1>0, <1>3, <1>4, <2>1
  <2>2. CASE b = rec /\ r \in Copies
    BY <1>0, <1>1, <1>4, <2>2
  <2>3. CASE b = disk /\ r = disk
    BY <1>0, <1>1, <1>4, <2>3
  <2> QED
    BY <2>1, <2>2, <2>3 DEF ComesFrom
<1> QED
  BY <1>2, <1>4

\* An automatic command is new on a day that the record, and so all that the
\* display can have, had not reached.
LEMMA NewCommand ==
    ASSUME TypeOK, TypeOK', StoreInv, LockInv, NonceInv, QueueInv, StoreStep,
           CallStep, DateInv, NEW a \in automatic' \ automatic,
           NEW b \in {rec, disk}, ComesFrom(b)
    PROVE  /\ a.id = drawn + 1 /\ drawn' = drawn + 1 /\ a.day = clock.day
           /\ rec'.last_automatic_ota_date = clock.day
           /\ b.last_automatic_ota_date < clock.day
           /\ automatic' = automatic \cup {a}
<1>1. /\ a = [id |-> drawn + 1, day |-> clock.day] /\ drawn' = drawn + 1
      /\ b.last_automatic_ota_date # clock.day
      /\ rec'.last_automatic_ota_date = clock.day
      /\ automatic' = automatic \cup {a}
  BY DEF ComesFrom, Requeued
<1>2. /\ b.last_automatic_ota_date <= clock.day
      /\ b.last_automatic_ota_date \in Nat /\ clock.day \in Nat
  BY RecordDate, DateTypes DEF ComesFrom, Copies
<1> QED
  BY <1>1, <1>2

\* Every step that does not take the date back keeps the dates.
LEMMA NextDateInv ==
    ASSUME TypeOK, TypeOK', StoreInv, LockInv, NonceInv, QueueInv, StoreStep,
           CallStep, QueueStep, DateInv, clock.day <= clock'.day
    PROVE  DateInv'
<1>0. PICK b \in {rec, disk} : ComesFrom(b)
  BY Origin
<1>1. /\ disk' \in Copies' /\ rec' \in Copies' /\ disk \in Copies
      /\ b \in Copies /\ drawn <= drawn'
  BY <1>0, DateTypes DEF Copies, ComesFrom, Requeued
<1>2. /\ \A r \in Copies' :
           /\ disk'.last_automatic_ota_date <= r.last_automatic_ota_date
           /\ r.last_automatic_ota_date <= rec'.last_automatic_ota_date
      /\ disk.last_automatic_ota_date <= disk'.last_automatic_ota_date
  BY NextDates
<1>3. /\ rec'.last_automatic_ota_date <= clock'.day
      /\ disk.last_automatic_ota_date <= b.last_automatic_ota_date
  BY <1>0, <1>1, RecordDate, DateTypes DEF ComesFrom
<1>4. ASSUME NEW a \in automatic
      PROVE  /\ a.id <= drawn'
             /\ \A r \in Copies' : a.id \in Queued(r) =>
                  a.day <= r.last_automatic_ota_date
             /\ a.id \in Seen' => a.day <= disk'.last_automatic_ota_date
             /\ a.id \in Live' => /\ a.id \in Live
                                  /\ a.day <= b.last_automatic_ota_date
  <2>1. a.id <= drawn
    BY DEF DateInv
  <2>2. a.id \in Live' => \/ a.id \in Seen'
                          \/ \E r \in Copies' : a.id \in Queued(r)
    BY DEF Live, Queued
  <2> QED
    BY <1>0, <1>1, <1>2, <1>3, <2>1, <2>2, OldCommands, DateTypes
<1>5. ASSUME NEW a \in automatic' \ automatic
      PROVE  /\ a.id <= drawn'
             /\ \A r \in Copies' : a.id \in Queued(r) =>
                  a.day <= r.last_automatic_ota_date
             /\ a.id \notin Seen'
  <2>1. /\ a.id = drawn + 1 /\ drawn' = drawn + 1 /\ a.day = clock.day
        /\ rec'.last_automatic_ota_date = clock.day
    BY <1>0, NewCommand
  <2>2. a.id \notin Queued(disk)
    BY <1>1, <2>1, QueuedDrawn, DateTypes
  <2>3. a.id \notin Seen'
    BY <2>1, <2>2, SeenFromDisk, NewIsUnseen DEF QueueInv
  <2>4. \A r \in Copies : a.id \notin Queued(r)
    BY <2>1, QueuedDrawn, DateTypes
  <2>5. Copies' \subseteq Copies \cup {rec'}
    BY <1>0, <1>1 DEF ComesFrom
  <2> QED
    BY <1>1, <2>1, <2>3, <2>4, <2>5, DateTypes
<1>6. ASSUME NEW a \in automatic', NEW c \in automatic',
             a.day = c.day, a.id \in Live', c.id \in Live'
      PROVE  a = c
  <2>1. CASE a \in automatic /\ c \in automatic
    BY <1>4, <1>6, <2>1 DEF DateInv
  <2>2. ASSUME NEW old \in automatic, old.id \in Live',
               NEW new \in automatic' \ automatic
        PROVE  old.day # new.day
    BY <1>0, <1>1, <1>4, <2>2, NewCommand, DateTypes
  <2>3. CASE a \notin automatic /\ c \notin automatic
    BY <1>0, <2>3, NewCommand
  <2> QED
    BY <1>6, <2>1, <2>2, <2>3
<1>7. \A a \in automatic' :
        /\ a.id <= drawn'
        /\ \A r \in Copies' : a.id \in Queued(r) =>
             a.day <= r.last_automatic_ota_date
        /\ a.id \in Seen' => a.day <= disk'.last_automatic_ota_date
  BY <1>4, <1>5
<1> QED
  BY <1>2, <1>3, <1>6, <1>7 DEF DateInv, Queued

\* Only a move of the time zone takes the date back.
LEMMA DateMovesOn ==
    ASSUME TypeOK, TypeOK', [Next]_vars, moves' = 0
    PROVE  moves = 0 /\ clock.day <= clock'.day
<1>0. clock.day \in Nat /\ clock'.day \in Nat /\ moves \in Nat
  BY DEF TypeOK
<1>1. CASE PassTime
  BY <1>0, <1>1 DEF PassTime, TypeOK
<1>2. CASE MoveTimezone
  BY <1>0, <1>2 DEF MoveTimezone
<1>3. CASE UNCHANGED <<clock, moves>>
  BY <1>0, <1>3
<1>4. PassTime \/ MoveTimezone \/ UNCHANGED <<clock, moves>>
  BY DEF Next, vars, StartWrite, FinishWrite, MinuteTick, Authenticate,
     Process, Prepare, Return, SetDesired, SetAutomaticOta, TurnOnManualOta,
     TurnOnWifiFullScan, Reconfigure, ScheduleAfterReconfigure,
     FinishReconfigure, Restart, Send, Receive, GiveUp
<1> QED
  BY <1>0, <1>1, <1>2, <1>3, <1>4

\* The dates are in order while the time zone stays.
DatesInOrder == moves = 0 => DateInv

\* So they are in every reachable state.
THEOREM DateInvariant == Spec => []DatesInOrder
<1>1. Init => DatesInOrder
  <2> SUFFICES ASSUME Init PROVE DateInv
    BY DEF DatesInOrder
  <2>1. PICK time \in CheckTimes : rec = NewRecord(time)
    BY DEF Init
  <2>2. rec.last_automatic_ota_date = 0 /\ Copies = {rec}
    BY <2>1 DEF Init, Copies, NewRecord
  <2>3. automatic = {} /\ clock.day = 1 /\ disk = rec
    BY DEF Init
  <2> QED
    BY <2>2, <2>3 DEF DateInv
<1>2. /\ TypeOK /\ TypeOK' /\ StoreInv /\ RevisionInv /\ QueueInv
      /\ DatesInOrder /\ [Next]_vars
      => DatesInOrder'
  <2> SUFFICES ASSUME TypeOK, TypeOK', StoreInv, RevisionInv, QueueInv,
                      DatesInOrder, [Next]_vars, moves' = 0
               PROVE  DateInv'
    BY DEF DatesInOrder
  <2>1. DateInv /\ clock.day <= clock'.day
    BY DateMovesOn DEF DatesInOrder
  <2>2. LockInv /\ NonceInv
    BY DEF RevisionInv
  <2> QED
    BY <2>1, <2>2, StoreSteps, CallSteps, QueueSteps, NextDateInv
       DEF QueueStep
<1>3. Spec => [](TypeOK /\ StoreInv)
  BY StoreInvariant
<1> QED
  BY <1>1, <1>2, <1>3, RevisionInvariant, QueueInvariant, PTL DEF Spec

\* While the time zone stays, at most one automatic command of a day reaches
\* the display, whatever restarts lose and create again.
THEOREM OneAutomaticADay == Spec => [](moves = 0 => OneAutomaticPerDay)
<1>1. DatesInOrder => (moves = 0 => OneAutomaticPerDay)
  BY DEF DatesInOrder, DateInv, Live, Seen, Received, OneAutomaticPerDay
<1> QED
  BY <1>1, DateInvariant, PTL
=============================================================================
