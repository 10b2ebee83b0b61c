---------------------------- MODULE RevisionProofs ----------------------------
(***************************************************************************)
(* What the display may rely on: a revision that leaves the Hub is already *)
(* on the disk, so that no restart takes it back (RevisionsIncrease), and  *)
(* what the Hub takes for applied is what the display runs                 *)
(* (AppliedMeansActive).  In the terms of RevisionRegister: the display    *)
(* reads its register forward (ImplementsRegister).                        *)
(*                                                                         *)
(* Prepare returns at once when the revision is marked as delivered, so    *)
(* the heart of the argument is that a revision marked as delivered is     *)
(* being written, or on the disk, whenever a handler can run: handlers run *)
(* only between writes, and the write that follows the marking is of a     *)
(* record that has the revision.                                           *)
(***************************************************************************)
EXTENDS CheckInProofs, CheckInRefinement

-----------------------------------------------------------------------------
(***************************************************************************)
(* What a step does to the store.                                          *)
(***************************************************************************)
\* Who waits for a save: one caller, or nobody.
Waiters == {{}} \cup {{c} : c \in Callers}

\* A save of a record that extends the present one.  Only a caller that goes
\* on after a save of its own changes the delivered revision, and only a
\* processed request the applied one.
ExtendingSave ==
    /\ rec' \in Record /\ Extends(rec, rec')
    /\ \E S \in Waiters :
         /\ Save(rec', S)
         /\ rec'.delivered_revision # rec.delivered_revision =>
              \E c \in S : Resumes(c)
    /\ rec'.applied_revision # rec.applied_revision =>
         \E h \in Handlers : Process(h)

\* A restart: the record is the one on the disk, up to the OTA command that
\* the setup may create.
Reload ==
    /\ rec' \in Record /\ SameConfiguration(disk, rec')
    /\ disk' = disk /\ kept' = {}
    /\ writing' = {rec'} \/ (writing' = {} /\ rec' = disk)
    /\ wait' = [c \in Callers |-> "none"]
    /\ call' = [h \in Handlers |-> IdleCall]

\* A save that keeps the configuration is an extending one.
LEMMA OtherSave ==
    ASSUME TypeOK, NEW r \in Record, SameConfiguration(rec, r),
           NEW S \in Waiters, Save(r, S)
    PROVE  ExtendingSave
BY SameExtends DEF ExtendingSave, Save, SameConfiguration, TypeOK

\* Evaluating the OTA schedule keeps the configuration.
LEMMA ScheduledSame ==
    ASSUME TypeOK, NEW r \in Record
    PROVE  SameConfiguration(r, Scheduled(r))
BY ScheduleSameConfiguration DEF TypeOK, Scheduled

\* The save of Process extends the record.
LEMMA ProcessEffect ==
    ASSUME TypeOK, NEW h \in Handlers, Process(h)
    PROVE  ExtendingSave
<1> DEFINE request == call[h].request
           reported == ApplyReported(rec, request.report)
           acknowledged == AcknowledgeCommands(reported, request.acks)
           updated == Scheduled(acknowledged)
<1>1. request.report \in Report /\ rec \in Record
  BY DEF TypeOK, Call, Request
<1>2. reported \in Record /\ Extends(rec, reported)
  BY <1>1, ApplyReportedType, ApplyReportedExtends
<1> HIDE DEF reported
<1>3. acknowledged \in Record /\ SameConfiguration(reported, acknowledged)
  BY <1>2, AcknowledgeCommandsType, OtherMethodsSameConfiguration
<1> HIDE DEF acknowledged
<1>4. updated \in Record /\ SameConfiguration(acknowledged, updated)
  BY <1>3, ScheduledType, ScheduledSame
<1>5. Resumes(h) /\ Save(updated, {h})
  BY DEF Process, reported, acknowledged
<1> HIDE DEF updated
<1>6. rec' = updated
  BY <1>5 DEF Save
<1>7. Extends(rec, rec')
  BY <1>2, <1>3, <1>4, <1>6 DEF SameConfiguration, Extends, Within
<1> QED
  BY <1>4, <1>5, <1>6, <1>7 DEF ExtendingSave, Waiters, Callers

\* The save of Prepare, if it saves, extends the record.
LEMMA PrepareEffect ==
    ASSUME TypeOK, NEW h \in Handlers, Prepare(h)
    PROVE  ExtendingSave \/ Release(h)
<1> DEFINE response == [call[h].response EXCEPT
                          !.revision = rec.desired_revision,
                          !.values = rec.desired]
           delivered == MarkConfigurationDelivered(rec, response.revision)
           marked == MarkCommandsDelivered(delivered, Ids(response.commands))
<1>1. response.revision \in Nat /\ rec \in Record
  BY FieldTypes DEF TypeOK, Call, Response
<1>2. /\ delivered \in Record /\ Extends(rec, delivered)
      /\ delivered.applied_revision = rec.applied_revision
  BY <1>1, MarkConfigurationDeliveredType, MarkConfigurationDeliveredExtends
<1>3. Resumes(h) /\ (Save(marked, {h}) \/ Release(h))
  BY DEF Prepare
<1> HIDE DEF delivered, response
<1>4. marked \in Record /\ SameConfiguration(delivered, marked)
  BY <1>2, MarkCommandsDeliveredType, OtherMethodsSameConfiguration
<1> HIDE DEF marked
<1>5. CASE Save(marked, {h})
  <2>1. rec' = marked
    BY <1>5 DEF Save
  <2>2. Extends(rec, rec') /\ rec'.applied_revision = rec.applied_revision
    BY <1>2, <1>4, <2>1 DEF SameConfiguration, Extends, Within
  <2> QED
    BY <1>3, <1>4, <1>5, <2>1, <2>2 DEF ExtendingSave, Waiters, Callers
<1> QED
  BY <1>3, <1>5

\* What a step may do to the store.
StoreStep ==
    \/ StartWrite \/ FinishWrite \/ Reload \/ ExtendingSave
    \/ \E c \in Callers : Release(c) /\ Resumes(c)
    \/ UNCHANGED store

\* Every step is one of them.
LEMMA StoreSteps == TypeOK /\ StoreInv /\ [Next]_vars => StoreStep
<1> SUFFICES ASSUME TypeOK, StoreInv, [Next]_vars PROVE StoreStep
  OBVIOUS
<1>0. rec \in Record /\ {} \in Waiters
  BY DEF TypeOK, Waiters
<1>1. CASE MinuteTick
  <2>1. CASE Due(rec)
    BY <1>0, <1>1, <2>1, ScheduledType, ScheduledSame, OtherSave
       DEF MinuteTick, StoreStep
  <2> QED
    BY <1>1, <2>1 DEF MinuteTick, StoreStep
<1>2. ASSUME NEW h \in Handlers, Authenticate(h) PROVE StoreStep
  <2>1. PICK request \in sent : Save(RememberNonce(rec, request.nonce), {h})
    BY <1>2 DEF Authenticate
  <2>2. request.nonce \in Nat /\ {h} \in Waiters
    BY DEF TypeOK, Request, Waiters, Callers
  <2> QED
    BY <1>0, <2>1, <2>2, RememberNonceType, OtherMethodsSameConfiguration,
       OtherSave DEF StoreStep
<1>3. ASSUME NEW h \in Handlers, Process(h) \/ Prepare(h) \/ Return(h)
      PROVE  StoreStep
  <2>1. CASE Process(h)
    BY <2>1, ProcessEffect DEF StoreStep
  <2>2. CASE Prepare(h)
    BY <2>2, PrepareEffect DEF Prepare, StoreStep, Callers
  <2>3. CASE Return(h)
    BY <2>3 DEF Return, StoreStep, Callers
  <2> QED
    BY <1>3, <2>1, <2>2, <2>3
<1>4. ASSUME NEW key \in DOMAIN DefaultDesired, NEW value \in BOOLEAN,
             SetDesired(key, value)
      PROVE  StoreStep
  <2> DEFINE desired == [rec.desired EXCEPT ![key] = value]
             updated == UpdateConfiguration(rec, desired, rec.wake_schedule,
                                            FALSE)
  <2>1. desired \in Desired
    BY <1>0, FieldTypes DEF Desired, DefaultDesired
  <2>2. updated \in Record
    BY <1>0, <2>1, FieldTypes, UpdateConfigurationType
  <2>3. /\ Extends(rec, updated)
        /\ updated.delivered_revision = rec.delivered_revision
        /\ updated.applied_revision = rec.applied_revision
    BY <1>0, <2>1, FieldTypes, UpdateConfigurationExtends
  <2>4. Save(updated, {})
    BY <1>4 DEF SetDesired
  <2> HIDE DEF updated
  <2>5. rec' = updated
    BY <2>4 DEF Save
  <2> QED
    BY <1>0, <2>2, <2>3, <2>4, <2>5 DEF StoreStep, ExtendingSave
<1>5. ASSUME NEW value \in BOOLEAN, SetAutomaticOta(value) PROVE StoreStep
  <2> DEFINE updated == UpdateOtaSettings(rec, value, rec.ota_check_time)
             deferred == DeferAutomaticOtaUntilNextDay(updated, clock.day)
  <2>1. updated \in Record /\ SameConfiguration(rec, updated)
    BY <1>0, FieldTypes, UpdateOtaSettingsType, OtherMethodsSameConfiguration
  <2>2. Save(updated, {}) \/ Save(deferred, {})
    BY <1>5 DEF SetAutomaticOta
  <2> HIDE DEF updated
  <2>3. deferred \in Record /\ SameConfiguration(updated, deferred)
    BY <2>1, DeferAutomaticOtaType, OtherMethodsSameConfiguration DEF TypeOK
  <2> HIDE DEF deferred
  <2>4. SameConfiguration(rec, deferred)
    BY <2>1, <2>3 DEF SameConfiguration
  <2> QED
    BY <1>0, <2>1, <2>2, <2>3, <2>4, OtherSave DEF StoreStep
<1>6. CASE TurnOnManualOta \/ TurnOnWifiFullScan
  <2>1. drawn + 1 \in Nat
    BY DEF TypeOK
  <2> QED
    BY <1>0, <1>6, <2>1, EnqueueOtaCommandType, EnqueueWifiFullScanCommandType,
       OtherMethodsSameConfiguration, OtherSave
       DEF TurnOnManualOta, TurnOnWifiFullScan, StoreStep
<1>7. ASSUME NEW schedule \in Schedules, NEW new \in Contents,
             NEW time \in CheckTimes, Reconfigure(schedule, new, time)
      PROVE  StoreStep
  <2> DEFINE configured == UpdateConfiguration(rec, rec.desired, schedule,
                                               new # content)
             updated == UpdateOtaSettings(configured,
                                          rec.automatic_ota_enabled, time)
  <2>1. configured \in Record
    BY <1>0, FieldTypes, UpdateConfigurationType
  <2>2. /\ Extends(rec, configured)
        /\ configured.delivered_revision = rec.delivered_revision
        /\ configured.applied_revision = rec.applied_revision
    BY <1>0, FieldTypes, UpdateConfigurationExtends
  <2>3. Save(updated, {Flow})
    BY <1>7 DEF Reconfigure
  <2> HIDE DEF configured
  <2>4. updated \in Record /\ SameConfiguration(configured, updated)
    BY <1>0, <2>1, FieldTypes, UpdateOtaSettingsType, TimeAssumption,
       OtherMethodsSameConfiguration
  <2> HIDE DEF updated
  <2>5. rec' = updated
    BY <2>3 DEF Save
  <2>6. /\ Extends(rec, rec')
        /\ rec'.delivered_revision = rec.delivered_revision
        /\ rec'.applied_revision = rec.applied_revision
    BY <2>2, <2>4, <2>5 DEF SameConfiguration, Extends, Within
  <2> QED
    BY <2>3, <2>4, <2>5, <2>6 DEF StoreStep, ExtendingSave, Waiters, Callers
<1>8. CASE ScheduleAfterReconfigure
  BY <1>0, <1>8, ScheduledType, ScheduledSame, OtherSave
     DEF ScheduleAfterReconfigure, StoreStep, Waiters, Callers
<1>9. CASE FinishReconfigure
  BY <1>9 DEF FinishReconfigure, StoreStep, Callers
<1>10. CASE Restart
  <2>1. disk \in Record /\ FromDict(disk) = disk
    BY FromDictIdentity DEF StoreInv, Copies, Consistent, TypeOK
  <2>2. ~Due(disk) => Scheduled(disk) = disk
    BY DEF Due, Scheduled, ScheduleAutomaticOta
  <2>3. Scheduled(disk) \in Record /\ SameConfiguration(disk, Scheduled(disk))
    BY <2>1, ScheduledType, ScheduledSame
  <2> QED
    BY <1>10, <2>1, <2>2, <2>3 DEF Restart, Reload, StoreStep
<1>11. CASE PassTime \/ MoveTimezone \/ Send \/ Receive \/ GiveUp
  BY <1>11 DEF PassTime, MoveTimezone, Send, Receive, GiveUp, StoreStep
<1>12. CASE UNCHANGED vars
  BY <1>12 DEF vars, StoreStep
<1> QED
  BY <1>1, <1>2, <1>3, <1>4, <1>5, <1>6, <1>7, <1>8, <1>9, <1>10, <1>11,
     <1>12 DEF Next, StoreStep

\* A restart is a reload of the store.
LEMMA RestartReloads ==
    ASSUME TypeOK, StoreInv, Restart
    PROVE  /\ disk' = disk /\ kept' = {}
           /\ writing' = {rec'} \/ (writing' = {} /\ rec' = disk)
<1>1. disk \in Record /\ FromDict(disk) = disk
  BY FromDictIdentity DEF StoreInv, Copies, Consistent, TypeOK
<1>2. ~Due(disk) => Scheduled(disk) = disk
  BY DEF Due, Scheduled, ScheduleAutomaticOta
<1> QED
  BY <1>1, <1>2 DEF Restart

\* What a step does to the copies of the record.
LEMMA CopySteps ==
    ASSUME TypeOK, StoreInv, StoreStep
    PROVE  /\ Copies' \subseteq Copies \cup {rec'}
           /\ disk' = disk \/ disk' \in writing
<1>1. CASE StartWrite
  BY <1>1 DEF StartWrite, Copies
<1>2. CASE FinishWrite
  BY <1>2 DEF FinishWrite, Copies
<1>3. CASE Reload
  BY <1>3 DEF Reload, Copies
<1>4. CASE ExtendingSave
  BY <1>4 DEF ExtendingSave, Save, Copies
<1>5. CASE (\E c \in Callers : Release(c)) \/ UNCHANGED store
  BY <1>5 DEF Release, store, Copies
<1> QED
  BY <1>1, <1>2, <1>3, <1>4, <1>5 DEF StoreStep

-----------------------------------------------------------------------------
(***************************************************************************)
(* The store: who holds the lock, which copy extends which, and how far    *)
(* the delivered revision may be ahead of the disk.                        *)
(***************************************************************************)
\* One caller holds the lock, and nobody runs on during a write.
LockInv ==
    /\ writing # {} => \A c \in Callers : wait[c] # "resume"
    /\ \A c \in Callers : wait[c] = "write" => writing # {}
    /\ \A c, d \in Callers :
         wait[c] \in {"write", "resume"} /\ wait[d] \in {"write", "resume"}
           => c = d

\* Every copy extends the disk, and the record extends what is being written.
ChainInv ==
    /\ \A r \in Copies : Extends(disk, r)
    /\ \A w \in writing : Extends(w, rec)

\* A revision marked as delivered is on the disk when a caller runs on, and
\* will be there after a write.
DeliveredInv ==
    /\ (\E c \in Callers : wait[c] = "resume") =>
         rec.delivered_revision <= disk.desired_revision
    /\ \A w \in writing : rec.delivered_revision <= w.desired_revision

\* Extending is transitive.
LEMMA ExtendsTransitive ==
    ASSUME NEW r \in Record, NEW s \in Record, NEW t \in Record,
           Extends(r, s), Extends(s, t)
    PROVE  Extends(r, t)
<1>1. /\ r.desired_revision \in Nat /\ s.desired_revision \in Nat
      /\ t.desired_revision \in Nat
  BY FieldTypes
<1> QED
  BY <1>1 DEF Extends, Within

\* A caller that runs on finds nothing being written, and no other caller
\* has the lock.
LEMMA ResumesAlone ==
    ASSUME LockInv, NEW c \in Callers, Resumes(c)
    PROVE  writing = {} /\ \A d \in Callers \ {c} : wait[d] # "resume"
BY DEF LockInv, Resumes, LockFree

\* The lock of the store admits one caller.
LEMMA NextLockInv ==
    ASSUME TypeOK, StoreStep, LockInv
    PROVE  LockInv'
<1>1. CASE StartWrite
  BY <1>1 DEF StartWrite, LockFree, LockInv, TypeOK
<1>2. CASE FinishWrite
  BY <1>2 DEF FinishWrite, LockInv, TypeOK
<1>3. CASE Reload
  BY <1>3 DEF Reload, LockInv
<1>4. CASE ExtendingSave
  <2>1. PICK S \in Waiters : Save(rec', S)
    BY <1>4 DEF ExtendingSave
  <2> QED
    BY <2>1 DEF Waiters, Save, Uncontended, LockInv, TypeOK
<1>5. CASE \E c \in Callers : Release(c) /\ Resumes(c)
  BY <1>5 DEF Release, LockInv, TypeOK
<1>6. CASE UNCHANGED store
  BY <1>6 DEF store, LockInv
<1> QED
  BY <1>1, <1>2, <1>3, <1>4, <1>5, <1>6 DEF StoreStep

\* Each copy keeps extending the disk.
LEMMA NextChainInv ==
    ASSUME TypeOK, TypeOK', StoreInv, StoreStep, ChainInv
    PROVE  ChainInv'
<1>0. /\ rec \in Record /\ disk \in Record /\ rec' \in Record
      /\ writing \subseteq Record /\ kept \subseteq Record
      /\ Extends(disk, rec)
  BY DEF TypeOK, ChainInv, Copies
<1>1. \A r \in Record : Extends(r, r)
  BY FieldTypes DEF Extends, Within
<1>2. CASE StartWrite
  BY <1>0, <1>1, <1>2
     DEF StartWrite, ChainInv, Copies, StoreInv, NewestSnapshotIsCurrent
<1>3. CASE FinishWrite
  <2>1. PICK w \in writing : disk' = w
    BY <1>3 DEF FinishWrite
  <2>2. rec' = rec /\ writing' = {} /\ kept' = kept
    BY <1>3 DEF FinishWrite
  <2>3. kept \subseteq {rec}
    BY DEF StoreInv, NewestSnapshotIsCurrent
  <2> QED
    BY <1>0, <1>1, <2>1, <2>2, <2>3 DEF ChainInv, Copies
<1>4. CASE Reload
  <2>1. Extends(disk, rec')
    BY <1>0, <1>4, SameExtends DEF Reload
  <2> QED
    BY <1>0, <1>1, <1>4, <2>1 DEF Reload, ChainInv, Copies
<1>5. CASE ExtendingSave
  <2>1. PICK S \in Waiters : Save(rec', S)
    BY <1>5 DEF ExtendingSave
  <2>2. disk' = disk /\ Extends(rec, rec')
    BY <1>5, <2>1 DEF ExtendingSave, Save
  <2>3. Extends(disk, rec')
    BY <1>0, <2>2, ExtendsTransitive
  <2>4. /\ writing' = {rec'} \/ writing' = writing
        /\ kept' = {rec'} \/ kept' = kept
    BY <2>1 DEF Save
  <2>5. \A w \in writing : Extends(w, rec')
    BY <1>0, <2>2, ExtendsTransitive DEF ChainInv
  <2>6. \A w \in writing' : Extends(w, rec')
    BY <1>0, <1>1, <2>4, <2>5
  <2>7. \A r \in Copies' : Extends(disk', r)
    BY <2>2, <2>3, <2>4 DEF ChainInv, Copies
  <2> QED
    BY <2>6, <2>7 DEF ChainInv
<1>6. CASE (\E c \in Callers : Release(c)) \/ UNCHANGED store
  BY <1>6 DEF Release, store, ChainInv, Copies
<1> QED
  BY <1>2, <1>3, <1>4, <1>5, <1>6 DEF StoreStep

\* No caller runs on before the revision it may have marked is on the disk.
LEMMA NextDeliveredInv ==
    ASSUME TypeOK, TypeOK', StoreInv, StoreInv', StoreStep, LockInv,
           DeliveredInv
    PROVE  DeliveredInv'
<1>0. /\ rec.delivered_revision <= rec.desired_revision
      /\ rec'.delivered_revision <= rec'.desired_revision
  BY DEF StoreInv, Copies, Consistent, RevisionsOrdered
<1>1. CASE StartWrite
  BY <1>0, <1>1 DEF StartWrite, LockFree, DeliveredInv, StoreInv,
     NewestSnapshotIsCurrent, TypeOK
<1>2. CASE FinishWrite
  BY <1>2 DEF FinishWrite, DeliveredInv, LockInv, TypeOK
<1>3. CASE Reload
  BY <1>0, <1>3 DEF Reload, DeliveredInv
<1>4. CASE ExtendingSave
  <2>1. PICK S \in Waiters :
          /\ Save(rec', S)
          /\ rec'.delivered_revision # rec.delivered_revision =>
               \E c \in S : Resumes(c)
    BY <1>4 DEF ExtendingSave
  <2>2. disk' = disk
    BY <2>1 DEF Save
  <2>3. \A c \in Callers :
          wait'[c] = "resume" => wait[c] = "resume" /\ c \notin S
    BY <2>1 DEF Save, TypeOK
  <2>4. writing' = {rec'} \/ writing' = writing
    BY <2>1 DEF Save
  <2>5. CASE rec'.delivered_revision = rec.delivered_revision
    BY <1>0, <2>2, <2>3, <2>4, <2>5 DEF DeliveredInv
  <2>6. CASE \E c \in S : Resumes(c)
    <3>1. PICK c \in Callers : S = {c} /\ Resumes(c)
      BY <2>6 DEF Waiters
    <3> QED
      BY <1>0, <2>3, <2>4, <3>1, ResumesAlone DEF DeliveredInv
  <2> QED
    BY <2>1, <2>5, <2>6
<1>5. CASE \E c \in Callers : Release(c) /\ Resumes(c)
  BY <1>5 DEF Release, DeliveredInv, TypeOK
<1>6. CASE UNCHANGED store
  BY <1>6 DEF store, DeliveredInv
<1> QED
  BY <1>1, <1>2, <1>3, <1>4, <1>5, <1>6 DEF StoreStep

-----------------------------------------------------------------------------
(***************************************************************************)
(* What a step does to the check-ins and to the display.                   *)
(***************************************************************************)
OthersSame(h) == \A g \in Handlers \ {h} : call'[g] = call[g]

\* Authenticate takes a request that was sent.
BeginStep(h) ==
    /\ OthersSame(h) /\ UNCHANGED display
    /\ call'[h].pc = "nonce_save"
    /\ call'[h].request \in sent
    /\ Authenticate(h)

\* Process drafts a response to that request.
DraftStep(h) ==
    /\ OthersSame(h) /\ UNCHANGED display
    /\ call[h].pc = "nonce_save" /\ call'[h].pc = "checkin_save"
    /\ call'[h].request = call[h].request
    /\ call'[h].response.nonce = call[h].request.nonce
    /\ call'[h].response.commands \in DeliverableCommands(rec')
    /\ Process(h)

\* Prepare saves a record with the configuration it puts into the response.
MarkStep(h) ==
    /\ OthersSame(h) /\ UNCHANGED display
    /\ call[h].pc = "checkin_save" /\ call'[h].pc = "delivery_save"
    /\ call'[h].request = call[h].request
    /\ call'[h].response.nonce = call[h].response.nonce
    /\ call'[h].response.commands = call[h].response.commands
    /\ call'[h].response.revision = rec'.desired_revision
    /\ call'[h].response.values = rec'.desired
    /\ rec'.desired_revision = rec.desired_revision
    /\ rec'.desired = rec.desired
    /\ wait'[h] \in {"lock", "write"}
    /\ wait'[h] = "write" => writing' = {rec'}

\* The response that Prepare returns at once, or the one that Return returns.
Returned(h, response) ==
    /\ response.nonce = call[h].response.nonce
    /\ response.commands = call[h].response.commands
    /\ \/ call[h].pc = "delivery_save" /\ response = call[h].response
       \/ /\ call[h].pc = "checkin_save"
          /\ response.revision = rec.desired_revision
          /\ response.values = rec.desired
          /\ rec.desired_revision <= rec.delivered_revision

\* A response is returned to the display, which may wait for it.
AnswerStep(h) ==
    /\ OthersSame(h) /\ UNCHANGED <<rec, disk, writing, kept, device, sent>>
    /\ call[h].pc \in {"checkin_save", "delivery_save"} /\ Resumes(h)
    /\ call'[h] = IdleCall
    /\ \A response \in inbox' :
         \/ response \in inbox
         \/ response.nonce = device.nonce /\ Returned(h, response)

\* Authenticate and Process.
LEMMA FirstSteps ==
    ASSUME TypeOK, NEW h \in Handlers, Authenticate(h) \/ Process(h)
    PROVE  BeginStep(h) \/ DraftStep(h)
<1>1. CASE Authenticate(h)
  <2>1. PICK request \in sent :
          call' = [call EXCEPT ![h].pc = "nonce_save", ![h].request = request]
    BY <1>1 DEF Authenticate
  <2>2. UNCHANGED display
    BY <1>1 DEF Authenticate
  <2> QED
    BY <1>1, <2>1, <2>2 DEF BeginStep, OthersSame, TypeOK, Call
<1>2. CASE Process(h)
  <2>1. PICK commands \in DeliverableCommands(rec') :
          call' = [call EXCEPT ![h].pc = "checkin_save",
                               ![h].response = Draft(call[h].request, commands)]
    BY <1>2 DEF Process, Save
  <2>2. /\ Draft(call[h].request, commands).nonce = call[h].request.nonce
        /\ Draft(call[h].request, commands).commands = commands
    BY DEF Draft, NoResponse
  <2>3. UNCHANGED display /\ call[h].pc = "nonce_save"
    BY <1>2 DEF Process
  <2> HIDE DEF Draft
  <2> QED
    BY <1>2, <2>1, <2>2, <2>3 DEF DraftStep, OthersSame, TypeOK, Call
<1> QED
  BY <1>1, <1>2

\* Prepare and Return.
LEMMA LastSteps ==
    ASSUME TypeOK, NEW h \in Handlers, Prepare(h) \/ Return(h)
    PROVE  MarkStep(h) \/ AnswerStep(h)
<1> DEFINE response == [call[h].response EXCEPT
                          !.revision = rec.desired_revision,
                          !.values = rec.desired]
           delivered == MarkConfigurationDelivered(rec, response.revision)
           marked == MarkCommandsDelivered(delivered, Ids(response.commands))
<1>1. /\ rec \in Record
      /\ response.nonce = call[h].response.nonce
      /\ response.commands = call[h].response.commands
      /\ response.revision = rec.desired_revision
      /\ response.values = rec.desired
  BY DEF TypeOK, Call, Response
<1>2. /\ rec.desired_revision \in Nat /\ rec.delivered_revision \in Nat
  BY <1>1, FieldTypes
<1>3. /\ delivered \in Record
      /\ delivered.desired_revision = rec.desired_revision
      /\ delivered.desired = rec.desired
      /\ delivered.delivered_revision
           = Larger(rec.delivered_revision, rec.desired_revision)
  BY <1>1, <1>2, MarkConfigurationDeliveredType
     DEF MarkConfigurationDelivered, Smaller, Record
<1> HIDE DEF delivered
<1>4. SameConfiguration(delivered, marked)
  BY <1>3, OtherMethodsSameConfiguration
<1> HIDE DEF marked
<1>5. CASE /\ call[h].pc = "checkin_save"
           /\ Save(marked, {h})
           /\ call' = [call EXCEPT ![h].pc = "delivery_save",
                                   ![h].response = response]
           /\ UNCHANGED display
  <2>1. rec' = marked /\ wait'[h] \in {"lock", "write"}
    BY <1>5 DEF Save, Callers
  <2>2. wait'[h] = "write" => writing' = {rec'}
    BY <1>5, <2>1 DEF Save, Callers
  <2>3. /\ rec'.desired_revision = rec.desired_revision
        /\ rec'.desired = rec.desired
    BY <1>3, <1>4, <2>1 DEF SameConfiguration
  <2> HIDE DEF response
  <2>4. /\ OthersSame(h) /\ call'[h].pc = "delivery_save"
        /\ call'[h].request = call[h].request
        /\ call'[h].response = response
    BY <1>5 DEF OthersSame, TypeOK, Call
  <2> QED
    BY <1>1, <1>5, <2>1, <2>2, <2>3, <2>4 DEF MarkStep
<1>6. CASE /\ call[h].pc = "checkin_save" /\ marked = rec
           /\ Answer(h, response) /\ Release(h) /\ Resumes(h)
  <2>1. rec.desired_revision <= rec.delivered_revision
    BY <1>2, <1>3, <1>4, <1>6 DEF SameConfiguration, Larger
  <2> HIDE DEF response
  <2>2. Returned(h, response)
    BY <1>1, <1>6, <2>1 DEF Returned
  <2> QED
    BY <1>6, <2>2 DEF Answer, Release, AnswerStep, OthersSame, TypeOK
<1>7. CASE Return(h)
  <2>1. Returned(h, call[h].response)
    BY <1>7 DEF Return, Returned
  <2> QED
    BY <1>7, <2>1 DEF Return, Answer, Release, AnswerStep, OthersSame, TypeOK
<1>8. CASE Prepare(h)
  BY <1>5, <1>6, <1>8 DEF Prepare, marked, delivered
<1> QED
  BY <1>7, <1>8

\* The steps that concern neither check-ins nor the display.
OtherStep == UNCHANGED <<call, display>>

\* What a step may do to the check-ins and to the display.
CallStep ==
    \/ \E h \in Handlers : BeginStep(h) \/ DraftStep(h)
                            \/ MarkStep(h) \/ AnswerStep(h)
    \/ Restart \/ Send \/ Receive \/ GiveUp \/ OtherStep

\* Every step is one of them.
LEMMA CallSteps == TypeOK /\ [Next]_vars => CallStep
<1> SUFFICES ASSUME TypeOK, [Next]_vars PROVE CallStep
  OBVIOUS
<1>1. ASSUME NEW h \in Handlers,
             Authenticate(h) \/ Process(h) \/ Prepare(h) \/ Return(h)
      PROVE  CallStep
  BY <1>1, FirstSteps, LastSteps DEF CallStep
<1>2. CASE \/ StartWrite \/ FinishWrite \/ MinuteTick
           \/ TurnOnManualOta \/ TurnOnWifiFullScan
           \/ ScheduleAfterReconfigure \/ FinishReconfigure
           \/ PassTime \/ MoveTimezone \/ UNCHANGED vars
  BY <1>2 DEF StartWrite, FinishWrite, MinuteTick, TurnOnManualOta,
     TurnOnWifiFullScan, ScheduleAfterReconfigure, FinishReconfigure,
     PassTime, MoveTimezone, vars, OtherStep, CallStep
<1>3. ASSUME NEW key \in DOMAIN DefaultDesired, NEW value \in BOOLEAN,
             SetDesired(key, value)
      PROVE  CallStep
  BY <1>3 DEF SetDesired, OtherStep, CallStep
<1>4. ASSUME NEW value \in BOOLEAN, SetAutomaticOta(value) PROVE CallStep
  BY <1>4 DEF SetAutomaticOta, OtherStep, CallStep
<1>5. ASSUME NEW schedule \in Schedules, NEW new \in Contents,
             NEW time \in CheckTimes, Reconfigure(schedule, new, time)
      PROVE  CallStep
  BY <1>5 DEF Reconfigure, OtherStep, CallStep
<1>6. CASE Restart \/ Send \/ Receive \/ GiveUp
  BY <1>6 DEF CallStep
<1> QED
  BY <1>1, <1>2, <1>3, <1>4, <1>5, <1>6 DEF Next

-----------------------------------------------------------------------------
(***************************************************************************)
(* Nonces: a response answers the request its handler has taken, and the   *)
(* nonce of a request to come is greater than all of them.                 *)
(***************************************************************************)
NonceInv ==
    /\ \A request \in sent :
         1 <= request.nonce /\ request.nonce <= device.requests
    /\ \A h \in Handlers :
         /\ call[h].pc # "idle" => call[h].request \in sent
         /\ call[h].pc \in {"checkin_save", "delivery_save"} =>
              call[h].response.nonce = call[h].request.nonce

\* Requests and responses keep their nonces.
LEMMA NextNonceInv ==
    ASSUME TypeOK, CallStep, NonceInv
    PROVE  NonceInv'
<1> USE DEF display
<1>1. ASSUME NEW h \in Handlers, BeginStep(h) PROVE NonceInv'
  BY <1>1 DEF BeginStep, OthersSame, NonceInv
<1>2. ASSUME NEW h \in Handlers, DraftStep(h) PROVE NonceInv'
  BY <1>2 DEF DraftStep, OthersSame, NonceInv
<1>3. ASSUME NEW h \in Handlers, MarkStep(h) PROVE NonceInv'
  BY <1>3 DEF MarkStep, OthersSame, NonceInv
<1>4. ASSUME NEW h \in Handlers, AnswerStep(h) PROVE NonceInv'
  BY <1>4 DEF AnswerStep, OthersSame, NonceInv, IdleCall
<1>5. CASE Restart
  BY <1>5 DEF Restart, NonceInv, IdleCall
<1>6. CASE Send
  <2>1. PICK request \in [nonce : {device.requests + 1}, report : Report,
                          acks : SUBSET Nat] :
          sent' = sent \cup {request}
    <3>1. PICK acks \in SUBSET device.accepted :
            sent' = sent \cup {[nonce |-> device.requests + 1, acks |-> acks,
                                report |-> CurrentReport]}
      BY <1>6 DEF Send
    <3>2. acks \in SUBSET Nat /\ CurrentReport \in Report
      BY DEF TypeOK, Device, CurrentReport, Report
    <3> QED
      BY <3>1, <3>2
  <2>2. /\ device'.requests = device.requests + 1
        /\ device.requests \in Nat /\ call' = call
        /\ request.nonce = device.requests + 1
    BY <1>6 DEF Send, TypeOK, Device
  <2>3. \A q \in sent : q.nonce \in Nat
    BY DEF TypeOK, Request
  <2> QED
    BY <2>1, <2>2, <2>3 DEF NonceInv
<1>7. CASE Receive \/ GiveUp
  <2>1. device'.requests = device.requests /\ sent' = sent /\ call' = call
    BY <1>7 DEF Receive, GiveUp, TypeOK, Device
  <2> QED
    BY <2>1 DEF NonceInv
<1>8. CASE OtherStep
  BY <1>8 DEF OtherStep, NonceInv
<1> QED
  BY <1>1, <1>2, <1>3, <1>4, <1>5, <1>6, <1>7, <1>8 DEF CallStep

-----------------------------------------------------------------------------
(***************************************************************************)
(* Responses: what has been returned, or is about to be, is on the disk,   *)
(* and is not older than what the display has.                             *)
(***************************************************************************)
\* The configuration of a response that is about to be returned is in the
\* record, in what its handler waits for, and on the disk at the end.
Durable(h) ==
    LET response == call[h].response
    IN  /\ Within(response.revision, response.values, rec)
        /\ wait[h] = "write" =>
             \A w \in writing : Within(response.revision, response.values, w)
        /\ wait[h] = "resume" =>
             Within(response.revision, response.values, disk)

NotOlder(response) ==
    /\ response.revision >= device.revision
    /\ response.revision = device.revision => response.values = device.values

ResponseInv ==
    /\ Within(device.revision, device.values, disk)
    /\ \A response \in inbox :
         /\ Within(response.revision, response.values, disk)
         /\ NotOlder(response)
    /\ \A h \in Handlers : call[h].pc = "delivery_save" =>
         /\ Durable(h)
         /\ call[h].response.nonce = device.nonce => NotOlder(call[h].response)

\* A response to be returned stays durable until it is.
LEMMA DurableKept ==
    ASSUME TypeOK, TypeOK', StoreInv, LockInv, ChainInv, StoreStep, ~Reload,
           NEW h \in Handlers, Durable(h), call'[h] = call[h]
    PROVE  Durable(h)'
<1> DEFINE response == call[h].response
           In(r) == Within(response.revision, response.values, r)
<1>0. /\ response.revision \in Nat /\ h \in Callers
      /\ rec \in Record /\ rec' \in Record /\ disk \in Record
      /\ writing \subseteq Record
  BY DEF TypeOK, Call, Response, Callers
<1>1. \A r, s \in Record : In(r) /\ Extends(r, s) => In(s)
  BY <1>0, WithinExtends
<1>2. /\ In(rec)
      /\ wait[h] = "write" => \A w \in writing : In(w)
      /\ wait[h] = "resume" => In(disk)
  BY DEF Durable
<1> HIDE DEF In, response
<1>3. SUFFICES /\ In(rec')
               /\ wait'[h] = "write" => \A w \in writing' : In(w)
               /\ wait'[h] = "resume" => In(disk')
  BY DEF Durable, In, response
<1>4. CASE StartWrite
  <2>1. kept = {rec} /\ writing' = {rec} /\ rec' = rec
    BY <1>4 DEF StartWrite, StoreInv, NewestSnapshotIsCurrent
  <2>2. wait'[h] # "resume"
    BY <1>0, <1>4 DEF StartWrite, LockFree, TypeOK
  <2> QED
    BY <1>2, <2>1, <2>2
<1>5. CASE FinishWrite
  BY <1>0, <1>2, <1>5 DEF FinishWrite, LockInv
<1>6. CASE ExtendingSave
  <2>1. PICK S \in Waiters : Save(rec', S)
    BY <1>6 DEF ExtendingSave
  <2>2. In(rec')
    BY <1>0, <1>1, <1>2, <1>6 DEF ExtendingSave
  <2>3. \/ wait'[h] = "write" /\ writing' = {rec'}
        \/ wait'[h] = "lock"
        \/ wait'[h] = wait[h] /\ writing' = {rec'}
        \/ wait'[h] = wait[h] /\ writing' = writing
    BY <1>0, <2>1 DEF Save
  <2>4. disk' = disk
    BY <2>1 DEF Save
  <2>5. wait'[h] = "write" => \A w \in writing' : In(w)
    BY <1>2, <2>2, <2>3
  <2>6. wait'[h] = "resume" => In(disk')
    BY <1>2, <2>3, <2>4
  <2> QED
    BY <2>2, <2>5, <2>6
<1>7. CASE \E c \in Callers : Release(c) /\ Resumes(c)
  BY <1>0, <1>2, <1>7 DEF Release, TypeOK
<1>8. CASE UNCHANGED store
  BY <1>2, <1>8 DEF store
<1> QED
  BY <1>4, <1>5, <1>6, <1>7, <1>8 DEF StoreStep

\* The disk never loses a configuration.
LEMMA DiskExtends ==
    ASSUME TypeOK, ChainInv, StoreStep
    PROVE  Extends(disk, disk')
<1>1. Extends(disk, disk)
  BY FieldTypes DEF Extends, Within, TypeOK
<1>2. disk' = disk \/ disk' \in writing
  BY DEF StoreStep, StartWrite, FinishWrite, Reload, ExtendingSave, Save,
     Release, store
<1> QED
  BY <1>1, <1>2 DEF ChainInv, Copies

\* What a handler is about to return when it runs on is on the disk.
LEMMA ReturnedOnDisk ==
    ASSUME TypeOK, StoreInv, LockInv, ChainInv, DeliveredInv, ResponseInv,
           NEW h \in Handlers, Resumes(h),
           NEW response \in Response, Returned(h, response)
    PROVE  Within(response.revision, response.values, disk)
<1>0. /\ h \in Callers /\ rec \in Record /\ disk \in Record
      /\ rec.desired_revision \in Nat /\ disk.desired_revision \in Nat
      /\ rec.delivered_revision \in Nat
  BY FieldTypes DEF TypeOK, Callers
<1>1. wait[h] = "resume" \/ disk = rec
  BY DEF Resumes, LockFree, StoreInv, NewestSnapshotIsCurrent
<1>2. CASE call[h].pc = "delivery_save" /\ response = call[h].response
  BY <1>1, <1>2 DEF ResponseInv, Durable
<1>3. CASE /\ response.revision = rec.desired_revision
           /\ response.values = rec.desired
           /\ rec.desired_revision <= rec.delivered_revision
  <2>1. rec.desired_revision <= disk.desired_revision
    BY <1>0, <1>1, <1>3 DEF DeliveredInv
  <2>2. Extends(disk, rec)
    BY DEF ChainInv, Copies
  <2> QED
    BY <1>0, <1>3, <2>1, <2>2 DEF Extends, Within
<1> QED
  BY <1>2, <1>3 DEF Returned

\* What a handler returns to a display that waits for it is not older than
\* what the display has.
LEMMA ReturnedNotOlder ==
    ASSUME TypeOK, ChainInv, ResponseInv,
           NEW h \in Handlers, NEW response \in Response,
           Returned(h, response), response.nonce = device.nonce
    PROVE  NotOlder(response)
<1>1. CASE call[h].pc = "delivery_save" /\ response = call[h].response
  BY <1>1 DEF ResponseInv
<1>2. CASE /\ response.revision = rec.desired_revision
           /\ response.values = rec.desired
  <2>1. Within(device.revision, device.values, rec)
    BY WithinExtends DEF ResponseInv, ChainInv, Copies, TypeOK, Device
  <2> QED
    BY <1>2, <2>1 DEF Within, NotOlder
<1> QED
  BY <1>1, <1>2 DEF Returned

\* Responses stay durable and never older than what the display has.
LEMMA NextResponseInv ==
    ASSUME TypeOK, TypeOK', StoreInv, StoreStep, CallStep, LockInv, ChainInv,
           DeliveredInv, NonceInv, ResponseInv
    PROVE  ResponseInv'
<1>1. /\ disk \in Record /\ disk' \in Record /\ rec \in Record
      /\ rec' \in Record /\ device \in Device /\ device' \in Device
      /\ inbox \subseteq Response /\ inbox' \subseteq Response
      /\ Extends(disk, disk')
  BY DiskExtends DEF TypeOK
<1>2. Within(device.revision, device.values, disk')
  BY <1>1, WithinExtends DEF ResponseInv, Device
<1>3. \A response \in inbox :
        Within(response.revision, response.values, disk')
  BY <1>1, WithinExtends DEF ResponseInv, Response
<1>4. \A h \in Handlers : call[h].pc = "delivery_save" =>
        /\ 1 <= call[h].response.nonce
        /\ call[h].response.nonce <= device.requests
  BY DEF NonceInv
<1>5. \A h \in Handlers :
        call'[h] = call[h] /\ call[h].pc = "delivery_save" => Durable(h)'
  BY DurableKept DEF ResponseInv, Reload, IdleCall
<1>6. ASSUME NEW h \in Handlers, OthersSame(h),
             call'[h].pc = "delivery_save" =>
               /\ Durable(h)'
               /\ NotOlder(call'[h].response),
             UNCHANGED display
      PROVE  ResponseInv'
  <2>1. /\ device' = device /\ inbox' = inbox
    BY <1>6 DEF display
  <2>2. \A g \in Handlers : call'[g].pc = "delivery_save" => Durable(g)'
    BY <1>5, <1>6 DEF OthersSame
  <2>3. \A g \in Handlers :
          /\ call'[g].pc = "delivery_save"
          /\ call'[g].response.nonce = device'.nonce
          => NotOlder(call'[g].response)
    BY <1>6, <2>1 DEF OthersSame, ResponseInv
  <2> QED
    BY <1>2, <1>3, <2>1, <2>2, <2>3 DEF ResponseInv, NotOlder
<1>7. ASSUME NEW h \in Handlers, BeginStep(h) \/ DraftStep(h)
      PROVE  ResponseInv'
  BY <1>6, <1>7 DEF BeginStep, DraftStep
<1>8. ASSUME NEW h \in Handlers, MarkStep(h) PROVE ResponseInv'
  <2>1. Durable(h)'
    <3>1. rec'.desired_revision \in Nat
      BY <1>1, FieldTypes
    <3> QED
      BY <1>8, <3>1 DEF MarkStep, Durable, Within
  <2>2. Within(device.revision, device.values, rec)
    BY <1>1, WithinExtends DEF ResponseInv, ChainInv, Copies, Device
  <2>3. NotOlder(call'[h].response)
    BY <1>8, <2>2 DEF MarkStep, Within, NotOlder
  <2> QED
    BY <1>6, <1>8, <2>1, <2>3 DEF MarkStep
<1>9. ASSUME NEW h \in Handlers, AnswerStep(h) PROVE ResponseInv'
  <2>1. device' = device /\ disk' = disk
    BY <1>9 DEF AnswerStep
  <2>2. \A response \in inbox' :
          Within(response.revision, response.values, disk)
    BY <1>1, <1>9, ReturnedOnDisk DEF AnswerStep, ResponseInv
  <2>3. \A response \in inbox' : NotOlder(response)
    BY <1>1, <1>9, ReturnedNotOlder DEF AnswerStep, ResponseInv
  <2>4. \A g \in Handlers : call'[g].pc = "delivery_save" => call'[g] = call[g]
    BY <1>9 DEF AnswerStep, OthersSame, IdleCall
  <2> QED
    BY <1>2, <1>5, <2>1, <2>2, <2>3, <2>4 DEF ResponseInv, NotOlder
<1>10. CASE Restart
  BY <1>2, <1>3, <1>10 DEF Restart, ResponseInv, NotOlder, display, IdleCall
<1>11. CASE Send
  <2>1. /\ device'.nonce = device.requests + 1
        /\ device'.revision = device.revision
        /\ device'.values = device.values
        /\ inbox' = inbox /\ call' = call
        /\ device.requests \in Nat
    BY <1>1, <1>11 DEF Send, Device
  <2>2. \A h \in Handlers : call[h].pc = "delivery_save" =>
          call[h].response.nonce # device'.nonce
    BY <1>4, <2>1 DEF TypeOK, Call, Response
  <2> QED
    BY <1>2, <1>3, <1>5, <2>1, <2>2 DEF ResponseInv, NotOlder
<1>12. CASE Receive \/ GiveUp
  <2>1. device'.nonce = 0 /\ inbox' = {} /\ call' = call
    BY <1>1, <1>12 DEF Receive, GiveUp, Device
  <2>2. \/ device'.revision = device.revision /\ device'.values = device.values
        \/ \E response \in inbox : /\ device'.revision = response.revision
                                  /\ device'.values = response.values
    BY <1>1, <1>12 DEF Receive, GiveUp, Device
  <2>3. Within(device'.revision, device'.values, disk')
    BY <1>2, <1>3, <2>2 DEF Within
  <2>4. \A h \in Handlers : call[h].pc = "delivery_save" =>
          call[h].response.nonce # device'.nonce
    BY <1>4, <2>1
  <2> QED
    BY <1>5, <2>1, <2>3, <2>4 DEF ResponseInv
<1>13. CASE OtherStep
  BY <1>2, <1>3, <1>5, <1>13 DEF OtherStep, display, ResponseInv, NotOlder
<1> QED
  BY <1>7, <1>8, <1>9, <1>10, <1>11, <1>12, <1>13 DEF CallStep

-----------------------------------------------------------------------------
(***************************************************************************)
(* Reports: none tells of more than the display has, and what the Hub      *)
(* takes for applied the display has applied.                              *)
(***************************************************************************)
ReportInv ==
    \A request \in sent : request.report.given =>
      /\ request.report.revision <= device.revision
      /\ request.report.revision = device.revision =>
           /\ request.report.values = device.values
           /\ request.report.applied => device.applied

\* The configuration of r counts as applied only if the display runs it.
Active(r) ==
    r.applied_revision = r.desired_revision =>
      /\ device.applied
      /\ device.revision = r.desired_revision
      /\ device.values = r.desired

ActiveInv == \A r \in Copies : Active(r)

\* What a response changes of the configuration of the display.
LEMMA ReceiveEffect ==
    ASSUME TypeOK, Receive
    PROVE  \E response \in inbox :
             /\ device'.revision = response.revision
             /\ device'.values = response.values
             /\ device.applied /\ response.revision = device.revision =>
                  device'.applied
<1>1. PICK response \in inbox, applied \in BOOLEAN :
        /\ device.applied /\ response.revision = device.revision => applied
        /\ device' = [device EXCEPT
              !.nonce = 0, !.acks = {}, !.revision = response.revision,
              !.values = response.values, !.applied = applied,
              !.accepted = (@ \ device.acks) \cup Ids(response.commands),
              !.forgotten = @ \cup device.acks]
  BY DEF Receive
<1>2. /\ device'.revision = response.revision
      /\ device'.values = response.values
      /\ device'.applied = applied
  BY <1>1 DEF TypeOK, Device
<1> QED
  BY <1>1, <1>2

\* Nothing but a response changes the configuration of the display.
LEMMA DisplayKept ==
    ASSUME TypeOK, CallStep, ~Receive
    PROVE  /\ device'.revision = device.revision
           /\ device'.values = device.values
           /\ device'.applied = device.applied
<1>1. CASE UNCHANGED device
  BY <1>1
<1>2. CASE Send \/ GiveUp
  BY <1>2 DEF Send, GiveUp, TypeOK, Device
<1> QED
  BY <1>1, <1>2 DEF CallStep, BeginStep, DraftStep, MarkStep, AnswerStep,
     Restart, OtherStep, display

\* Reports stay behind the display.
LEMMA NextReportInv ==
    ASSUME TypeOK, TypeOK', CallStep, ResponseInv, ReportInv
    PROVE  ReportInv'
<1>1. CASE Receive
  <2>1. PICK response \in inbox :
          /\ device'.revision = response.revision
          /\ device'.values = response.values
          /\ device.applied /\ response.revision = device.revision =>
               device'.applied
    BY <1>1, ReceiveEffect
  <2>2. NotOlder(response)
    BY DEF ResponseInv
  <2>3. sent' = sent
    BY <1>1 DEF Receive
  <2>4. /\ device.revision \in Nat /\ response.revision \in Nat
        /\ \A request \in sent : request.report.revision \in Nat
    BY DEF TypeOK, Device, Response, Request, Report
  <2> QED
    BY <2>1, <2>2, <2>3, <2>4 DEF ReportInv, NotOlder
<1>2. CASE Send
  <2>1. \A request \in sent' :
          request \in sent \/ request.report = CurrentReport
    BY <1>2 DEF Send
  <2>2. /\ CurrentReport.revision = device.revision
        /\ CurrentReport.values = device.values
        /\ CurrentReport.applied = device.applied
        /\ device.revision \in Nat
    BY DEF CurrentReport, TypeOK, Device
  <2>3. /\ device'.revision = device.revision
        /\ device'.values = device.values
        /\ device'.applied = device.applied
    BY <1>2 DEF Send, TypeOK, Device
  <2> HIDE DEF CurrentReport
  <2> QED
    BY <2>1, <2>2, <2>3 DEF ReportInv
<1>3. CASE ~Receive /\ ~Send
  <2>1. sent' = sent
    BY <1>3 DEF CallStep, BeginStep, DraftStep, MarkStep, AnswerStep, Restart,
       GiveUp, OtherStep, display
  <2> QED
    BY <1>3, <2>1, DisplayKept DEF ReportInv
<1> QED
  BY <1>1, <1>2, <1>3

\* A report that makes the newest revision count as applied is right.
LEMMA ProcessActive ==
    ASSUME TypeOK, ChainInv, NonceInv, ResponseInv, ReportInv, ActiveInv,
           NEW h \in Handlers, Process(h),
           rec'.applied_revision = rec'.desired_revision
    PROVE  /\ device.applied
           /\ device.revision = rec'.desired_revision
           /\ device.values = rec'.desired
<1> DEFINE request == call[h].request
           report == request.report
           reported == ApplyReported(rec, report)
           acknowledged == AcknowledgeCommands(reported, request.acks)
<1>1. /\ request \in sent /\ report \in Report /\ rec \in Record
      /\ rec.desired_revision \in Nat /\ device.revision \in Nat
      /\ report.revision \in Nat
  BY FieldTypes DEF Process, NonceInv, TypeOK, Call, Request, Report, Device
<1>2. SameConfiguration(reported, rec')
  <2>1. reported \in Record
    BY <1>1, ApplyReportedType
  <2> HIDE DEF reported
  <2>2. acknowledged \in Record /\ SameConfiguration(reported, acknowledged)
    BY <2>1, AcknowledgeCommandsType, OtherMethodsSameConfiguration
  <2> HIDE DEF acknowledged
  <2>3. SameConfiguration(acknowledged, Scheduled(acknowledged))
    BY <2>2, ScheduledSame
  <2>4. rec' = Scheduled(acknowledged)
    BY DEF Process, Save, acknowledged, reported
  <2> QED
    BY <2>2, <2>3, <2>4 DEF SameConfiguration
<1>3. /\ reported.desired_revision = rec.desired_revision
      /\ reported.desired = rec.desired
      /\ reported.applied_revision # rec.applied_revision =>
           /\ report.given /\ ReportCountsAsApplied(rec, report)
           /\ reported.applied_revision = report.revision
  BY <1>1 DEF ApplyReported, Larger, Record
<1> HIDE DEF reported
<1>4. CASE reported.applied_revision = rec.applied_revision
  BY <1>2, <1>3, <1>4 DEF SameConfiguration, ActiveInv, Active, Copies
<1>5. CASE reported.applied_revision # rec.applied_revision
  <2>1. /\ report.given /\ report.applied
        /\ report.revision = rec.desired_revision /\ report.values = rec.desired
    BY <1>1, <1>2, <1>3, <1>5 DEF SameConfiguration, ReportCountsAsApplied
  <2>2. Within(device.revision, device.values, rec)
    BY <1>1, WithinExtends DEF ResponseInv, ChainInv, Copies, TypeOK
  <2>3. device.revision = rec.desired_revision
    BY <1>1, <2>1, <2>2 DEF ReportInv, Within
  <2> QED
    BY <1>1, <1>2, <1>3, <2>1, <2>3 DEF ReportInv, SameConfiguration
<1> QED
  BY <1>4, <1>5

\* In every copy, what counts as applied stays active.
LEMMA NextActiveInv ==
    ASSUME TypeOK, TypeOK', StoreInv, StoreInv', StoreStep, CallStep,
           ChainInv, NonceInv, ResponseInv, ReportInv, ActiveInv
    PROVE  ActiveInv'
<1>1. CASE Receive
  <2>1. PICK response \in inbox :
          /\ device'.revision = response.revision
          /\ device'.values = response.values
          /\ device.applied /\ response.revision = device.revision =>
               device'.applied
    BY <1>1, ReceiveEffect
  <2>2. Copies' = Copies
    BY <1>1 DEF Receive, store, Copies
  <2>3. ASSUME NEW r \in Copies, r.applied_revision = r.desired_revision
        PROVE  /\ device'.applied
               /\ device'.revision = r.desired_revision
               /\ device'.values = r.desired
    <3>1. /\ device.applied /\ device.revision = r.desired_revision
          /\ device.values = r.desired
      BY <2>3 DEF ActiveInv, Active
    <3>2. r \in Record /\ disk \in Record /\ response.revision \in Nat
      BY DEF TypeOK, Copies, Response
    <3>3. Within(response.revision, response.values, r)
      BY <3>2, WithinExtends DEF ResponseInv, ChainInv
    <3>4. NotOlder(response) /\ device.revision \in Nat
      BY DEF ResponseInv, TypeOK, Device
    <3>5. response.revision = device.revision
      BY <3>1, <3>2, <3>3, <3>4 DEF Within, NotOlder
    <3> QED
      BY <2>1, <3>1, <3>4, <3>5 DEF NotOlder
  <2> QED
    BY <2>2, <2>3 DEF ActiveInv, Active
<1>2. CASE ~Receive
  <2>1. /\ device'.revision = device.revision
        /\ device'.values = device.values
        /\ device'.applied = device.applied
    BY <1>2, DisplayKept
  <2>2. SUFFICES ASSUME NEW r \in Copies' PROVE Active(r)
    BY <2>1 DEF ActiveInv, Active
  <2>3. CASE r \in Copies
    BY <2>3 DEF ActiveInv
  <2>4. CASE Reload
    <3>1. r = disk \/ r = rec'
      BY <2>4 DEF Reload, Copies
    <3> QED
      BY <2>4, <3>1 DEF Reload, SameConfiguration, ActiveInv, Active, Copies
  <2>5. CASE ExtendingSave /\ r \notin Copies
    <3>1. r = rec'
      BY <2>5 DEF ExtendingSave, Save, Copies
    <3>2. CASE \E h \in Handlers : Process(h)
      BY <3>1, <3>2, ProcessActive DEF Active
    <3>3. CASE rec'.applied_revision = rec.applied_revision
      <4>1. /\ rec.applied_revision \in Nat /\ rec.desired_revision \in Nat
            /\ rec'.desired_revision \in Nat
            /\ rec.applied_revision <= rec.desired_revision
        <5>1. RevisionsOrdered(rec) /\ rec \in Record /\ rec' \in Record
          BY DEF StoreInv, Copies, Consistent, TypeOK
        <5> QED
          BY <5>1, FieldTypes DEF RevisionsOrdered
      <4>2. Within(rec.desired_revision, rec.desired, rec')
        BY <2>5 DEF ExtendingSave, Extends
      <4>3. Active(rec)
        BY DEF ActiveInv, Copies
      <4> QED
        BY <3>1, <3>3, <4>1, <4>2, <4>3 DEF Within, Active
    <3> QED
      BY <2>5, <3>2, <3>3 DEF ExtendingSave
  <2>6. CASE \/ StartWrite \/ FinishWrite \/ UNCHANGED store
             \/ \E c \in Callers : Release(c)
    <3>1. r \in Copies
      BY <2>6 DEF StartWrite, FinishWrite, store, Release, Copies
    <3> QED
      BY <3>1 DEF ActiveInv
  <2> QED
    BY <2>3, <2>4, <2>5, <2>6 DEF StoreStep
<1> QED
  BY <1>1, <1>2

-----------------------------------------------------------------------------
(***************************************************************************)
(* The theorems.                                                           *)
(***************************************************************************)
RevisionInv ==
    /\ LockInv /\ ChainInv /\ DeliveredInv
    /\ NonceInv /\ ResponseInv
    /\ ReportInv /\ ActiveInv

\* The invariant holds initially.
LEMMA InitRevisionInv == Init => RevisionInv
<1> SUFFICES ASSUME Init PROVE RevisionInv
  OBVIOUS
<1>1. PICK time \in CheckTimes : rec = NewRecord(time)
  BY DEF Init
<1>2. /\ rec.desired_revision = 1 /\ rec.applied_revision = 0
      /\ rec.desired = DefaultDesired
      /\ disk = rec /\ writing = {} /\ kept = {}
  BY <1>1 DEF Init, NewRecord
<1>3. /\ device.revision = 0 /\ sent = {} /\ inbox = {}
      /\ \A c \in Callers : wait[c] = "none"
      /\ \A h \in Handlers : call[h].pc = "idle"
  BY DEF Init, IdleCall
<1>4. LockInv /\ DeliveredInv
  BY <1>2, <1>3 DEF LockInv, DeliveredInv
<1>5. ChainInv /\ ActiveInv
  BY <1>2 DEF ChainInv, Copies, Extends, Within, ActiveInv, Active
<1>6. NonceInv /\ ResponseInv /\ ReportInv
  BY <1>2, <1>3 DEF NonceInv, ResponseInv, ReportInv, Within
<1> QED
  BY <1>4, <1>5, <1>6 DEF RevisionInv

\* Every step keeps it.
LEMMA NextRevisionInv ==
    /\ TypeOK /\ TypeOK' /\ StoreInv /\ StoreInv' /\ RevisionInv
    /\ [Next]_vars
    => RevisionInv'
BY StoreSteps, CallSteps, NextLockInv, NextChainInv, NextDeliveredInv,
   NextNonceInv, NextResponseInv, NextReportInv, NextActiveInv
   DEF RevisionInv

\* The invariant holds in every reachable state.
THEOREM RevisionInvariant == Spec => []RevisionInv
<1>1. Spec => [](TypeOK /\ StoreInv)
  BY StoreInvariant
<1> QED
  BY <1>1, InitRevisionInv, NextRevisionInv, PTL DEF Spec

\* No response takes the display back to an older revision or gives the one
\* it has other values, whatever is lost, repeated or restarted.
THEOREM DisplayNeverGoesBack == Spec => []RevisionsIncrease
<1>1. RevisionInv => RevisionsIncrease
  BY DEF RevisionInv, ResponseInv, NotOlder, RevisionsIncrease
<1> QED
  BY <1>1, RevisionInvariant, PTL

\* When the Hub takes the desired configuration for applied, the display
\* runs it.
THEOREM AppliedIsActive == Spec => []AppliedMeansActive
<1>1. RevisionInv => AppliedMeansActive
  BY DEF RevisionInv, ActiveInv, Active, Copies, AppliedMeansActive
<1> QED
  BY <1>1, RevisionInvariant, PTL

-----------------------------------------------------------------------------
(***************************************************************************)
(* CheckIn implements RevisionRegister: whatever is lost, repeated,        *)
(* interleaved or restarted, the display sees a register that it reads     *)
(* forward and that the Hub never takes back behind it.                    *)
(*                                                                         *)
(* A step writes the register if it saves a changed configuration, reads   *)
(* it if the display receives a response, and may lose a change if the Hub *)
(* restarts; every other step is a stutter.                                *)
(***************************************************************************)
\* The configuration of the record stays, or becomes that of a new revision.
Kept ==
    /\ rec'.desired_revision = rec.desired_revision
    /\ rec'.desired = rec.desired
Advanced == rec'.desired_revision = rec.desired_revision + 1

\* update_configuration draws the next revision for a change and keeps the
\* configuration otherwise.
LEMMA UpdateConfigurationAdvances ==
    ASSUME NEW r \in Record, NEW desired \in Desired,
           NEW schedule \in Schedules, NEW content_changed \in BOOLEAN
    PROVE  LET s == UpdateConfiguration(r, desired, schedule, content_changed)
           IN  s = r \/ s.desired_revision = r.desired_revision + 1
<1> DEFINE updated == [r EXCEPT !.desired = desired, !.wake_schedule = schedule,
                                !.desired_revision = @ + 1]
<1>1. updated.desired_revision = r.desired_revision + 1
  BY DEF Record
<1> HIDE DEF updated
<1> QED
  BY <1>1 DEF UpdateConfiguration, updated

\* A check-in keeps the configuration.
LEMMA ProcessKeeps ==
    ASSUME TypeOK, NEW h \in Handlers, Process(h)
    PROVE  Kept
<1> DEFINE request == call[h].request
           reported == ApplyReported(rec, request.report)
           acknowledged == AcknowledgeCommands(reported, request.acks)
           updated == Scheduled(acknowledged)
<1>1. request.report \in Report /\ rec \in Record
  BY DEF TypeOK, Call, Request
<1>2. /\ reported \in Record
      /\ reported.desired_revision = rec.desired_revision
      /\ reported.desired = rec.desired
  <2>1. reported \in Record
    BY <1>1, ApplyReportedType
  <2> QED
    BY <1>1, <2>1 DEF ApplyReported, Record
<1> HIDE DEF reported
<1>3. acknowledged \in Record /\ SameConfiguration(reported, acknowledged)
  BY <1>2, AcknowledgeCommandsType, OtherMethodsSameConfiguration
<1> HIDE DEF acknowledged
<1>4. SameConfiguration(acknowledged, updated)
  BY <1>3, ScheduledSame
<1>5. rec' = updated
  BY DEF Process, Save, reported, acknowledged
<1> HIDE DEF updated
<1> QED
  BY <1>2, <1>3, <1>4, <1>5 DEF SameConfiguration, Kept

LEMMA PrepareKeeps ==
    ASSUME TypeOK, NEW h \in Handlers, Prepare(h)
    PROVE  Kept
<1>1. MarkStep(h) \/ AnswerStep(h)
  BY LastSteps
<1> QED
  BY <1>1 DEF MarkStep, AnswerStep, Kept

\* A change of a switch or a number.
LEMMA SetDesiredAdvances ==
    ASSUME TypeOK, NEW key \in DOMAIN DefaultDesired, NEW value \in BOOLEAN,
           SetDesired(key, value)
    PROVE  Kept \/ Advanced
<1> DEFINE desired == [rec.desired EXCEPT ![key] = value]
           updated == UpdateConfiguration(rec, desired, rec.wake_schedule,
                                          FALSE)
<1>1. rec \in Record /\ desired \in Desired
  BY FieldTypes DEF TypeOK, Desired, DefaultDesired
<1> HIDE DEF desired
<1>2. updated = rec \/ updated.desired_revision = rec.desired_revision + 1
  BY <1>1, FieldTypes, UpdateConfigurationAdvances
<1>3. rec' = updated
  BY DEF SetDesired, Save, desired
<1> HIDE DEF updated
<1> QED
  BY <1>2, <1>3 DEF Kept, Advanced

\* A change in the reconfigure flow.
LEMMA ReconfigureAdvances ==
    ASSUME TypeOK, NEW schedule \in Schedules, NEW new \in Contents,
           NEW time \in CheckTimes, Reconfigure(schedule, new, time)
    PROVE  Kept \/ Advanced
<1> DEFINE configured == UpdateConfiguration(rec, rec.desired, schedule,
                                             new # content)
           updated == UpdateOtaSettings(configured,
                                        rec.automatic_ota_enabled, time)
<1>1. rec \in Record
  BY DEF TypeOK
<1>2. /\ configured \in Record
      /\ configured = rec
           \/ configured.desired_revision = rec.desired_revision + 1
  BY <1>1, FieldTypes, UpdateConfigurationType, UpdateConfigurationAdvances
<1>3. rec' = updated
  BY DEF Reconfigure, Save
<1> HIDE DEF configured
<1>4. SameConfiguration(configured, updated)
  BY <1>2, OtherMethodsSameConfiguration
<1> HIDE DEF updated
<1> QED
  BY <1>2, <1>3, <1>4 DEF SameConfiguration, Kept, Advanced

\* A save of a record with the present configuration keeps it.
LEMMA SaveKeeps ==
    ASSUME NEW r, SameConfiguration(rec, r), NEW S, Save(r, S)
    PROVE  Kept
BY DEF SameConfiguration, Save, Kept

\* Every step but a restart keeps the configuration or draws the next
\* revision for it.
LEMMA ConfigurationSteps ==
    TypeOK /\ [Next]_vars => Kept \/ Advanced \/ Restart
<1> SUFFICES ASSUME TypeOK, [Next]_vars PROVE Kept \/ Advanced \/ Restart
  OBVIOUS
<1>0. rec \in Record
  BY DEF TypeOK
<1>1. CASE MinuteTick
  <2>1. CASE Due(rec)
    BY <1>0, <1>1, <2>1, ScheduledSame, SaveKeeps DEF MinuteTick
  <2> QED
    BY <1>1, <2>1 DEF MinuteTick, store, Kept
<1>2. ASSUME NEW h \in Handlers,
             Authenticate(h) \/ Process(h) \/ Prepare(h) \/ Return(h)
      PROVE  Kept
  <2>1. CASE Authenticate(h)
    <3>1. PICK request \in sent : Save(RememberNonce(rec, request.nonce), {h})
      BY <2>1 DEF Authenticate
    <3> QED
      BY <1>0, <3>1, OtherMethodsSameConfiguration, SaveKeeps
  <2>2. CASE Return(h)
    BY <2>2 DEF Return, Release, Kept
  <2> QED
    BY <1>2, <2>1, <2>2, ProcessKeeps, PrepareKeeps
<1>3. ASSUME NEW value \in BOOLEAN, SetAutomaticOta(value) PROVE Kept
  <2> DEFINE updated == UpdateOtaSettings(rec, value, rec.ota_check_time)
             deferred == DeferAutomaticOtaUntilNextDay(updated, clock.day)
  <2>1. updated \in Record /\ SameConfiguration(rec, updated)
    BY <1>0, FieldTypes, UpdateOtaSettingsType, OtherMethodsSameConfiguration
  <2>2. rec' = updated \/ rec' = deferred
    BY <1>3 DEF SetAutomaticOta, Save
  <2> HIDE DEF updated
  <2>3. SameConfiguration(updated, deferred)
    BY <2>1, OtherMethodsSameConfiguration
  <2> HIDE DEF deferred
  <2> QED
    BY <2>1, <2>2, <2>3 DEF SameConfiguration, Kept
<1>4. CASE TurnOnManualOta \/ TurnOnWifiFullScan
  BY <1>0, <1>4, OtherMethodsSameConfiguration, SaveKeeps
     DEF TurnOnManualOta, TurnOnWifiFullScan
<1>5. CASE ScheduleAfterReconfigure
  BY <1>0, <1>5, ScheduledSame, SaveKeeps DEF ScheduleAfterReconfigure
<1>6. CASE \/ StartWrite \/ FinishWrite \/ FinishReconfigure
           \/ PassTime \/ MoveTimezone \/ Send \/ Receive \/ GiveUp
           \/ UNCHANGED vars
  BY <1>6 DEF StartWrite, FinishWrite, FinishReconfigure, PassTime,
     MoveTimezone, Send, Receive, GiveUp, Release, vars, store, Kept
<1> QED
  BY <1>1, <1>2, <1>3, <1>4, <1>5, <1>6, SetDesiredAdvances,
     ReconfigureAdvances DEF Next

-----------------------------------------------------------------------------
(***************************************************************************)
(* The refinement.                                                         *)
(***************************************************************************)
\* The settings the register and the display have.
HubSettings == [revision |-> rec.desired_revision, values |-> rec.desired]
DisplaySettings == [revision |-> device.revision, values |-> device.values]

\* A new Hub and a display that has nothing are an initial register.
LEMMA InitRegister == TypeOK /\ Init => Register!Init
<1> SUFFICES ASSUME TypeOK, Init PROVE Register!Init
  OBVIOUS
<1>1. /\ rec.desired_revision \in Nat /\ rec.desired \in Desired
      /\ device.revision \in Nat /\ device.values \in Desired
  BY FieldTypes DEF TypeOK, Device
<1>2. rec.desired_revision = 1 /\ device.revision = 0
  BY DEF Init, NewRecord
<1> QED
  BY <1>1, <1>2 DEF Register!Init, Register!Settings

\* A saved change writes the register.
LEMMA AdvancedWrites ==
    ASSUME TypeOK, TypeOK', Advanced, UNCHANGED DisplaySettings
    PROVE  Register!Next
<1>1. /\ rec.desired_revision \in Nat /\ rec'.desired_revision \in Nat
      /\ rec'.desired \in Desired
  BY FieldTypes DEF TypeOK
<1>2. rec'.desired_revision \in 0..(rec.desired_revision + 1)
  BY <1>1 DEF Advanced
<1>3. Register!Write(HubSettings')
  BY DEF Advanced, Register!Write, HubSettings, DisplaySettings
<1> QED
  BY <1>1, <1>2, <1>3 DEF Register!Next, HubSettings

\* A response reads it.
LEMMA ReceiveReads ==
    ASSUME TypeOK, ChainInv, ResponseInv, Receive
    PROVE  Register!Next
<1>1. PICK response \in inbox :
        device'.revision = response.revision /\ device'.values = response.values
  BY ReceiveEffect
<1>2. /\ response.revision \in Nat /\ response.values \in Desired
      /\ device.revision \in Nat /\ rec.desired_revision \in Nat
      /\ rec \in Record /\ disk \in Record
  BY FieldTypes DEF TypeOK, Response, Device
<1>3. NotOlder(response) /\ Within(response.revision, response.values, rec)
  BY <1>2, WithinExtends DEF ResponseInv, ChainInv, Copies
<1>4. UNCHANGED HubSettings
  BY DEF Receive, store, HubSettings
<1>5. /\ DisplaySettings'.revision = response.revision
      /\ DisplaySettings'.values = response.values
  BY <1>1 DEF DisplaySettings
<1>6. Register!Read(DisplaySettings')
  BY <1>1, <1>2, <1>3, <1>4
     DEF Register!Read, Register!Follows, NotOlder, Within, HubSettings,
         DisplaySettings
<1>7. response.revision \in 0..(rec.desired_revision + 1)
  BY <1>2, <1>3 DEF Within
<1> QED
  BY <1>1, <1>2, <1>6, <1>7 DEF Register!Next, DisplaySettings

\* A restart loses the revisions that were not on the disk, which the display
\* has not seen.
LEMMA RestartLoses ==
    ASSUME TypeOK, StoreInv, ChainInv, ResponseInv, Restart
    PROVE  Register!Next \/ UNCHANGED Register!vars
<1>1. /\ disk \in Record /\ rec \in Record /\ device.revision \in Nat
      /\ disk.desired_revision \in Nat /\ rec.desired_revision \in Nat
      /\ disk.desired \in Desired
  BY FieldTypes DEF TypeOK, Device
<1>2. rec' = Scheduled(disk)
  BY FromDictIdentity, <1>1 DEF Restart, StoreInv, Copies, Consistent
<1>3. /\ rec'.desired_revision = disk.desired_revision
      /\ rec'.desired = disk.desired
  BY <1>1, <1>2, ScheduledSame DEF SameConfiguration
<1>4. UNCHANGED DisplaySettings
  BY DEF Restart, display, DisplaySettings
<1>5. Within(device.revision, device.values, disk)
  BY DEF ResponseInv
<1>6. Within(disk.desired_revision, disk.desired, rec)
  BY DEF ChainInv, Copies, Extends
<1>7. CASE disk.desired_revision = rec.desired_revision
  BY <1>3, <1>4, <1>6, <1>7 DEF Within, Register!vars, DisplaySettings
<1>8. CASE disk.desired_revision < rec.desired_revision
  <2>1. Register!Lose(HubSettings')
    BY <1>1, <1>3, <1>4, <1>5, <1>8
       DEF Register!Lose, Register!Follows, Within, HubSettings,
           DisplaySettings
  <2>2. disk.desired_revision \in 0..(rec.desired_revision + 1)
    BY <1>1, <1>8
  <2> QED
    BY <1>1, <1>3, <2>1, <2>2 DEF Register!Next, HubSettings
<1> QED
  BY <1>1, <1>6, <1>7, <1>8 DEF Within

\* Every step is one of the register or a stutter.
LEMMA NextRegister ==
    /\ TypeOK /\ TypeOK' /\ StoreInv /\ RevisionInv /\ [Next]_vars
    => [Register!Next]_(Register!vars)
<1> SUFFICES ASSUME TypeOK, TypeOK', StoreInv, RevisionInv, [Next]_vars
             PROVE  Register!Next \/ UNCHANGED Register!vars
  OBVIOUS
<1>1. ChainInv /\ ResponseInv
  BY DEF RevisionInv
<1>2. CASE Restart
  BY <1>1, <1>2, RestartLoses
<1>3. CASE Receive
  BY <1>1, <1>3, ReceiveReads
<1>4. CASE ~Restart /\ ~Receive
  <2>1. UNCHANGED DisplaySettings
    BY <1>4, CallSteps, DisplayKept DEF DisplaySettings
  <2>2. CASE Kept
    BY <2>1, <2>2 DEF Kept, Register!vars, DisplaySettings
  <2> QED
    BY <1>4, <2>1, <2>2, ConfigurationSteps, AdvancedWrites
<1> QED
  BY <1>2, <1>3, <1>4

\* The display of CheckIn sees the register of RevisionRegister: what it has
\* only moves forward, up to what the user wanted, and a change that a crash
\* loses is one it has not seen.
THEOREM CheckInImplementsRegister == Spec => ImplementsRegister
<1>1. Spec => [](TypeOK /\ StoreInv)
  BY StoreInvariant
<1> QED
  BY <1>1, RevisionInvariant, InitRegister, NextRegister, PTL
     DEF Spec, ImplementsRegister, Register!Spec
=============================================================================
