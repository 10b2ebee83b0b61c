----------------------------- MODULE NonceProofs -----------------------------
(***************************************************************************)
(* A request is processed once (NonceProcessedOnce), however often the     *)
(* network delivers it, whichever handlers run and whenever Home Assistant *)
(* restarts.                                                               *)
(*                                                                         *)
(* This is for a display that has sent no more requests than the history   *)
(* holds, so that no nonce is dropped: the histories of record, snapshots  *)
(* and disk only grow, the later including the earlier.  What may drop is  *)
(* the subject of ReplayGuardProofs.                                       *)
(***************************************************************************)
EXTENDS RevisionProofs, FiniteSetTheorems

-----------------------------------------------------------------------------
(***************************************************************************)
(* The history of a record.                                                *)
(***************************************************************************)
\* It has numbers of the n first requests, each once.
Recorded(r, n) ==
    /\ Remembered(r) \subseteq 1..n /\ IsFiniteSet(Remembered(r))
    /\ Cardinality(Remembered(r)) = Len(r.nonces)

\* remember_nonce drops nothing while there is room.
LEMMA RemembersAll ==
    ASSUME NEW r \in Record, NEW n \in Nat, n <= NonceHistorySize,
           NEW nonce \in 1..n, nonce \notin Remembered(r), Recorded(r, n)
    PROVE  LET s == RememberNonce(r, nonce)
           IN  /\ Remembered(s) = Remembered(r) \cup {nonce}
               /\ Recorded(s, n)
<1> DEFINE history == Append(r.nonces, nonce)
           s == RememberNonce(r, nonce)
           all == Remembered(r) \cup {nonce}
<1>1. /\ r.nonces \in Seq(Nat) /\ Len(r.nonces) \in Nat
      /\ DOMAIN r.nonces = 1..Len(r.nonces)
  BY LenProperties DEF Record
<1>2. /\ history \in Seq(Nat) /\ Len(history) = Len(r.nonces) + 1
      /\ history[Len(r.nonces) + 1] = nonce
      /\ \A i \in 1..Len(r.nonces) : history[i] = r.nonces[i]
  BY <1>1
<1>3. IsFiniteSet(all) /\ Cardinality(all) = Len(r.nonces) + 1
  BY FS_AddElement DEF Recorded
<1>4. all \subseteq 1..n
  BY DEF Recorded
<1>5. Len(r.nonces) + 1 <= n
  <2>1. IsFiniteSet(1..n) /\ Cardinality(1..n) = n
    BY FS_Interval
  <2> QED
    BY <1>3, <1>4, <2>1, FS_Subset
<1> HIDE DEF history
<1>6. Larger(1, Len(history) - NonceHistorySize + 1) = 1
  BY <1>1, <1>2, <1>5, HistoryAssumption DEF Larger
<1>7. SubSeq(history, 1, Len(history)) = history
  <2>1. \A i \in 1..Len(history) : history[i] \in Nat
    BY <1>2
  <2>2. Len(history) \in Nat
    BY <1>1, <1>2
  <2> QED
    BY <1>2, <2>1, <2>2, SubSeqFull
<1>8. s.nonces = history
  BY <1>6, <1>7 DEF RememberNonce, Record, history
<1>9. DOMAIN history = 1..(Len(r.nonces) + 1)
  BY <1>2, LenProperties
<1> HIDE DEF s, all
<1>10. Remembered(s) = all
  <2> DEFINE n1 == Len(r.nonces) + 1
  <2>1. Remembered(s) = {history[i] : i \in 1..n1}
    BY <1>8, <1>9 DEF Remembered
  <2>2. Remembered(r) = {r.nonces[i] : i \in 1..Len(r.nonces)}
    BY <1>1 DEF Remembered
  <2>3. 1..n1 = 1..Len(r.nonces) \cup {n1}
    BY <1>1
  <2>4. history[n1] = nonce
    BY <1>2
  <2> HIDE DEF n1
  <2>5. ASSUME NEW x \in Remembered(s) PROVE x \in all
    <3>1. PICK i \in 1..n1 : x = history[i]
      BY <2>1, <2>5
    <3>2. CASE i = n1
      BY <2>4, <3>1, <3>2 DEF all
    <3>3. CASE i \in 1..Len(r.nonces)
      BY <1>2, <2>2, <3>1, <3>3 DEF all
    <3> QED
      BY <2>3, <3>1, <3>2, <3>3
  <2>6. ASSUME NEW x \in all PROVE x \in Remembered(s)
    <3>1. CASE x = nonce
      BY <2>1, <2>3, <2>4, <3>1
    <3>2. CASE x \in Remembered(r)
      <4>1. PICK i \in 1..Len(r.nonces) : x = r.nonces[i]
        BY <2>2, <3>2
      <4>2. history[i] = x /\ i \in 1..n1
        BY <1>2, <2>3, <4>1
      <4> QED
        BY <2>1, <4>2
    <3> QED
      BY <2>6, <3>1, <3>2 DEF all
  <2> QED
    BY <2>5, <2>6
<1> QED
  BY <1>2, <1>3, <1>4, <1>8, <1>10 DEF Recorded, all, s

-----------------------------------------------------------------------------
(***************************************************************************)
(* What a step does to the history: a check-in that begins extends it, a   *)
(* restart takes that of the disk, and nothing else touches it.            *)
(***************************************************************************)
SameHistory(r, s) == s.nonces = r.nonces

\* The other methods of a record keep its history.
LEMMA OtherMethodsSameHistory ==
    ASSUME NEW r \in Record
    PROVE  /\ \A desired, schedule, changed :
                SameHistory(r, UpdateConfiguration(r, desired, schedule, changed))
           /\ \A revision :
                SameHistory(r, MarkConfigurationDelivered(r, revision))
           /\ \A report : SameHistory(r, ApplyReported(r, report))
           /\ \A enabled, time :
                SameHistory(r, UpdateOtaSettings(r, enabled, time))
           /\ \A today : SameHistory(r, DeferAutomaticOtaUntilNextDay(r, today))
           /\ \A ids : SameHistory(r, MarkCommandsDelivered(r, ids))
           /\ \A ids : SameHistory(r, AcknowledgeCommands(r, ids))
           /\ \A id, source : SameHistory(r, EnqueueOtaCommand(r, id, source))
           /\ \A id : SameHistory(r, EnqueueWifiFullScanCommand(r, id))
BY DEF SameHistory, UpdateConfiguration, MarkConfigurationDelivered,
       ApplyReported, UpdateOtaSettings, DeferAutomaticOtaUntilNextDay,
       MarkCommandsDelivered, AcknowledgeCommands, EnqueueOtaCommand,
       EnqueueWifiFullScanCommand, Record

LEMMA ScheduledSameHistory ==
    ASSUME TypeOK, NEW r \in Record
    PROVE  SameHistory(r, Scheduled(r))
<1> DEFINE enqueued == EnqueueOtaCommand(r, drawn + 1, "automatic")
<1>1. enqueued \in Record /\ SameHistory(r, enqueued)
  BY EnqueueOtaCommandType, OtherMethodsSameHistory DEF TypeOK
<1>2. \/ Scheduled(r) = r
      \/ Scheduled(r) = [enqueued EXCEPT !.last_automatic_ota_date = clock.day]
  BY DEF Scheduled, ScheduleAutomaticOta
<1> HIDE DEF enqueued
<1> QED
  BY <1>1, <1>2 DEF SameHistory, Record

\* A check-in after its authentication.
LEMMA CheckInSameHistory ==
    ASSUME TypeOK, NEW h \in Handlers, Process(h) \/ Prepare(h) \/ Return(h)
    PROVE  SameHistory(rec, rec')
<1> USE DEF SameHistory
<1>0. rec \in Record
  BY DEF TypeOK
<1>1. CASE Process(h)
  <2> DEFINE request == call[h].request
             reported == ApplyReported(rec, request.report)
             acknowledged == AcknowledgeCommands(reported, request.acks)
  <2>1. request.report \in Report
    BY DEF TypeOK, Call, Request
  <2>2. rec' = Scheduled(acknowledged)
    BY <1>1 DEF Process, Save
  <2>3. reported \in Record /\ SameHistory(rec, reported)
    BY <1>0, <2>1, ApplyReportedType, OtherMethodsSameHistory
  <2> HIDE DEF reported
  <2>4. acknowledged \in Record /\ SameHistory(reported, acknowledged)
    BY <2>3, AcknowledgeCommandsType, OtherMethodsSameHistory
  <2> HIDE DEF acknowledged
  <2> QED
    BY <2>2, <2>3, <2>4, ScheduledSameHistory
<1>2. CASE Prepare(h)
  <2> DEFINE response == [call[h].response EXCEPT
                            !.revision = rec.desired_revision,
                            !.values = rec.desired]
             delivered == MarkConfigurationDelivered(rec, response.revision)
             marked == MarkCommandsDelivered(delivered, Ids(response.commands))
  <2>1. response.revision \in Nat
    BY <1>0, FieldTypes DEF TypeOK, Call, Response
  <2>2. rec' = marked \/ rec' = rec
    BY <1>2 DEF Prepare, Save, Release
  <2> HIDE DEF response
  <2>3. delivered \in Record /\ SameHistory(rec, delivered)
    BY <1>0, <2>1, MarkConfigurationDeliveredType, OtherMethodsSameHistory
  <2> HIDE DEF delivered
  <2>4. SameHistory(delivered, marked)
    BY <2>3, OtherMethodsSameHistory
  <2> QED
    BY <2>2, <2>3, <2>4
<1>3. CASE Return(h)
  BY <1>3 DEF Return, Release
<1> QED
  BY <1>1, <1>2, <1>3

\* What the user does.
LEMMA UserSameHistory ==
    ASSUME TypeOK,
           \/ \E key \in DOMAIN DefaultDesired, value \in BOOLEAN :
                SetDesired(key, value)
           \/ \E value \in BOOLEAN : SetAutomaticOta(value)
           \/ TurnOnManualOta \/ TurnOnWifiFullScan
           \/ \E schedule \in Schedules, new \in Contents, time \in CheckTimes :
                Reconfigure(schedule, new, time)
    PROVE  SameHistory(rec, rec')
<1>0. rec \in Record
  BY DEF TypeOK
<1>1. ASSUME NEW key \in DOMAIN DefaultDesired, NEW value \in BOOLEAN,
             SetDesired(key, value)
      PROVE  SameHistory(rec, rec')
  BY <1>0, <1>1, OtherMethodsSameHistory DEF SetDesired, Save
<1>2. ASSUME NEW value \in BOOLEAN, SetAutomaticOta(value)
      PROVE  SameHistory(rec, rec')
  <2> DEFINE updated == UpdateOtaSettings(rec, value, rec.ota_check_time)
             deferred == DeferAutomaticOtaUntilNextDay(updated, clock.day)
  <2>1. updated \in Record /\ SameHistory(rec, updated)
    BY <1>0, FieldTypes, UpdateOtaSettingsType, OtherMethodsSameHistory
  <2>2. rec' = updated \/ rec' = deferred
    BY <1>2 DEF SetAutomaticOta, Save
  <2> HIDE DEF updated
  <2>3. SameHistory(updated, deferred)
    BY <2>1, OtherMethodsSameHistory
  <2> QED
    BY <2>1, <2>2, <2>3 DEF SameHistory
<1>3. CASE TurnOnManualOta \/ TurnOnWifiFullScan
  BY <1>0, <1>3, OtherMethodsSameHistory
     DEF TurnOnManualOta, TurnOnWifiFullScan, Save
<1>4. ASSUME NEW schedule \in Schedules, NEW new \in Contents,
             NEW time \in CheckTimes, Reconfigure(schedule, new, time)
      PROVE  SameHistory(rec, rec')
  <2> DEFINE configured == UpdateConfiguration(rec, rec.desired, schedule,
                                               new # content)
  <2>1. configured \in Record /\ SameHistory(rec, configured)
    BY <1>0, FieldTypes, UpdateConfigurationType, OtherMethodsSameHistory
  <2>2. rec' = UpdateOtaSettings(configured, rec.automatic_ota_enabled, time)
    BY <1>4 DEF Reconfigure, Save
  <2> HIDE DEF configured
  <2> QED
    BY <2>1, <2>2, OtherMethodsSameHistory DEF SameHistory
<1> QED
  BY <1>1, <1>2, <1>3, <1>4

\* Every step.
LEMMA HistorySteps ==
    TypeOK /\ StoreInv /\ [Next]_vars
    => \/ \E h \in Handlers : Authenticate(h)
       \/ Restart /\ SameHistory(disk, rec')
       \/ SameHistory(rec, rec')
<1> SUFFICES ASSUME TypeOK, StoreInv, [Next]_vars,
                    \A h \in Handlers : ~Authenticate(h)
             PROVE  \/ Restart /\ SameHistory(disk, rec')
                    \/ SameHistory(rec, rec')
  OBVIOUS
<1>0. rec \in Record
  BY DEF TypeOK
<1>1. CASE MinuteTick \/ ScheduleAfterReconfigure
  <2>1. rec' = Scheduled(rec) \/ rec' = rec
    BY <1>1 DEF MinuteTick, ScheduleAfterReconfigure, Save, store
  <2> QED
    BY <1>0, <2>1, ScheduledSameHistory DEF SameHistory
<1>2. CASE Restart
  <2>1. disk \in Record /\ FromDict(disk) = disk
    BY FromDictIdentity DEF StoreInv, Copies, Consistent, TypeOK
  <2> QED
    BY <1>2, <2>1, ScheduledSameHistory DEF Restart
<1>3. CASE \/ StartWrite \/ FinishWrite \/ FinishReconfigure
           \/ PassTime \/ MoveTimezone \/ Send \/ Receive \/ GiveUp
           \/ UNCHANGED vars
  BY <1>3 DEF StartWrite, FinishWrite, FinishReconfigure, PassTime,
     MoveTimezone, Send, Receive, GiveUp, Release, vars, store, SameHistory
<1> QED
  BY <1>1, <1>2, <1>3, CheckInSameHistory, UserSameHistory DEF Next

\* What counts as processed.
LEMMA ProcessedSteps ==
    [Next]_vars
    => \/ processed' = processed
       \/ \E h \in Handlers :
            /\ Process(h)
            /\ processed' = processed \cup {call[h].request.nonce}
<1> SUFFICES ASSUME [Next]_vars, \A h \in Handlers : ~Process(h)
             PROVE  processed' = processed
  BY DEF Process
<1>1. ASSUME NEW h \in Handlers, Authenticate(h) \/ Prepare(h) \/ Return(h)
      PROVE  processed' = processed
  BY <1>1 DEF Authenticate, Prepare, Return, ghosts
<1>2. ASSUME NEW key \in DOMAIN DefaultDesired, NEW value \in BOOLEAN,
             SetDesired(key, value)
      PROVE  processed' = processed
  BY <1>2 DEF SetDesired, ghosts
<1>3. ASSUME NEW value \in BOOLEAN, SetAutomaticOta(value)
      PROVE  processed' = processed
  BY <1>3 DEF SetAutomaticOta, ghosts
<1>4. ASSUME NEW schedule \in Schedules, NEW new \in Contents,
             NEW time \in CheckTimes, Reconfigure(schedule, new, time)
      PROVE  processed' = processed
  BY <1>4 DEF Reconfigure, ghosts
<1>5. CASE \/ StartWrite \/ FinishWrite \/ MinuteTick
           \/ TurnOnManualOta \/ TurnOnWifiFullScan
           \/ ScheduleAfterReconfigure \/ FinishReconfigure \/ Restart
  BY <1>5 DEF StartWrite, FinishWrite, MinuteTick, TurnOnManualOta,
     TurnOnWifiFullScan, ScheduleAfterReconfigure, FinishReconfigure,
     Restart, ghosts
<1>6. CASE PassTime \/ MoveTimezone \/ Send \/ Receive \/ GiveUp
           \/ UNCHANGED vars
  BY <1>6 DEF PassTime, MoveTimezone, Send, Receive, GiveUp, vars, ghosts
<1> QED
  BY <1>1, <1>2, <1>3, <1>4, <1>5, <1>6 DEF Next

-----------------------------------------------------------------------------
(***************************************************************************)
(* The invariant.                                                          *)
(***************************************************************************)
\* The later copy includes the earlier, and what was processed is on the
\* disk.
HistoryInv ==
    /\ \A r \in Copies : /\ Recorded(r, device.requests)
                         /\ Remembered(disk) \subseteq Remembered(r)
    /\ \A w \in writing : Remembered(w) \subseteq Remembered(rec)
    /\ processed \subseteq Remembered(disk)

\* The nonce is in the record, in what the handler waits for, and on the disk
\* when the handler runs on.
Held(h, nonce) ==
    /\ nonce \in Remembered(rec)
    /\ wait[h] = "write" => \A w \in writing : nonce \in Remembered(w)
    /\ wait[h] = "resume" => nonce \in Remembered(disk)

\* Each check-in has a nonce of its own, which it holds.
TakenInv ==
    /\ \A h \in Handlers :
         /\ call[h].pc # "idle" => Held(h, call[h].request.nonce)
         /\ call[h].pc = "idle" => call[h].request.nonce = 0
         /\ call[h].pc = "nonce_save" => call[h].request.nonce \notin processed
    /\ \A g, h \in Handlers :
         /\ g # h /\ call[g].pc # "idle" /\ call[h].pc # "idle"
         => call[g].request.nonce # call[h].request.nonce

NonceInvariant == HistoryInv /\ TakenInv

-----------------------------------------------------------------------------
(***************************************************************************)
(* The invariant is kept.                                                  *)
(***************************************************************************)
\* The number of requests only grows.
LEMMA RequestsGrow ==
    ASSUME TypeOK, CallStep
    PROVE  device.requests <= device'.requests /\ device.requests \in Nat
<1>1. device.requests \in Nat
  BY DEF TypeOK, Device
<1>2. CASE UNCHANGED device
  BY <1>1, <1>2
<1>3. CASE Receive \/ GiveUp
  <2>1. device'.requests = device.requests
    BY <1>3 DEF Receive, GiveUp, TypeOK, Device
  <2> QED
    BY <1>1, <2>1
<1>4. CASE Send
  <2>1. device'.requests = device.requests + 1
    BY <1>4 DEF Send, TypeOK, Device
  <2> QED
    BY <1>1, <2>1
<1> QED
  BY <1>2, <1>3, <1>4 DEF CallStep, BeginStep, DraftStep, MarkStep, AnswerStep,
     Restart, OtherStep, display

\* The check-in that begins remembers a new nonce.
LEMMA BeginRemembers ==
    ASSUME TypeOK, NonceInv, HistoryInv, device.requests <= NonceHistorySize,
           NEW h \in Handlers, Authenticate(h)
    PROVE  LET nonce == call'[h].request.nonce
           IN  /\ nonce \notin Remembered(rec)
               /\ Remembered(rec') = Remembered(rec) \cup {nonce}
               /\ Recorded(rec', device.requests)
               /\ Save(rec', {h})
               /\ call'[h].pc = "nonce_save"
               /\ \A g \in Handlers \ {h} : call'[g] = call[g]
<1>1. PICK request \in sent :
        /\ request.nonce \notin Remembered(rec)
        /\ Save(RememberNonce(rec, request.nonce), {h})
        /\ call' = [call EXCEPT ![h].pc = "nonce_save", ![h].request = request]
  BY DEF Authenticate
<1>2. rec' = RememberNonce(rec, request.nonce)
  BY <1>1 DEF Save
<1>3. /\ call'[h].request = request /\ call'[h].pc = "nonce_save"
      /\ \A g \in Handlers \ {h} : call'[g] = call[g]
  BY <1>1 DEF TypeOK, Call
<1>4. /\ request.nonce \in 1..device.requests /\ device.requests \in Nat
      /\ rec \in Record
  BY DEF NonceInv, TypeOK, Request, Device
<1>5. Recorded(rec, device.requests)
  BY DEF HistoryInv, Copies
<1>6. /\ Remembered(rec') = Remembered(rec) \cup {request.nonce}
      /\ Recorded(rec', device.requests)
  BY <1>1, <1>2, <1>4, <1>5, RemembersAll
<1> QED
  BY <1>1, <1>2, <1>3, <1>6

\* The history of the record grows, but in a restart.
LEMMA RecordRemembers ==
    ASSUME TypeOK, StoreInv, NonceInv, HistoryInv,
           device.requests <= NonceHistorySize, [Next]_vars
    PROVE  /\ Recorded(rec', device.requests)
           /\ Remembered(disk) \subseteq Remembered(rec')
           /\ ~Restart => Remembered(rec) \subseteq Remembered(rec')
<1>1. /\ Recorded(rec, device.requests) /\ Recorded(disk, device.requests)
      /\ Remembered(disk) \subseteq Remembered(rec)
  BY DEF HistoryInv, Copies
<1>2. \A r, s : SameHistory(r, s) =>
        /\ Remembered(s) = Remembered(r)
        /\ Recorded(r, device.requests) => Recorded(s, device.requests)
  BY DEF SameHistory, Remembered, Recorded
<1>3. CASE \E h \in Handlers : Authenticate(h)
  BY <1>1, <1>3, BeginRemembers
<1>4. CASE Restart /\ SameHistory(disk, rec')
  BY <1>1, <1>2, <1>4
<1>5. CASE SameHistory(rec, rec')
  BY <1>1, <1>2, <1>5
<1> QED
  BY <1>3, <1>4, <1>5, HistorySteps

\* What handlers hold they go on holding.
LEMMA HeldKept ==
    ASSUME TypeOK, StoreInv, LockInv, StoreStep, ~Reload,
           Remembered(rec) \subseteq Remembered(rec'),
           NEW h \in Handlers, NEW nonce, Held(h, nonce)
    PROVE  Held(h, nonce)'
<1> DEFINE In(r) == nonce \in Remembered(r)
<1>0. h \in Callers
  BY DEF Callers
<1>1. /\ In(rec) /\ In(rec')
      /\ wait[h] = "write" => \A w \in writing : In(w)
      /\ wait[h] = "resume" => In(disk)
  BY DEF Held
<1> HIDE DEF In
<1>2. SUFFICES /\ wait'[h] = "write" => \A w \in writing' : In(w)
               /\ wait'[h] = "resume" => In(disk')
  BY <1>1 DEF Held, In
<1>3. CASE StartWrite
  <2>1. writing' = {rec}
    BY <1>3 DEF StartWrite, StoreInv, NewestSnapshotIsCurrent
  <2>2. wait'[h] # "resume"
    BY <1>0, <1>3 DEF StartWrite, LockFree, TypeOK
  <2> QED
    BY <1>1, <2>1, <2>2
<1>4. CASE FinishWrite
  BY <1>0, <1>1, <1>4 DEF FinishWrite, LockInv
<1>5. CASE ExtendingSave
  <2>1. PICK S \in Waiters : Save(rec', S)
    BY <1>5 DEF ExtendingSave
  <2>2. \/ wait'[h] = "write" /\ writing' = {rec'}
        \/ wait'[h] = "lock"
        \/ wait'[h] = wait[h] /\ writing' = {rec'}
        \/ wait'[h] = wait[h] /\ writing' = writing
    BY <1>0, <2>1 DEF Save
  <2>3. disk' = disk
    BY <2>1 DEF Save
  <2>4. wait'[h] = "write" => \A w \in writing' : In(w)
    BY <1>1, <2>2
  <2>5. wait'[h] = "resume" => In(disk')
    BY <1>1, <2>2, <2>3
  <2> QED
    BY <2>4, <2>5
<1>6. CASE \E c \in Callers : Release(c) /\ Resumes(c)
  BY <1>0, <1>1, <1>6 DEF Release, TypeOK
<1>7. CASE UNCHANGED store
  BY <1>1, <1>7 DEF store
<1> QED
  BY <1>3, <1>4, <1>5, <1>6, <1>7 DEF StoreStep

\* The nonce of a check-in that goes on is on the disk.
LEMMA ResumedOnDisk ==
    ASSUME StoreInv, TakenInv, NEW h \in Handlers, call[h].pc # "idle",
           Resumes(h)
    PROVE  call[h].request.nonce \in Remembered(disk)
<1>1. Held(h, call[h].request.nonce)
  BY DEF TakenInv
<1>2. wait[h] = "resume" \/ disk = rec
  BY DEF Resumes, LockFree, StoreInv, NewestSnapshotIsCurrent
<1> QED
  BY <1>1, <1>2 DEF Held

\* The histories.
LEMMA NextHistoryInv ==
    ASSUME TypeOK, StoreInv, StoreStep, CallStep, NonceInv, [Next]_vars,
           HistoryInv, TakenInv, device.requests <= NonceHistorySize
    PROVE  HistoryInv'
<1>1. /\ Recorded(rec', device.requests)
      /\ Remembered(disk) \subseteq Remembered(rec')
      /\ ~Restart => Remembered(rec) \subseteq Remembered(rec')
  BY RecordRemembers
<1>2. /\ Copies' \subseteq Copies \cup {rec'}
      /\ disk' = disk \/ disk' \in writing
  BY CopySteps
<1>3. \A r \in Copies : /\ Recorded(r, device.requests)
                        /\ Remembered(disk) \subseteq Remembered(r)
  BY DEF HistoryInv
<1>4. \A r \in Copies' : Recorded(r, device'.requests)
  <2>1. \A r \in Copies' : Recorded(r, device.requests)
    BY <1>1, <1>2, <1>3
  <2>2. /\ device.requests <= device'.requests /\ device.requests \in Nat
        /\ device'.requests \in Nat
    BY RequestsGrow, NextType DEF TypeOK, Device
  <2>3. 1..device.requests \subseteq 1..device'.requests
    BY <2>2
  <2> QED
    BY <2>1, <2>3 DEF Recorded
<1>5. processed' \subseteq Remembered(disk')
  <2>1. processed' \subseteq Remembered(disk)
    <3>1. ASSUME NEW h \in Handlers, Process(h)
          PROVE  call[h].request.nonce \in Remembered(disk)
      BY <3>1, ResumedOnDisk DEF Process
    <3> QED
      BY <3>1, ProcessedSteps DEF HistoryInv
  <2>2. Remembered(disk) \subseteq Remembered(disk')
    BY <1>2, <1>3 DEF Copies
  <2> QED
    BY <2>1, <2>2
<1>6. /\ \A r \in Copies' : Remembered(disk') \subseteq Remembered(r)
      /\ \A w \in writing' : Remembered(w) \subseteq Remembered(rec')
  <2>1. CASE Reload \/ Restart
    <3>1. /\ disk' = disk /\ kept' = {}
          /\ writing' = {rec'} \/ writing' = {}
      BY <2>1, RestartReloads DEF Reload
    <3> QED
      BY <1>1, <3>1 DEF Copies
  <2>2. CASE StartWrite
    BY <1>3, <2>2 DEF StartWrite, StoreInv, NewestSnapshotIsCurrent, Copies
  <2>3. CASE FinishWrite
    <3>1. PICK w \in writing : disk' = w
      BY <2>3 DEF FinishWrite
    <3>2. rec' = rec /\ writing' = {} /\ kept' = kept /\ kept \subseteq {rec}
      BY <2>3 DEF FinishWrite, StoreInv, NewestSnapshotIsCurrent
    <3> QED
      BY <3>1, <3>2 DEF HistoryInv, Copies
  <2>4. CASE ExtendingSave /\ ~Restart
    <3>1. PICK S \in Waiters : Save(rec', S)
      BY <2>4 DEF ExtendingSave
    <3>2. /\ disk' = disk
          /\ writing' = {rec'} \/ writing' = writing
          /\ kept' = {rec'} \/ kept' = kept
      BY <3>1 DEF Save
    <3>3. \A w \in writing : Remembered(w) \subseteq Remembered(rec')
      BY <1>1, <2>4 DEF HistoryInv
    <3> QED
      BY <1>1, <1>3, <3>2, <3>3 DEF Copies
  <2>5. CASE (\E c \in Callers : Release(c)) \/ UNCHANGED store
    BY <1>3, <2>5 DEF Release, store, Copies, HistoryInv
  <2> QED
    BY <2>1, <2>2, <2>3, <2>4, <2>5 DEF StoreStep
<1> QED
  BY <1>4, <1>5, <1>6 DEF HistoryInv

\* A check-in that goes on keeps its request.
LEMMA RequestsKept ==
    ASSUME TypeOK, CallStep, NEW h \in Handlers, ~Authenticate(h),
           call'[h].pc # "idle"
    PROVE  /\ call[h].pc # "idle" /\ call'[h].request = call[h].request
           /\ call'[h].pc = "nonce_save" => call[h].pc = "nonce_save"
<1>1. CASE call'[h] = call[h]
  BY <1>1
<1>2. ASSUME NEW g \in Handlers,
             BeginStep(g) \/ DraftStep(g) \/ MarkStep(g) \/ AnswerStep(g)
      PROVE  \/ call'[h] = call[h]
             \/ g = h /\ (DraftStep(h) \/ MarkStep(h))
  BY <1>2 DEF BeginStep, DraftStep, MarkStep, AnswerStep, OthersSame, IdleCall
<1>3. CASE DraftStep(h) \/ MarkStep(h)
  BY <1>3 DEF DraftStep, MarkStep
<1>4. ~Restart
  BY DEF Restart, IdleCall
<1>5. CASE Send \/ Receive \/ GiveUp \/ OtherStep
  BY <1>5 DEF Send, Receive, GiveUp, OtherStep
<1> QED
  BY <1>1, <1>2, <1>3, <1>4, <1>5 DEF CallStep

\* A check-in that does not go on has no request.
LEMMA IdleHasNoRequest ==
    ASSUME TypeOK, CallStep, TakenInv, NEW h \in Handlers,
           call'[h].pc = "idle"
    PROVE  call'[h].request.nonce = 0
<1>1. CASE call'[h] = call[h]
  BY <1>1 DEF TakenInv
<1>2. CASE call'[h] = IdleCall
  BY <1>2 DEF IdleCall, NoRequest
<1>3. ASSUME NEW g \in Handlers,
             BeginStep(g) \/ DraftStep(g) \/ MarkStep(g) \/ AnswerStep(g)
      PROVE  call'[h] = call[h] \/ call'[h] = IdleCall
  BY <1>3 DEF BeginStep, DraftStep, MarkStep, AnswerStep, OthersSame
<1>4. CASE Restart \/ Send \/ Receive \/ GiveUp \/ OtherStep
  BY <1>1, <1>2, <1>4 DEF Restart, Send, Receive, GiveUp, OtherStep
<1> QED
  BY <1>1, <1>2, <1>3, <1>4 DEF CallStep

\* What the handlers hold.
LEMMA NextTakenInv ==
    ASSUME TypeOK, TypeOK', StoreInv, StoreStep, CallStep, LockInv, NonceInv,
           [Next]_vars, HistoryInv, TakenInv,
           device.requests <= NonceHistorySize
    PROVE  TakenInv'
<1>1. \A h \in Handlers : call'[h].pc = "idle" => call'[h].request.nonce = 0
  BY IdleHasNoRequest
<1>2. CASE \E h \in Handlers : Authenticate(h)
  <2>1. PICK h \in Handlers : Authenticate(h)
    BY <1>2
  <2> DEFINE nonce == call'[h].request.nonce
  <2>2. /\ nonce \notin Remembered(rec)
        /\ Remembered(rec') = Remembered(rec) \cup {nonce}
        /\ Save(rec', {h})
        /\ call'[h].pc = "nonce_save"
        /\ \A g \in Handlers \ {h} : call'[g] = call[g]
    BY <2>1, BeginRemembers
  <2> HIDE DEF nonce
  <2>3. processed' = processed /\ nonce \notin processed
    <3>1. processed' = processed
      BY <2>1 DEF Authenticate, ghosts
    <3> QED
      BY <2>2, <3>1 DEF HistoryInv, Copies
  <2>4. PICK n : n = nonce
    OBVIOUS
  <2>5. Held(h, n)'
    <3>1. wait'[h] = "lock" \/ (wait'[h] = "write" /\ writing' = {rec'})
      BY <2>2 DEF Save, Callers
    <3>2. n \in Remembered(rec')
      BY <2>2, <2>4
    <3> QED
      BY <3>1, <3>2 DEF Held
  <2>6. ASSUME NEW g \in Handlers \ {h}, call[g].pc # "idle", NEW m,
               m = call[g].request.nonce
        PROVE  Held(g, m)' /\ m # n
    <3>1. Held(g, m)
      BY <2>6 DEF TakenInv
    <3>2. ~Reload
      BY <2>2 DEF Reload, IdleCall
    <3>3. Held(g, m)'
      BY <2>2, <3>1, <3>2, HeldKept
    <3> QED
      BY <2>2, <2>4, <3>1, <3>3 DEF Held
  <2>7. ASSUME NEW g \in Handlers, call'[g].pc # "idle"
        PROVE  Held(g, call[g].request.nonce)'
    <3>1. CASE g = h
      BY <2>4, <2>5, <3>1 DEF Held, nonce
    <3>2. CASE g # h
      <4>1. PICK m : m = call[g].request.nonce
        OBVIOUS
      <4>2. call'[g] = call[g] /\ call[g].pc # "idle"
        BY <2>2, <2>7, <3>2
      <4>3. Held(g, m)'
        BY <2>6, <3>2, <4>1, <4>2
      <4> QED
        BY <4>1, <4>2, <4>3 DEF Held
    <3> QED
      BY <3>1, <3>2
  <2>8. \A g \in Handlers : call'[g].pc = "nonce_save" =>
          call'[g].request.nonce \notin processed'
    BY <2>2, <2>3 DEF TakenInv, nonce
  <2>9. \A g \in Handlers \ {h} : call'[g].pc # "idle" =>
          call'[g].request.nonce # nonce
    BY <2>2, <2>4, <2>6
  <2>10. \A g, k \in Handlers :
           g # k /\ call'[g].pc # "idle" /\ call'[k].pc # "idle"
           => call'[g].request.nonce # call'[k].request.nonce
    BY <2>2, <2>9 DEF TakenInv, nonce
  <2> QED
    BY <1>1, <2>7, <2>8, <2>10 DEF TakenInv
<1>3. CASE \A h \in Handlers : ~Authenticate(h)
  <2>1. \A h \in Handlers : call'[h].pc # "idle" =>
          /\ call[h].pc # "idle" /\ call'[h].request = call[h].request
          /\ call'[h].pc = "nonce_save" => call[h].pc = "nonce_save"
    BY <1>3, RequestsKept
  <2>2. ASSUME NEW h \in Handlers, call'[h].pc # "idle"
        PROVE  Held(h, call[h].request.nonce)'
    <3>1. ~Reload /\ ~Restart
      BY <2>2 DEF Reload, Restart, IdleCall
    <3>2. PICK n : n = call[h].request.nonce
      OBVIOUS
    <3>3. Held(h, n)
      BY <2>1, <2>2, <3>2 DEF TakenInv
    <3>4. Remembered(rec) \subseteq Remembered(rec')
      BY <3>1, RecordRemembers
    <3>5. Held(h, n)'
      BY <3>1, <3>3, <3>4, HeldKept
    <3> QED
      BY <2>1, <2>2, <3>2, <3>5 DEF Held
  <2>3. ASSUME NEW h \in Handlers, call'[h].pc = "nonce_save"
        PROVE  call'[h].request.nonce \notin processed'
    <3>1. /\ call[h].pc = "nonce_save" /\ call'[h].request = call[h].request
      BY <2>1, <2>3
    <3>2. call[h].request.nonce \notin processed
      BY <3>1 DEF TakenInv
    <3>3. ASSUME NEW g \in Handlers, Process(g)
          PROVE  call[g].request.nonce # call[h].request.nonce
      <4>1. call[g].pc = "nonce_save" /\ call'[g].pc = "checkin_save"
        <5>1. BeginStep(g) \/ DraftStep(g)
          BY <3>3, FirstSteps
        <5> QED
          BY <1>3, <5>1 DEF BeginStep, DraftStep
      <4> QED
        BY <2>3, <3>1, <4>1 DEF TakenInv
    <3> QED
      BY <3>1, <3>2, <3>3, ProcessedSteps
  <2>4. \A g, k \in Handlers :
          g # k /\ call'[g].pc # "idle" /\ call'[k].pc # "idle"
          => call'[g].request.nonce # call'[k].request.nonce
    BY <2>1 DEF TakenInv
  <2> QED
    BY <1>1, <2>2, <2>3, <2>4 DEF TakenInv
<1> QED
  BY <1>2, <1>3

-----------------------------------------------------------------------------
(***************************************************************************)
(* The theorem.                                                            *)
(***************************************************************************)
\* No nonce has been dropped yet.
HistoryHasRoom == device.requests <= NonceHistorySize

NoncesAreKept == HistoryHasRoom => NonceInvariant

LEMMA InitNonceInvariant == Init => NonceInvariant
<1> SUFFICES ASSUME Init PROVE NonceInvariant
  OBVIOUS
<1>1. /\ rec.nonces = <<>> /\ disk = rec /\ writing = {} /\ kept = {}
      /\ processed = {} /\ device.requests = 0
      /\ \A h \in Handlers : call[h] = IdleCall
  BY DEF Init, NewRecord
<1>2. Remembered(rec) = {}
  BY <1>1 DEF Remembered
<1>3. HistoryInv
  <2>1. Len(rec.nonces) = 0 /\ IsFiniteSet({}) /\ Cardinality({}) = 0
    BY <1>1, FS_EmptySet
  <2>2. Recorded(rec, device.requests)
    BY <1>2, <2>1 DEF Recorded
  <2> QED
    BY <1>1, <1>2, <2>2 DEF HistoryInv, Copies
<1>4. TakenInv
  BY <1>1 DEF TakenInv, IdleCall, NoRequest
<1> QED
  BY <1>3, <1>4 DEF NonceInvariant

LEMMA NextNoncesAreKept ==
    /\ TypeOK /\ TypeOK' /\ StoreInv /\ RevisionInv /\ NoncesAreKept
    /\ [Next]_vars
    => NoncesAreKept'
<1> SUFFICES ASSUME TypeOK, TypeOK', StoreInv, RevisionInv, NoncesAreKept,
                    [Next]_vars, HistoryHasRoom'
             PROVE  NonceInvariant'
  BY DEF NoncesAreKept
<1>1. StoreStep /\ CallStep /\ LockInv /\ NonceInv
  BY StoreSteps, CallSteps DEF RevisionInv
<1>2. device.requests <= NonceHistorySize
  <2>1. device.requests <= device'.requests /\ device.requests \in Nat
    BY <1>1, RequestsGrow
  <2>2. device'.requests <= NonceHistorySize /\ device'.requests \in Nat
    BY DEF HistoryHasRoom, TypeOK, Device
  <2> QED
    BY <2>1, <2>2, HistoryAssumption
<1>3. HistoryInv /\ TakenInv
  BY <1>2 DEF NoncesAreKept, HistoryHasRoom, NonceInvariant
<1> QED
  BY <1>1, <1>2, <1>3, NextHistoryInv, NextTakenInv DEF NonceInvariant

\* The invariant holds as long as the history has room.
THEOREM NoncesStayKept == Spec => []NoncesAreKept
<1>1. Init => NoncesAreKept
  BY InitNonceInvariant DEF NoncesAreKept
<1> QED
  BY <1>1, NextNoncesAreKept, StoreInvariant, RevisionInvariant, PTL DEF Spec

\* The nonce of a request that is about to be processed is on the disk, was
\* not processed and is no other handler's: a request is processed once.
THEOREM ProcessedOnce == Spec => [](HistoryHasRoom => NonceProcessedOnce)
<1>1. /\ TypeOK /\ StoreInv /\ RevisionInv /\ NoncesAreKept
      => (HistoryHasRoom => NonceProcessedOnce)
  <2> SUFFICES ASSUME TypeOK, StoreInv, RevisionInv, NonceInvariant,
                      NEW h \in Handlers, call[h].pc = "nonce_save"
               PROVE  /\ Resumes(h) =>
                           call[h].request.nonce \in Remembered(disk)
                      /\ call[h].request.nonce \notin processed
                      /\ \A g \in Handlers \ {h} :
                           call[g].request.nonce # call[h].request.nonce
    BY DEF NoncesAreKept, NonceProcessedOnce
  <2>1. TakenInv /\ 1 <= call[h].request.nonce
    BY DEF NonceInvariant, RevisionInv, NonceInv
  <2> QED
    BY <2>1, ResumedOnDisk DEF TakenInv
<1> QED
  BY <1>1, NoncesStayKept, StoreInvariant, RevisionInvariant, PTL
=============================================================================
