------------------------------ MODULE CheckIn ------------------------------
(***************************************************************************)
(* One paired display checking in with the Hub.                            *)
(*                                                                         *)
(* The Hub runs on one event loop: a handler is atomic between two awaits. *)
(* CheckinView.post awaits at most three saves of the store:               *)
(*                                                                         *)
(*   Authenticate --save--> Process --save--> Prepare [--save--> Return]   *)
(*                                                                         *)
(* and everything else on the loop may run while it waits: another request *)
(* of the same display, the switches, the reconfigure flow (which awaits   *)
(* saves of its own), the minute tick, or a restart of Home Assistant that *)
(* forgets all but the disk.                                               *)
(*                                                                         *)
(* Home Assistant's Store is external.  async_save keeps the snapshot it   *)
(* is given, then takes a lock; with the lock it writes the snapshot kept  *)
(* last, its own or a newer one, or finds that another caller has written  *)
(* it and returns at once.  A caller keeps the lock until it runs again,   *)
(* and then runs on without a pause, so no other waiting handler can run   *)
(* during a write.  asyncio wakes the waiting callers in order; here any   *)
(* of them may be next.  Failing writes are left out.  The snapshot shares *)
(* lists with the record, but every change of a record is followed by a    *)
(* save before the next await, so a kept snapshot is never out of date     *)
(* (NewestSnapshotIsCurrent).                                              *)
(*                                                                         *)
(* The firmware and the network are external too: requests may be lost,    *)
(* delayed and duplicated; a display has one request outstanding, gives up *)
(* on it at will and takes only a response that carries its nonce.         *)
(***************************************************************************)
EXTENDS DeviceRecord

CONSTANTS
    Handlers,          \* requests the Hub may be serving at the same time
    Flow,              \* the user's reconfigure flow
    Contents,          \* content selections a user may make
    InitialContent,
    CheckTimes,        \* daily OTA check times a user may choose
    LastTime,          \* the local day has the times 0..LastTime
    MaxRevision,       \* bound on desired_revision
    MaxCommands,       \* bound on the commands ever created
    MaxRequests,       \* bound on the requests the display sends
    MaxDay,            \* bound on the local date
    MaxRestarts,       \* bound on restarts of Home Assistant
    MaxTimezoneMoves   \* bound on moves of the time zone across midnight

ASSUME FlowAssumption == Flow \notin Handlers
ASSUME ContentAssumption == InitialContent \in Contents
ASSUME TimeAssumption == LastTime \in Nat /\ CheckTimes \subseteq Nat
ASSUME BoundAssumption ==
    /\ MaxRevision \in Nat /\ MaxCommands \in Nat /\ MaxRequests \in Nat
    /\ MaxDay \in Nat /\ MaxRestarts \in Nat /\ MaxTimezoneMoves \in Nat

VARIABLES
    rec,        \* HubStore.devices[id], in memory
    disk,       \* the record in the storage file
    writing,    \* the snapshot being written, if any
    kept,       \* the snapshot to be written after it, if any
    wait,       \* per caller of async_save: what it waits for
    call,       \* per handler: the CheckinView.post it is executing
    flow,       \* the reconfigure flow and the content it will store
    content,    \* the subentry's content selection
    chosen,     \* ghost: the selection the user made last
    clock,      \* local date and time
    device,     \* the display
    sent,       \* every request sent; the network may deliver it again
    inbox,      \* responses that reached the display
    drawn,      \* ghost: number of command ids drawn
    automatic,  \* ghost: the automatic commands created, with their date
    processed,  \* ghost: the nonces whose requests were processed
    restarts, moves

store == <<rec, disk, writing, kept, wait>>
user == <<flow, content, chosen>>
display == <<device, sent, inbox>>
ghosts == <<drawn, automatic, processed>>
vars == <<store, call, user, clock, display, ghosts, restarts, moves>>

(***************************************************************************)
(* Messages and handler states.                                            *)
(***************************************************************************)
Request == [nonce : Nat, report : Report, acks : SUBSET Nat]

Public == [id : Nat, type : {"ota_check", "wifi_full_scan"}]

Plans == {<<>>} \cup {<<s>> : s \in Schedules}

Response == [nonce : Nat, revision : Nat, values : Desired,
             content : Contents, plan : Plans, commands : SUBSET Public]

Call == [pc : {"idle", "nonce_save", "checkin_save", "delivery_save"},
         request : Request, response : Response]

NoRequest == [nonce |-> 0, acks |-> {},
              report |-> [given |-> FALSE, revision |-> 0, applied |-> FALSE,
                          values |-> DefaultDesired]]

NoResponse == [nonce |-> 0, revision |-> 0, values |-> DefaultDesired,
               content |-> InitialContent, plan |-> <<>>, commands |-> {}]

IdleCall == [pc |-> "idle", request |-> NoRequest, response |-> NoResponse]

IdleFlow == [pc |-> "idle", content |-> InitialContent]

\* Those who have something to do after their save.
Callers == Handlers \cup {Flow}

Ids(commands) == {c.id : c \in commands}

Init ==
    /\ \E time \in CheckTimes : rec = NewRecord(time)
    /\ disk = rec /\ writing = {} /\ kept = {}
    /\ wait = [c \in Callers |-> "none"]
    /\ call = [h \in Handlers |-> IdleCall]
    /\ flow = IdleFlow
    /\ content = InitialContent /\ chosen = InitialContent
    /\ clock = [day |-> 1, time |-> 0]
    /\ device = [nonce |-> 0, requests |-> 0, acks |-> {}, revision |-> 0,
                 values |-> DefaultDesired, applied |-> FALSE,
                 accepted |-> {}, forgotten |-> {}]
    /\ sent = {} /\ inbox = {}
    /\ drawn = 0 /\ automatic = {} /\ processed = {}
    /\ restarts = 0 /\ moves = 0

(***************************************************************************)
(* The store.                                                              *)
(***************************************************************************)
\* A caller waits for the lock, then for its write, then ("resume") runs
\* next and still has the lock.
LockFree == writing = {} /\ \A c \in Callers : wait[c] # "resume"

\* Mutant of Resumes: a caller whose record another one wrote waits on.
ResumesAfterOwnWrite(c) == wait[c] = "resume"

\* Caller c goes on after its save: it has written, or there was nothing left
\* to write when it got the lock.
Resumes(c) ==
    \/ wait[c] = "resume"
    \/ wait[c] = "lock" /\ LockFree /\ kept = {}

\* The lock is free for a save by the callers S, and nobody waits for it.
Uncontended(S) ==
    /\ writing = {} /\ kept = {}
    /\ \A c \in Callers \ S : wait[c] \notin {"lock", "resume"}

\* The record becomes r and is saved: async_save up to its await.  S is the
\* caller that waits for it; nobody, when nothing is done after the save.
Save(r, S) ==
    /\ rec' = r
    /\ \/ /\ Uncontended(S)
          /\ writing' = {r} /\ UNCHANGED kept
          /\ wait' = [c \in Callers |-> IF c \in S THEN "write" ELSE wait[c]]
       \/ /\ ~Uncontended(S)
          /\ kept' = {r} /\ UNCHANGED writing
          /\ wait' = [c \in Callers |-> IF c \in S THEN "lock" ELSE wait[c]]
    /\ UNCHANGED disk

\* Caller c goes on and saves nothing.
Release(c) ==
    /\ wait' = [wait EXCEPT ![c] = "none"]
    /\ UNCHANGED <<rec, disk, writing, kept>>

\* One of those that wait gets the lock and writes the kept snapshot.
StartWrite ==
    /\ LockFree /\ kept # {}
    /\ writing' = kept /\ kept' = {}
    /\ \/ \E c \in Callers : /\ wait[c] = "lock"
                            /\ wait' = [wait EXCEPT ![c] = "write"]
       \/ UNCHANGED wait
    /\ UNCHANGED <<rec, disk, call, user, clock, display, ghosts, restarts,
                   moves>>

FinishWrite ==
    /\ \E r \in writing : disk' = r
    /\ writing' = {}
    /\ wait' = [c \in Callers |->
                 IF wait[c] = "write" THEN "resume" ELSE wait[c]]
    /\ UNCHANGED <<rec, kept, call, user, clock, display, ghosts, restarts,
                   moves>>

(***************************************************************************)
(* Automatic OTA, from a check-in, the minute tick, a finished reconfigure *)
(* flow or the setup of the Hub.                                           *)
(***************************************************************************)
Due(r) == AutomaticOtaDue(r, clock.day, clock.time)

Scheduled(r) == ScheduleAutomaticOta(r, clock.day, clock.time, drawn + 1)

RecordScheduling(r) ==
    IF Due(r)
    THEN /\ drawn < MaxCommands
         /\ drawn' = drawn + 1
         /\ automatic' = automatic \cup {[id |-> drawn + 1, day |-> clock.day]}
    ELSE UNCHANGED <<drawn, automatic>>

\* async_schedule_automatic_ota: saves only when it created a command.
MinuteTick ==
    /\ RecordScheduling(rec)
    /\ IF Due(rec) THEN Save(Scheduled(rec), {}) ELSE UNCHANGED store
    /\ UNCHANGED <<call, user, clock, display, processed, restarts, moves>>

(***************************************************************************)
(* CheckinView.post and HubCoordinator.async_process_checkin.              *)
(***************************************************************************)
\* Mutant of Authenticate: the replay check is forgotten.
AuthenticateAgain(h) ==
    /\ call[h].pc = "idle"
    /\ \E request \in sent :
         /\ Save(RememberNonce(rec, request.nonce), {h})
         /\ call' = [call EXCEPT ![h].pc = "nonce_save",
                                 ![h].request = request]
    /\ UNCHANGED <<user, clock, display, ghosts, restarts, moves>>

\* A request whose nonce is unknown is authentic; its nonce is saved.
Authenticate(h) ==
    /\ call[h].pc = "idle"
    /\ \E request \in sent :
         /\ request.nonce \notin Remembered(rec)
         /\ Save(RememberNonce(rec, request.nonce), {h})
         /\ call' = [call EXCEPT ![h].pc = "nonce_save",
                                 ![h].request = request]
    /\ UNCHANGED <<user, clock, display, ghosts, restarts, moves>>

\* The schedule the next wake is planned from; empty while refresh is
\* suspended, when the plan is relative.
PlanOf(r) ==
    IF r.desired.suspend_display_refresh THEN <<>> ELSE <<r.wake_schedule>>

\* The part of the response that is fixed before the second save.
Draft(request, commands) ==
    [NoResponse EXCEPT !.nonce = request.nonce, !.content = content,
                       !.plan = PlanOf(rec), !.commands = commands]

\* Mutant of Process: collects the commands before the acknowledgements.
ProcessCommandsFirst(h) ==
    LET request == call[h].request
        reported == ApplyReported(rec, request.report)
        acknowledged == AcknowledgeCommands(reported, request.acks)
        updated == Scheduled(acknowledged)
    IN  /\ call[h].pc = "nonce_save" /\ Resumes(h)
        /\ RecordScheduling(acknowledged)
        /\ processed' = processed \cup {request.nonce}
        /\ Save(updated, {h})
        /\ \E commands \in DeliverableCommands(reported) :
             call' = [call EXCEPT ![h].pc = "checkin_save",
                                  ![h].response = Draft(request, commands)]
        /\ UNCHANGED <<user, clock, display, restarts, moves>>

\* Everything up to the second save: report, plan, acknowledgements,
\* automatic OTA, and the commands of the response.  The content selection
\* is looked up here too.
Process(h) ==
    LET request == call[h].request
        reported == ApplyReported(rec, request.report)
        acknowledged == AcknowledgeCommands(reported, request.acks)
        updated == Scheduled(acknowledged)
    IN  /\ call[h].pc = "nonce_save" /\ Resumes(h)
        /\ RecordScheduling(acknowledged)
        /\ processed' = processed \cup {request.nonce}
        /\ Save(updated, {h})
        /\ \E commands \in DeliverableCommands(updated) :
             call' = [call EXCEPT ![h].pc = "checkin_save",
                                  ![h].response = Draft(request, commands)]
        /\ UNCHANGED <<user, clock, display, restarts, moves>>

\* The response leaves the Hub; the display takes it only while it waits
\* for it.
Answer(h, response) ==
    /\ inbox' = IF response.nonce = device.nonce THEN {response} ELSE inbox
    /\ call' = [call EXCEPT ![h] = IdleCall]
    /\ UNCHANGED <<device, sent>>

\* Mutant of Prepare: answers without waiting for the last save.
PrepareWithoutWaiting(h) ==
    LET response == [call[h].response EXCEPT
                        !.revision = rec.desired_revision,
                        !.values = rec.desired]
        marked == MarkCommandsDelivered(
                    MarkConfigurationDelivered(rec, response.revision),
                    Ids(response.commands))
    IN  /\ call[h].pc = "checkin_save" /\ Resumes(h)
        /\ Answer(h, response)
        /\ rec' = marked
        /\ kept' = IF marked # rec THEN {marked} ELSE kept
        /\ wait' = [wait EXCEPT ![h] = "none"]
        /\ UNCHANGED <<disk, writing>>
        /\ UNCHANGED <<user, clock, ghosts, restarts, moves>>

\* Mutant of Prepare: delivery_changed tells only of the commands (= for |=).
PrepareWithoutSave(h) ==
    LET response == [call[h].response EXCEPT
                        !.revision = rec.desired_revision,
                        !.values = rec.desired]
        delivered == MarkConfigurationDelivered(rec, response.revision)
        marked == MarkCommandsDelivered(delivered, Ids(response.commands))
    IN  /\ call[h].pc = "checkin_save" /\ Resumes(h)
        /\ \/ /\ marked # delivered
              /\ Save(marked, {h})
              /\ call' = [call EXCEPT ![h].pc = "delivery_save",
                                      ![h].response = response]
              /\ UNCHANGED display
           \/ /\ marked = delivered
              /\ Answer(h, response)
              /\ rec' = marked
              /\ wait' = [wait EXCEPT ![h] = "none"]
              /\ UNCHANGED <<disk, writing, kept>>
        /\ UNCHANGED <<user, clock, ghosts, restarts, moves>>

\* After the second save the response takes the revision and the values the
\* record has now; it is returned at once unless it is the first to carry
\* that revision or one of its commands.
Prepare(h) ==
    LET response == [call[h].response EXCEPT
                        !.revision = rec.desired_revision,
                        !.values = rec.desired]
        marked == MarkCommandsDelivered(
                    MarkConfigurationDelivered(rec, response.revision),
                    Ids(response.commands))
    IN  /\ call[h].pc = "checkin_save" /\ Resumes(h)
        /\ \/ /\ marked # rec
              /\ Save(marked, {h})
              /\ call' = [call EXCEPT ![h].pc = "delivery_save",
                                      ![h].response = response]
              /\ UNCHANGED display
           \/ /\ marked = rec
              /\ Answer(h, response)
              /\ Release(h)
        /\ UNCHANGED <<user, clock, ghosts, restarts, moves>>

Return(h) ==
    /\ call[h].pc = "delivery_save" /\ Resumes(h)
    /\ Answer(h, call[h].response)
    /\ Release(h)
    /\ UNCHANGED <<user, clock, ghosts, restarts, moves>>

(***************************************************************************)
(* The entities (switch.py).  A call that changes nothing saves nothing    *)
(* and is no step; turning a pending request off is refused.               *)
(***************************************************************************)
SetDesired(key, value) ==
    LET desired == [rec.desired EXCEPT ![key] = value]
        updated == UpdateConfiguration(rec, desired, rec.wake_schedule, FALSE)
    IN  /\ updated # rec
        /\ rec.desired_revision < MaxRevision
        /\ Save(updated, {})
        /\ UNCHANGED <<call, user, clock, display, ghosts, restarts, moves>>

\* Enabling skips the current local day.  Frozen where the bounds leave no
\* automatic command to create.
SetAutomaticOta(value) ==
    LET updated == UpdateOtaSettings(rec, value, rec.ota_check_time)
        deferred == IF value /\ ~rec.automatic_ota_enabled
                    THEN DeferAutomaticOtaUntilNextDay(updated, clock.day)
                    ELSE updated
    IN  /\ deferred # rec
        /\ MaxCommands > 0 /\ MaxDay > 1
        /\ Save(deferred, {})
        /\ UNCHANGED <<call, user, clock, display, ghosts, restarts, moves>>

Draw ==
    /\ drawn < MaxCommands
    /\ drawn' = drawn + 1

TurnOnManualOta ==
    /\ EnqueueOtaCommand(rec, drawn + 1, "manual") # rec
    /\ Draw
    /\ Save(EnqueueOtaCommand(rec, drawn + 1, "manual"), {})
    /\ UNCHANGED <<call, user, clock, display, automatic, processed, restarts,
                   moves>>

TurnOnWifiFullScan ==
    /\ EnqueueWifiFullScanCommand(rec, drawn + 1) # rec
    /\ Draw
    /\ Save(EnqueueWifiFullScanCommand(rec, drawn + 1), {})
    /\ UNCHANGED <<call, user, clock, display, automatic, processed, restarts,
                   moves>>

(***************************************************************************)
(* The reconfigure flow: the record first, the subentry's content only     *)
(* after the save.                                                         *)
(***************************************************************************)
Reconfigure(schedule, new, time) ==
    LET updated == UpdateOtaSettings(
                     UpdateConfiguration(rec, rec.desired, schedule,
                                         new # content),
                     rec.automatic_ota_enabled, time)
    IN  /\ flow.pc = "idle"
        /\ updated.desired_revision <= MaxRevision
        /\ updated # rec
        /\ Save(updated, {Flow})
        /\ chosen' = new
        /\ flow' = [pc |-> "saving", content |-> new]
        /\ UNCHANGED <<call, content, clock, display, ghosts, restarts, moves>>

ScheduleAfterReconfigure ==
    /\ flow.pc = "saving" /\ Resumes(Flow)
    /\ Due(rec) /\ RecordScheduling(rec)
    /\ Save(Scheduled(rec), {Flow})
    /\ flow' = [flow EXCEPT !.pc = "scheduling"]
    /\ UNCHANGED <<call, content, chosen, clock, display, processed, restarts,
                   moves>>

FinishReconfigure ==
    /\ flow.pc # "idle" /\ Resumes(Flow)
    /\ flow.pc = "saving" => ~Due(rec)
    /\ Release(Flow)
    /\ content' = flow.content
    /\ flow' = IdleFlow
    /\ UNCHANGED <<call, chosen, clock, display, ghosts, restarts, moves>>

(***************************************************************************)
(* Home Assistant stops and starts again: only the disk survives, and the  *)
(* setup of the Hub evaluates the OTA schedule.                            *)
(***************************************************************************)
Restart ==
    LET loaded == FromDict(disk)
    IN  /\ restarts < MaxRestarts
        /\ restarts' = restarts + 1
        /\ RecordScheduling(loaded)
        /\ rec' = Scheduled(loaded)
        /\ writing' = IF Due(loaded) THEN {Scheduled(loaded)} ELSE {}
        /\ kept' = {}
        /\ wait' = [c \in Callers |-> "none"]
        /\ call' = [h \in Handlers |-> IdleCall]
        /\ flow' = IdleFlow
        /\ chosen' = content
        /\ UNCHANGED <<disk, content, clock, display, processed, moves>>

(***************************************************************************)
(* Local time, and a change of the time zone that takes the date back.     *)
(***************************************************************************)
PassTime ==
    /\ \/ /\ clock.time < LastTime
          /\ clock' = [clock EXCEPT !.time = @ + 1]
       \/ /\ clock.time = LastTime /\ clock.day < MaxDay
          /\ clock' = [day |-> clock.day + 1, time |-> 0]
    /\ UNCHANGED <<store, call, user, display, ghosts, restarts, moves>>

MoveTimezone ==
    /\ moves < MaxTimezoneMoves /\ clock.day > 1
    /\ moves' = moves + 1
    /\ clock' = [day |-> clock.day - 1, time |-> LastTime]
    /\ UNCHANGED <<store, call, user, display, ghosts, restarts>>

(***************************************************************************)
(* The display.  It keeps the id of a command it accepted until a response *)
(* confirms the acknowledgement of it, and acknowledges when it is done.   *)
(***************************************************************************)
\* The firmware reports its configuration once it has received one.
CurrentReport ==
    [given |-> device.revision > 0, revision |-> device.revision,
     applied |-> device.applied, values |-> device.values]

Send ==
    LET fresh == device.requests + 1
    IN  /\ device.nonce = 0 /\ device.requests < MaxRequests
        /\ \E acks \in SUBSET device.accepted :
             /\ device' = [device EXCEPT !.requests = fresh, !.acks = acks,
                                         !.nonce = fresh]
             /\ sent' = sent \cup {[nonce |-> fresh, acks |-> acks,
                                    report |-> CurrentReport]}
        /\ UNCHANGED <<store, call, user, clock, inbox, ghosts, restarts,
                       moves>>

Receive ==
    /\ \E response \in inbox, applied \in BOOLEAN :
         /\ device.applied /\ response.revision = device.revision => applied
         /\ device' = [device EXCEPT
                !.nonce = 0, !.acks = {}, !.revision = response.revision,
                !.values = response.values, !.applied = applied,
                !.accepted = (@ \ device.acks) \cup Ids(response.commands),
                !.forgotten = @ \cup device.acks]
    /\ inbox' = {}
    /\ UNCHANGED <<store, call, user, clock, sent, ghosts, restarts, moves>>

GiveUp ==
    /\ device.nonce # 0
    /\ device' = [device EXCEPT !.nonce = 0, !.acks = {}]
    /\ inbox' = {}
    /\ UNCHANGED <<store, call, user, clock, sent, ghosts, restarts, moves>>

Next ==
    \/ StartWrite \/ FinishWrite \/ MinuteTick
    \/ \E h \in Handlers :
         Authenticate(h) \/ Process(h) \/ Prepare(h) \/ Return(h)
    \/ \E key \in DOMAIN DefaultDesired, value \in BOOLEAN :
         SetDesired(key, value)
    \/ \E value \in BOOLEAN : SetAutomaticOta(value)
    \/ TurnOnManualOta \/ TurnOnWifiFullScan
    \/ \E schedule \in Schedules, new \in Contents, time \in CheckTimes :
         Reconfigure(schedule, new, time)
    \/ ScheduleAfterReconfigure \/ FinishReconfigure
    \/ Restart \/ PassTime \/ MoveTimezone
    \/ Send \/ Receive \/ GiveUp

Spec == Init /\ [][Next]_vars

\* What has been asked of the loop is done: writes end, and asyncio wakes
\* the callers that wait for the lock in order, so that each has it in the
\* end, however many saves follow (strong fairness).  Nothing makes users,
\* the network or the display act.
Fairness ==
    /\ WF_vars(StartWrite) /\ WF_vars(FinishWrite)
    /\ \A c \in Callers : SF_vars(StartWrite /\ wait'[c] = "write")
    /\ \A h \in Handlers : SF_vars(Process(h) \/ Prepare(h) \/ Return(h))
    /\ SF_vars(ScheduleAfterReconfigure \/ FinishReconfigure)

LiveSpec == Spec /\ Fairness

-----------------------------------------------------------------------------
(***************************************************************************)
(* Properties.                                                             *)
(***************************************************************************)
Device == [nonce : Nat, requests : Nat, acks : SUBSET Nat, revision : Nat,
           values : Desired, applied : BOOLEAN, accepted : SUBSET Nat,
           forgotten : SUBSET Nat]

AtMostOne(S) == \A a, b \in S : a = b

\* Every variable has its type, and at most one snapshot is being written
\* and at most one is waiting behind it (the lock of the store).
TypeOK ==
    /\ rec \in Record /\ disk \in Record
    /\ writing \subseteq Record /\ AtMostOne(writing)
    /\ kept \subseteq Record /\ AtMostOne(kept)
    /\ wait \in [Callers -> {"none", "lock", "write", "resume"}]
    /\ call \in [Handlers -> Call]
    /\ flow \in [pc : {"idle", "saving", "scheduling"}, content : Contents]
    /\ content \in Contents /\ chosen \in Contents
    /\ clock \in [day : Nat, time : Nat]
    /\ device \in Device
    /\ sent \subseteq Request /\ inbox \subseteq Response
    /\ drawn \in Nat /\ automatic \subseteq [id : Nat, day : Nat]
    /\ processed \subseteq Nat
    /\ restarts \in Nat /\ moves \in Nat

\* Every copy of the record: in memory, on its way to the disk, on the disk.
Copies == {rec, disk} \cup writing \cup kept

\* The order of the revisions (RevisionsOrdered) holds in every copy, so that
\* from_dict, which clamps the stored revisions, never changes what it loads,
\* and a delayed report never marks what was not delivered.
RevisionOrder == \A r \in Copies : RevisionsOrdered(r)

\* No change of the record is left unsaved: the newest snapshot is always
\* the record, in whatever order handlers, switches, ticks and restarts run.
NewestSnapshotIsCurrent ==
    /\ kept # {} => kept = {rec}
    /\ kept = {} /\ writing # {} => writing = {rec}
    /\ kept = {} /\ writing = {} => disk = rec

\* At most one command of a kind waits for acknowledgement, and no id is
\* used twice (OnePendingPerKind), in every copy of the queue, whichever of
\* the check-ins, the minute tick, the switches and restarts create them.
OneCommandPerKind == \A r \in Copies : OnePendingPerKind(r)

\* When the Hub takes the desired configuration for applied, the display is
\* really running it: reports of older values, delayed or repeated, and
\* revisions lost in a restart are not mistaken for it.
AppliedMeansActive ==
    rec.applied_revision = rec.desired_revision =>
      /\ device.applied
      /\ device.revision = rec.desired_revision
      /\ device.values = rec.desired

\* PROTOCOL.md, "desired configuration with its monotonically increasing
\* revision": a response that reaches the display never takes it back to an
\* older revision, nor gives the revision it has other values.
RevisionsIncrease ==
    \A response \in inbox :
      /\ response.revision >= device.revision
      /\ response.revision = device.revision =>
           response.values = device.values

\* A request is processed at most once, however often the network delivers
\* it and whenever Home Assistant restarts: the nonce of a request about to
\* be processed is on the disk, is new, and no other handler holds it.
NonceProcessedOnce ==
    \A h \in Handlers : call[h].pc = "nonce_save" =>
      /\ Resumes(h) => call[h].request.nonce \in Remembered(disk)
      /\ call[h].request.nonce \notin processed
      /\ \A g \in Handlers \ {h} :
           call[g].request.nonce # call[h].request.nonce

\* PROTOCOL.md, "One-time commands remain in private storage and are
\* returned again until firmware reports their IDs": a command the display
\* has received stays on the disk until the display acknowledges it, so a
\* restart at any point does not lose it.
CommandKeptUntilAcknowledged ==
    LET received == device.accepted \cup
                      UNION {Ids(response.commands) : response \in inbox}
        acknowledged == UNION {request.acks : request \in sent}
    IN  received \ acknowledged \subseteq Ids(disk.pending_commands)

\* Once a response has confirmed the acknowledgement of a command the display
\* may forget its id: the Hub never sends that command again, not even after
\* a restart or through a request it served late.
ForgottenCommandNeverReturns ==
    \A response \in inbox :
      Ids(response.commands) \cap (device.forgotten \cup device.acks) = {}

\* PROTOCOL.md, "at most one command for each local calendar day": of the
\* automatic commands created on a day at most one reaches the display.  This
\* is for a time zone that stays: a local date that comes again gets another.
OneAutomaticPerDay ==
    LET received == device.accepted \cup device.forgotten \cup
                      UNION {Ids(response.commands) : response \in inbox}
    IN  \A a, b \in automatic :
          a.day = b.day /\ {a.id, b.id} \subseteq received => a = b

\* Every check-in that was begun ends, with an answer or a restart, though
\* its saves wait for those of others and may be written by them: no handler
\* waits for ever behind the lock of the store, however often the record is
\* saved meanwhile.  (Where MaxCommands leaves no number for an automatic
\* command that is due, the model stops: the run keeps automatic OTA off.)
EveryCheckInEnds == \A h \in Handlers : call[h].pc # "idle" ~> call[h].pc = "idle"

\* The reconfigure flow stores the content it saved the record for: it does
\* not wait for ever behind the lock either.
ReconfigureEnds == flow.pc # "idle" ~> flow.pc = "idle"

\* PROTOCOL.md, "The response-level revision identifies the desired
\* configuration used by the calculation", and test_models.py, "Display
\* content uses the same delivered revision contract as config values": the
\* plan of a response goes with the values of its revision, and the response
\* that takes the display to the newest revision carries the content chosen
\* with it.
ResponseIsOfOneRevision ==
    \A response \in inbox :
      /\ response.plan = <<>> <=> response.values.suspend_display_refresh
      /\ response.revision = rec.desired_revision =>
           response.content = chosen
=============================================================================
