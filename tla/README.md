# E-paper Display Hub: models, checks and proofs

A verification development of the Home Assistant integration in
`custom_components/coolajz_epaper_display_hub`. Paths below are relative to that
directory unless they start with `docs/` or `tests/`.

## The system

Battery-powered displays sleep most of the time. On every wake a display sends one
signed check-in and gets one signed response with everything it needs: the desired
configuration and its revision, the content to show, one-time commands and the time
to wake next. All durable state of a display is one `DeviceRecord`; the Hub keeps all
records in one storage file that it rewrites as a whole.

| Component | State | Operations | Interacts with |
|---|---|---|---|
| Device record (`models.py`) | revisions desired / delivered / applied / reported, desired values, wake schedule, pending commands, OTA settings, nonces | one method per change | everything below |
| Check-in (`webhook.py`, `coordinator.py`) | local variables across three awaits | `CheckinView.post`, `async_process_checkin` | record, store, content of the subentry, display |
| Store (`store.py`) | `devices`, `revoked_devices`, the file | load, save, revoke, activate, clear | Home Assistant's `Store` and its lock |
| Switches and numbers (`switch.py`, `number.py`) | none | turn on, turn off, set | record, store |
| Reconfigure flow (`config_flow.py`) | the subentry of the display | `async_step_reconfigure` | record, store, subentry |
| Automatic OTA (`models.py`, `coordinator.py`) | date of the last automatic command | evaluated by check-in, minute tick, flow and setup | record, local time |
| Replay protection (`security.py`) | last 64 nonces, clock | `validate_freshness`, `remember_nonce` | check-in, record |
| Time synchronisation (`webhook.py`) | rate limiter | `TimeSyncView.post` | record (key and nonces) |
| Pairing (`pairing.py`, `config_flow.py`) | cached credentials of the flow | device info, pair, proof | display, store, subentries |
| Lifecycle (`__init__.py`) | runtime, set of subentries | setup, unload, reload, remove a display, remove the Hub | store, subentries |
| Wake scheduling (`scheduling.py`) | none | `next_wake`, `suspended_refresh_next_wake` | check-in, availability |
| Availability (`coordinator.py`) | the planned wake | `is_device_available` | check-in, clock |
| Entities (`sensor.py`, `switch.py`, `number.py`) | the optional sensors and weather switches added so far | listeners of the coordinator | record, subentries, every caller of `async_update_listeners` |

What makes it hard:

* **Interleaving on one event loop.** A handler is atomic only between two awaits. A
  check-in awaits up to three saves, the reconfigure flow up to two; in between any
  other handler may change the same record.
* **Durability.** A save hands a snapshot to Home Assistant's `Store`. Overlapping
  callers share writes; a stop of Home Assistant loses what is not on the disk.
* **An unreliable display.** Requests and responses are lost, delayed and repeated;
  a display gives up on a request and sends the next while the Hub still serves the
  first.
* **Time.** Local dates repeat or are skipped when the time zone changes, local hours
  when its offset does; displays wake early and late.
* **Shared listeners.** One entity that raises stops the listeners after it, and the
  caller of `async_update_listeners`, which may be the check-in of another display.

What each component must guarantee is listed with its hazards in `PROJECT.json`.

## Modules

| Module | Content |
|---|---|
| `DeviceRecord` | `class DeviceRecord` and the nonce history, one pure operator per method |
| `CheckIn` | one display and the Hub: store, handlers, switches, reconfigure flow, automatic OTA, restart, network, display; its properties |
| `Lifecycle` | several displays coming and going: pairing, removal, reload, removal of the Hub, restart; stores of several runtimes on one file |
| `CommandQueue`, `RevisionRegister` | abstract specifications: what a display may rely on about one-time commands and about its configuration |
| `CheckInRefinement` | `CheckIn` implements both: the mappings and the two properties |
| `Scheduling` | `scheduling.py`: the next wake as a function of instant, zone, schedule and correction |
| `WakePlan` | a display that sleeps as it is told, the plan in memory and on the disk, availability; built on `Scheduling` |
| `ReplayGuard` | nonce history, age of check-ins, time synchronisation and its rate limiter |
| `Entities` | several displays: optional sensors and weather switches kept in step by the coordinator's listeners |
| `MCCheckIn`, `MCLifecycle`, `MCWakePlan`, `MCReplayGuard`, `MCEntities` | values and symmetry for TLC |
| `CheckInProofs` | lemmas about `DeviceRecord`: what every method does to the type, the consistency and the configuration of a record; type correctness of `CheckIn` and the invariant of its store |
| `RevisionProofs` | what the display may rely on about revisions; `CheckIn` implements `RevisionRegister` |
| `CommandProofs` | what it may rely on about one-time commands; `CheckIn` implements `CommandQueue`; one automatic command a day |
| `NonceProofs` | a request is processed once while the history has room |
| `ReplayGuardProofs` | what happens when the history turns over; the limiter |
| `WakePlanProofs` | lemmas about `Scheduling`, and the properties of `WakePlan` |
| `LifecycleProofs` | type correctness of `Lifecycle`; which keys are active, who is served, and with which terms a display of one key works |
| `PairingProofs` | with which terms a display of any number of keys works; the copies of the store agree about its key |

### How `CheckIn` corresponds to the code

`rec` is `HubStore.devices[id]`, `disk` the record in the storage file. `Save(r, S)`
is the change of the record to `r` with the `async_save` that follows it; `S` is the
caller with something left to do afterwards (a handler or the flow), nobody for the
switches and the minute tick, which only update entity states.

One check-in is a chain of actions, one per stretch between awaits:

| Action | Code |
|---|---|
| `Authenticate` | `webhook.py:68-99`: look up, `validate_freshness`, `remember_nonce`, first save |
| `Process` | `webhook.py:109`, `coordinator.py:158-210`: report, plan, acknowledgements, automatic OTA, commands, second save |
| `Prepare` | `coordinator.py:211-227`, `webhook.py:116-141`: the response, the marks; third save if a mark changed something |
| `Return` | `webhook.py:142` |

A handler that stands at `nonce_save`, `checkin_save` or `delivery_save` waits in
that await. What the code reads before an await and uses after it is in the draft of
the response: the content selection, the plan and the commands are fixed in `Process`,
the revision and the values are read in `Prepare`.

`SetDesired`, `SetAutomaticOta`, `TurnOnManualOta` and `TurnOnWifiFullScan` are the
branches of `switch.py:106-150`. `Reconfigure`, `ScheduleAfterReconfigure` and
`FinishReconfigure` are the stretches of `config_flow.py:458-512`. `MinuteTick` is
`__init__.py:90-92`. `Restart` is a stop of Home Assistant at any point followed by
`async_setup_entry`. An operation that would change nothing saves nothing and is no
step.

### How `Lifecycle` corresponds to the code

`CheckIn` is one record in depth; `Lifecycle` is the set of records in breadth. A
record is reduced to its key, and the key to the flow that drew it (`config_flow.py:404`
draws it once and keeps it, with the transaction, for every attempt of the flow).

| State | Code |
|---|---|
| `stores[i]` | the `HubStore` of runtime `i`: `devices` and `revoked_devices` |
| `unsaved[i]`, `wait`, `disk` | the data its `Store` has still to write, the callers of `async_save`, the file |
| `entries`, `kept` | the subentries, in memory and in Home Assistant's own file |
| `hub` | the runtime in `entry.runtime_data`, how far a setup is, reloads asked for; `unseen` is bookkeeping of the model |
| `flow`, `handler`, `removing` | pairing flows, check-ins and removals, at the await they stand at |
| `display`, `wire`, `replies`, `committed` | what the displays stored, pairing requests and acknowledgements on their way, every key a display ever stored |

* **Pairing.** `SubmitForm` and `DeviceInfo` are `async_step_user` up to the request;
  `Confirm` is the proof that fits and `activate_device` with its save; `CreateEntry`
  is the subentry, once the save is done (`async_create_entry` follows the await at once);
  meanwhile no other flow reaches a display that has just begun to listen anew, because its
  user must first type the fresh PIN (`Ending`). `Fail` is every `ProtocolError` on the way and
  the missing `entry.runtime_data` during a setup: the form again, with the same key.
* **Check-in.** `Accept`, `SaveAgain`, `Answer`: the three saves of `CheckinView.post`, all
  to the store the handler took at its start (`webhook.py:70`). `AnswerUnpair` is the
  answer to a revoked display.
* **Removal.** `RemoveDevice` and `FinishRemoval` are `async_remove_config_entry_device`
  before and after its save; `DeleteSubentry` is the subentry deleted directly.
* **Reload.** A changed set of subentries calls `_async_reload_entry` (`SetEntry` counts
  it); `Unload`, `ReadDisk`, `SetUp`, `Install` are the stretches of unload and
  `async_setup_entry`. What began before keeps its old store. `RemoveHub` and
  `FinishRemoveHub` are `async_remove_entry`, which clears the file through a third store.

Home Assistant orders the writes of one `Store`, never those of two: `Write` takes the
runtimes in any order. A request that a display has not yet handled may be handled any
time later, also after the flow gave up, and one flow may have requests at two displays. A
display that is unpaired listens again with a fresh PIN, so that requests sent before
are refused (`Unpair`). A reload that Home Assistant would skip, because the set of
subentries is back to what the runtime knows, is still counted: more behaviours, not
fewer. Not modelled: addresses that move from one display to another between the two
requests of a pairing, and a stop while the Hub is being removed.

### What `CheckIn` implements

`CommandQueue` has the commands that survive a restart, those the display holds, those
it has acknowledged and those it may forget. A command leaves the storage only once it
was acknowledged and for good, and the acknowledgement is confirmed only once it has
left. The refinement maps the storage to the commands *on the disk*, not in memory: the
handlers, the lock and the restarts are all hidden behind one abstract write.

`RevisionRegister` is a register with one writer and one reader. A crash may take the
register back, but never behind its reader, and the reader only moves forward. The
mapping takes the desired revision and values in memory, and what the display has.

### How `Scheduling` and `WakePlan` correspond to the code

A loop of `next_wake` that steps from minute to minute and breaks is the first minute that
satisfies its condition. Instants are seconds, boundaries minutes of the UTC timeline; a
zone has one transition, which skips or repeats local time. `WakePlan` takes time from
event to event: `Wake` (with a drift), `Process` (`coordinator.py:160-180`), `Write`,
`Answer` (with a latency, and the display sleeps from then on). `Fail` and `Restart` make
the firmware sleep its 300 seconds. `SetSuspended`, `SetSuspendedInterval` and
`Reconfigure` change the settings at any time. A loaded record is normalised
(`FromStorage`), and the file may hold a damaged schedule. `DriftAssumption` says what the
display must keep to: no wake further than half of the shortest cycle from its boundary,
nor later than the tolerance of `is_device_available`.

### How `ReplayGuard` corresponds to the code

| Action | Code |
|---|---|
| `Arrive` | the handler takes the runtime (`webhook.py:70`, `170`) and awaits the body |
| `CheckIn`, `TimeSync` | from there to the await of the save: the nonce unknown, fresh or admitted by the limiter, and remembered |
| `DenyTimeSync` | the answer 429 |
| `Write` | the store of one runtime is written, for all that wait for it |
| `Answer`, `Leave` | the response after the save; a rejected request, or a check-in that a listener ends with an error |
| `SaveOther` | any other save of a store that a caller took before: an entity, a flow, the tick, another display |
| `Reload` | unload and `async_setup_entry` while Home Assistant runs (`__init__.py:66-88`, `107-121`) |
| `Restart` | Home Assistant stops and starts |

A new runtime has a store with the history of the file and an empty limiter
(`__init__.py:84`). A restart ends all handlers. A reload ends none: each goes on with the
runtime it took, accepts by the history of that runtime's store, writes it over the file and
answers. Requests are kept for ever and may be taken again. `Reload` is the moment in which
the file is read; between it and `hass.data` the code answers 503, where the model already
serves with the new runtime: more behaviours, not fewer.

### How `Entities` corresponds to the code

`UpdateListeners` is `async_update_listeners`: `SyncWeatherSwitches` (`switch.py:200`),
`AddNewOptional` (`sensor.py:213`) and the entities' states, in any order. `Raises` is
`native_value` of a number whose record is gone (`number.py:38`, `67`): the listeners that
come later are not called, and the caller ends with the exception. Callers are
`MinuteTick`, `EditContent` (`__init__.py:118-119`) and `Process` (`coordinator.py:207`).
`RemoveDevice` and `FinishRemoval` are `async_remove_config_entry_device` before and after
its save; `Pair`, `DeleteSubentry` and `FinishRemoval` change the set of subentries and end
with a reload.

### Home Assistant's Store

This is how `CheckIn` has it; `Lifecycle` keeps of it that a caller waits until the
newest data of its store is written.

`Store.async_save` is not part of this repository. It keeps the data it is given,
takes an asyncio lock, writes the newest data kept (if any is left) in an executor and
releases the lock. The models follow it closely, because the guarantees depend on it:

* `writing` is the snapshot in the executor, `kept` the newest one behind it;
* a caller waits for the lock (`"lock"`), for its own write (`"write"`), and then runs
  on with the lock in its hand (`"resume"`): no other waiting handler runs during a
  write;
* a caller that gets the lock and finds nothing kept returns at once: its data was
  written by another.

asyncio wakes the waiters in order; the model lets any of them go first, which allows
more behaviours. Writes that fail are not modelled.

### The display and the network

`sent` keeps every request for ever and a handler may take any of them at any time:
requests are lost (never taken), delayed and repeated. A response reaches the display
only while it waits for it (`inbox`), or is lost. `GiveUp` is the timeout of the
firmware. The firmware is not in this repository: that it reports the configuration it
has, acknowledges a subset of the commands it carried out, and forgets an id once a
response confirms its acknowledgement follows `docs/PROTOCOL.md`. It applies a
configuration completely or not at all, and does not un-apply the one it has.

### Abstractions

* Of the desired values two keys are kept: `suspend_display_refresh`, which selects the
  way the wake is planned, and one key that only travels.
* The wake schedule and the content are model values; the plan of the next wake is the
  schedule it was computed from, or empty while refresh is suspended.
* The pending queue is a set; the order matters only for a response cut to 16 items,
  which `DeliverableCommands` leaves open.
* Signature, payload validation and, in `CheckIn`, the time window only reject: a
  rejected request changes nothing.
* `CheckIn` restarts but does not reload: what it says of durability is for handlers that
  work with one store. `Lifecycle` has reloads for keys, `ReplayGuard` for nonces.
* `CheckIn!Process` leaves out that a listener may raise at `coordinator.py:207`, so that the
  second save never comes; that is the subject of `Entities`, which in turn has the call of
  the listeners there and not the second one of a check-in (`webhook.py:141`). Nor has
  `Entities` a crash, and so no display that is configured and revoked for good (hazard of
  `__init__.py:151`), whose number entities would raise at every update: what it says of
  listeners that are called later is for displays with a record.
* `Lifecycle!Accept` takes the runtime and looks up the record in one step; the await of the
  body between them (`webhook.py:74`) is in `ReplayGuard` (`Arrive`).
* `WakePlan`, `ReplayGuard` and `Entities` write the store in one step: its lock is the
  subject of `CheckIn`, its several instances of `Lifecycle`.

## Properties and runs

| Run | Instance | Properties |
|---|---|---|
| `check_in_configuration` | 2 handlers, 2 contents, 2 revisions, 3 requests, 2 days, 1 time zone move, 1 restart | `RevisionOrder`, `RevisionsIncrease`, `AppliedMeansActive`, `NonceProcessedOnce`, `NewestSnapshotIsCurrent`, `ImplementsRegister` |
| `check_in_commands` | 2 handlers, 1 command, 3 requests, 2 local times, 1 restart | `TypeOK`, `CommandKeptUntilAcknowledged`, `ForgottenCommandNeverReturns`, `ImplementsQueue` |
| `check_in_automatic` | 1 handler, 2 commands, 2 requests, 2 days, 2 check times, 1 restart | `OneAutomaticPerDay`, `OneCommandPerKind` |
| `check_in_live` | 2 handlers, 2 OTA check times the flow may set again and again, 2 requests, 1 restart | `EveryCheckInEnds`, `ReconfigureEnds` |
| `lifecycle_pairing` | 1 display, 2 flows, 2 terms, 1 check-in, 3 runtimes, 1 restart, 1 reset by hand, 1 removal or reload by the user | `TermsAgree`, `OneActiveKey`, `OnlyKeyAgrees`, `ActiveKeyWasStored` |
| `lifecycle_removal` | 2 displays, 2 flows, 1 check-in, 3 runtimes, 1 removal or reload by the user | `TypeOK`, `RemovedIsNotServed` |
| `wake_plan` | 5 zones, 3 schedules (one damaged), corrections of 60 seconds to either side, drift of -110 and 50 seconds, 1 change, 1 failure or restart | `HalfOfTheRealCycle`, `NoSecondRefresh`, `AvailableUntilItWakes`, `BoundariesInOrder` |
| `replay_guard` | 2 handlers, history of 1, limit of 2, 2 requests accepted up to 3 times, 2 restarts or reloads | `AcceptedOncePerHistory`, `LimiterIsExact`, `LimitOfEachLimiter` |
| `entities` | 2 displays, 1 optional sensor, no bounds | `WeatherSwitchFollows`, `ReportedSensorAppears` |

What they show, for these instances: whatever the interleaving, a revision that has
left the Hub is never taken back or given other values; the Hub believes a
configuration active only if the display runs it; a nonce is spent once; a command
survives until it is acknowledged and is gone for good once the acknowledgement was
confirmed; the automatic OTA creates one command a day; nothing is left unsaved. "One command a
day" is meant for a time zone that stays: if it is changed so that the local date goes back
and comes again, the equality in `models.py:429` gives the date a second command.

What the display sees is a queue that keeps a command until it is acknowledged and never
returns it after the confirmation, and a register that never goes back. Nobody waits for ever behind the
lock. That a command arrives in the end is not claimed: it depends on the display and the
network, for which the code justifies no fairness.

Of the lifecycle: a key is active only if the display has stored it. Once everything has
come to rest, a removed display is not served, however late a check-in saved the store
of an old runtime, unless its subentry went in the one window described below. A display
works with the terms its subentry shows, although a retry proposed others, a reload revoked
the key of a pairing that was not finished, or the user removed the display and paired it
again. Two executions are excepted, and TLC shows both. A display that is reset by hand
while its first flow still ends may be paired by a second flow, and get the subentry of the
first. And the subentries are saved some time after they changed: if Home Assistant crashes
before it saved a removal, the display, paired again since, has its old subentry back. While
the user orders nothing at all, memory, disk and everything on its way there agree about the
key of a display, so that no crash or reload can bring another back.

Of the wake plan: a check-in in the first half of a cycle keeps its boundary and one in
the second half takes the next, where the cycle is the real distance of two boundaries,
across hours of different intervals and skipped and repeated local time. A display that
keeps to its plan gets every boundary once, in order, however it drifts. Until it
wakes it is shown as available, also after a restart, because the response leaves after
the save. 

Of the replay guard: a request that was answered is accepted again only after as many others
as the history holds, through restarts and reloads. Two kinds of requests are excepted, both
of a reload, and TLC violates the property at once without either exception. A request may
have its nonce not yet in the file when the new runtime reads it; its handler is answered all
the same, and the new runtime accepts the request again. And while a handler of an older
runtime is under way, two histories exist: what one runtime accepts the other does not know,
and whoever writes last decides what a later start reads (`exposed` records both). With 64 nonces, a display that checks in every 5
minutes turns the history over in less than the 24 hours a check-in stays fresh, so
an old check-in can be processed a second time then. Each limiter decides by its
short list as it would by the list of everything it admitted, and keeps its limit; the limiter
of the next runtime knows nothing of it, which is a finding. Of the entities: whatever a
listener that raises leaves undone is done by a later tick.

Three runs show the code doing what its documents and tests deny (`findings` in
`PROJECT.json`):

| Run | What happens |
|---|---|
| `check_in_response` | the suspend switch is turned during the second save: the response has the new revision, but a wake planned from the old configuration. In the same way a check-in between the reconfigure flow's save and its update of the subentry takes the new revision with the old content, and nothing announces the content later |
| `entities_independent` | while the removal of a display awaits its save, its number entities raise (`number.py:38`), and the check-in of another display fails with its nonce spent |
| `replay_guard_limit` | a display uses up its limit of time synchronisations, a reload or a restart gives it a new and empty limiter (`__init__.py:84`), and one more is admitted in the same minute, where `docs/PROTOCOL.md:259` promises six in a rolling minute |

Four more consequences of the code are left out of the invariants of `Lifecycle` on
purpose; they are known, and no run is spent on them. A subentry deleted while a setup
saves the revocation of another display is noticed by nobody, so that the display is
served until the next setup (the exception `hub.unseen` in `RemovedIsNotServed`). A pairing
that is retried in the same flow with the address of another display gives both the one
key of the flow (`config_flow.py:404`). When two displays are paired at once, the reload
after the first revokes the key of the second, which is then shown without a key
(`config_flow.py:441`). A save that waits while the Hub is removed is written after the
file was cleared (`store.py:63`).

### Bounds

`MaxRevision`, `MaxCommands`, `MaxRequests`, `MaxDay`, `MaxRestarts` and
`MaxTimezoneMoves` bound the counters and appear only in guards. Two revisions are
enough to go back or to be mixed up; three requests to have one late, one confirming
and one in which a command could return (two, of two handlers, to wait for each other); one
restart, at any point, to lose whatever is not durable; two days to have a date end. A second
schedule, which raises the revision as a second content does, is in `check_in_response` only. The nonce history holds 4 nonces and at most
3 are ever sent, so nothing is forgotten: what happens when the history turns over is the
subject of `ReplayGuard`. The mutants in the modules (each named in a comment "Mutant of") break
every property within the same bounds.

In `Lifecycle`, `MaxRuntimes`, `MaxRestarts`, `MaxOrders` and `MaxResets` are the
bounds. Three runtimes between two starts are enough for a save of the oldest to fall
between a reading and a writing of the newest, or after a removal of the Hub; two flows
for a second key of one display, and two displays for a key that reaches both or a reload
that one causes to the other; two terms for a retry that proposes others; one order, restart
and reset, at any point, for a display to be paired a second time. The runs of
`Lifecycle` do not check for deadlock: flows end, the bounds are used up, and the system
has nothing left to do.

The switch for automatic OTA is frozen where the bounds leave no automatic command to
create (`MaxCommands = 0`, or a single day, as enabling skips the current one): it has no
effect there. In `check_in_automatic` a state constraint (`EditedBeforeCheckIns`) lets the
reconfigure flow run only before the display's first check-in, to set the check time that
falls due; flow and check-ins interleave in `check_in_configuration`.

In `WakePlan` a display wakes from `Start` on, 22:05 UTC, until `Horizon`, 00:10: each
zone's transition and three hours of different intervals lie in between, and the
lookahead of the schedule goes further. `MaxChanges` and `MaxFailures` bound the changes
of the user and the failures. In `ReplayGuard` a history of one nonce turns over
with the second accepted request, and a third shows whether the first comes again
(`MaxAccepted`, of `MaxRequests` sent); a limit of two leaves an admission at the edge of the
window, and `MaxTime` passes both windows. With two runtimes after the first (`MaxStarts`) a
handler can overwrite the file of a runtime that a third then reads. Both
runs end when the bounds are used up and do not check for deadlock. `Entities` has no bound but the displays and their sensors.

### Fairness

`CheckIn!LiveSpec`: a write in the executor ends, and the lock is passed on (weak
fairness). An `asyncio.Lock` wakes its waiters in order, so each has the lock in the end,
however many saves follow; the model lets any waiter go first, and makes up for it with
strong fairness for each caller: of getting the lock, and of going on when its save is
done. Weak fairness is not enough, because a flow that saves again and again could
overtake a check-in for ever; TLC shows that. Nothing makes users, the network, the
display or a restart act. In the run for it automatic OTA is off, as the bound on
commands would stop the Hub where it must create one.

`Entities!LiveSpec`: the minute tick comes again and again, which is
`async_track_time_interval`, and the save of a removal ends.

The other runs check safety, refinement and action properties only. In `CheckIn`,
`MinuteTick` is always possible, as in the Hub, so no state is a deadlock.

## Proofs

For every value of the constants, without the bounds of the runs:

| Theorem | States |
|---|---|
| **`CheckIn`** | |
| `TypeCorrect` | `Spec => []TypeOK` |
| `RevisionsStayOrdered` | `Spec => []RevisionOrder` |
| `NoChangeIsLeftUnsaved` | `Spec => []NewestSnapshotIsCurrent` |
| `CommandsStayUnique` | `Spec => []OneCommandPerKind` |
| `DisplayNeverGoesBack` | `Spec => []RevisionsIncrease` |
| `AppliedIsActive` | `Spec => []AppliedMeansActive` |
| `CheckInImplementsRegister` | `Spec => ImplementsRegister` |
| `CommandsAreKept` | `Spec => []CommandKeptUntilAcknowledged` |
| `ForgottenIsForgotten` | `Spec => []ForgottenCommandNeverReturns` |
| `CheckInImplementsQueue` | `Spec => ImplementsQueue` |
| `OneAutomaticADay` | `Spec => [](moves = 0 => OneAutomaticPerDay)` |
| `ProcessedOnce` | `Spec => [](HistoryHasRoom => NonceProcessedOnce)` |
| **`ReplayGuard`** | |
| `AcceptedOnce` | `Spec => []AcceptedOncePerHistory` |
| `LimiterDecidesExactly` | `Spec => []LimiterIsExact` |
| `EachLimiterKeepsItsLimit` | `Spec => []LimitOfEachLimiter` |
| **`WakePlan`** | |
| `HalfOfEveryCycle` | `Spec => []HalfOfTheRealCycle` |
| `NoRefreshTwice` | `Spec => []NoSecondRefresh` |
| `StaysAvailable` | `Spec => []AvailableUntilItWakes` |
| `EveryBoundaryInOrder` | `Spec => BoundariesInOrder` |
| **`Lifecycle`** | |
| `TypeCorrect` | `Spec => []TypeOK` |
| `KeysWereStored` | `Spec => []ActiveKeyWasStored` |
| `RemovedAreNotServed` | `Spec => []RemovedIsNotServed` |
| `SubentryShowsTerms` | `Spec => []OnlyKeyAgrees` |
| `SubentryShowsEveryKey` | `Spec => []TermsAgree` |
| `CopiesAgree` | `Spec => []OneActiveKey` |

Two theorems have a condition, which the run of the property meets in every state.
`moves = 0`: the time zone has not been changed yet; a local date that comes again does
get a second command. `HistoryHasRoom`: the display has sent no more requests than the
history holds; beyond that a nonce is dropped and an old request can be processed again,
and `AcceptedOnce` says when.

Assumptions, all stated in the modules and evaluated by TLC:

* a history, a response and a limit of at least one item, `DefaultSchedule \in Schedules`,
  `InitialContent \in Contents`, times, bounds and the rate window are numbers, the flow
  is not a handler; `None` is no display, flow or terms, and displays, flows, handlers and
  the setup are different callers;
* of the display and the network (`DriftAssumption`): latency and drift together stay
  within the tolerance of 120 seconds, and with the correction below 150 seconds, half of
  the shortest cycle. A display that drifts further may be shown as unavailable or be given
  a boundary twice, and nothing in the Hub can prevent that;
* of time zones (`ZoneAssumption`): offsets are multiples of five minutes. Those in use
  today are multiples of fifteen. With other offsets (local mean times of the past) a
  boundary of an hour could follow the previous one by less than five minutes.

### `CheckIn`

`TypeCorrect` is by one case per action over the typing lemmas about
`DeviceRecord`, which come first in `CheckInProofs`. The next three share an inductive invariant, `StoreInv`: every
copy of the record (memory, on its way, disk) is `Consistent`, and the newest copy is
the record. Neither part is inductive alone. A restart runs `from_dict`, which clamps
the revisions; only because those on the disk are ordered does it return what was
stored, so that the record in memory is again the newest copy. And uniqueness of the
command ids needs that every id in a copy was drawn before.

`DisplayNeverGoesBack` and `AppliedIsActive` (`RevisionProofs`) need a larger
invariant, `RevisionInv`:

* `LockInv`: one caller has the lock, and none runs on during a write;
* `ChainInv`: the disk, the snapshot being written and the record extend each other
  in this order (a newer revision, or the same with the same values);
* `DeliveredInv`: when a caller runs on, the revision marked as delivered is on the
  disk; this is the point of the argument, because `Prepare` returns at once, without
  a save, when the mark is already there;
* `ResponseInv`: what the display has, and every response on its way or about to be
  returned, is on the disk, and a response the display still waits for is not older
  than what it has;
* `NonceInv` and `ReportInv`: a response answers the request its handler took, and no
  report, however late, tells of more than the display has;
* `ActiveInv`: `AppliedMeansActive` for every copy of the record, which a restart needs.

Each action is first reduced to its effect on the store (`StoreStep`) and on the
check-ins and the display (`CallStep`); every part of the invariant is then shown to
be kept by these few kinds of steps.

`CheckInImplementsRegister` uses `RevisionInv` as it is. A step that is
no restart keeps the configuration of the record or draws the next revision for it
(`ConfigurationSteps`): a stutter or a write of the register. A response is a read, because
it is not older than what the display has (`ResponseInv`). A restart takes the record back
to the disk: by `ChainInv` that is the same configuration or an older revision, and by
`ResponseInv` never one behind the display, so it is a stutter or a loss.

`CommandProofs` rests on how one copy of the queue may differ from an older one
(`Follows`): it lacks only what the display has acknowledged, and has more only of what the
display has never seen. Along the chain disk, snapshot, record this is kept by every step
that changes the queue (`Requeued`), and a restart, which makes the disk the record,
cannot break it. The other parts of `QueueInv` say that what the display can have
received and has not acknowledged is on the disk (the response leaves after the save),
that nothing it may forget is in any copy, and that the record, then the write a handler
waits for, and at the end the disk back its draft (`Backs`): they still have the commands
of the draft that are not acknowledged, and lack what the response will confirm. `QueueInv`
is also what maps each step to one of `CommandQueue`.

`OneAutomaticADay` compares dates (`DateInv`): an automatic command in a copy is no newer
than the date of that copy, one the display has seen no newer than the date on the disk,
and the dates of the copies lie between those of disk and record. A new command is created
only on a day later than the record's date, so none of that day is in a copy or was seen.
A restart may lose a command together with its date, and then creates another one for the
day; that is why the theorem speaks of what can reach the display.

`ProcessedOnce`: while there is room nothing is dropped (`Recorded`, by counting), each copy
includes the one before it in the same chain, and the disk has everything that was
processed (`HistoryInv`), so no restart accepts it again. A nonce in the hands of a handler
is in the record, and on the disk once its save is done, and no other handler has it
(`TakenInv`).

### `ReplayGuard`

A history keeps an accepted request (`Kept`) if it has its nonce, no deeper than there were
requests accepted since, or there were as many as the history holds. A runtime is `Live` if
it is the current one or a handler still works with it. The invariant (`KeptInv`), for each
accepted request that no reload could lose (it is not in `exposed`): every live runtime keeps
it while it is executed or once it was answered, and so does the file once it is saved or
answered. All live runtimes are needed, because any of them may accept the request again,
and any may write its history over the file. A request that is accepted while several
runtimes are live enters one history only, and is exposed. One that is accepted by the only
live runtime is kept by it; at a reload either it is in the file that the new runtime reads,
or it is exposed. A restart, which takes the history from the file, ends everything that is
executed (`ExecutedInv`); what is left was answered, and is in the file.

The list of each limiter is that of everything it admitted, without its first items, which are
old (`LimiterInv`). The clock never goes back, so they stay old, and the young items are the
same in both lists. An admission with fewer young items than the limit has the item that many
places before it out of the window. This is for every
runtime on its own; `RollingLimit`, of all runtimes together, is violated.

### `WakePlan`

The lemmas about `Scheduling` come first. The code searches minute by minute for the next
boundary; that there is one to find within the lookahead, across any transition, is
`BoundaryAhead`, and that it is the first is the least-element principle (`LeastNumber`,
from the well-founded order of the numbers, as induction over an operator is not
available). From there: the previous boundary is the last one before an instant
(`PreviousIsLast`), the planned boundary obeys the rule of the halves (`HalfCycle`), it is
more than 150 seconds away (`ScheduledIsFar`, which with a correction of up to 60 leaves
more than 90), and an instant that is nearer than half of the shortest cycle to a boundary
gets the one that follows it (`NearBoundary`).

The invariant adds to the types that every plan on its way to the display or in it is
`Sound`, that record and, once saved, disk expect the wake it tells (`ExchangeInv`), and
that a sleeping display wakes then but for the latency of its response (`DeviceInv`).
Changed settings leave the planned wake alone and a restart takes it from the disk, where it
is the same.

### `Lifecycle`

`KeysWereStored` needs two more facts than it states: an
acknowledgement on a connection comes from a display that stored the key
(`RepliesBacked`), which is what `Confirm` relies on, and the same holds for the data a
setup has read (`KeyInv`). Every other step only copies, revokes or clears keys. Type
correctness is strengthened by `Begun`: a flow, a check-in or a phase that has begun names
what it works with.

`RemovedAreNotServed` (`ServedInv`): every setup revokes what has no subentry, so that what
it is about to install serves configured displays only. While the Hub runs and no reload
is due, a key becomes active only in a flow that will add the subentry, and a subentry that
goes makes a reload due, except in the window that `hub.unseen` records.

`SubentryShowsTerms` (`OriginInv`): the terms a subentry has, or had when it was saved, are
those with which some flow was confirmed, and the display stored the key of that flow. It
works with these terms as long as it has that key (`Agreed`), and nothing that is still on
the way to it could bring the key with other terms.

`SubentryShowsEveryKey` (`PairingProofs`) asks for the same without the word "only". What
has to be excluded is that the subentry is of one flow and the key of another, and the
argument is that a display is never in the hands of two flows:

* `ShownInv` is the aim: as long as a display has a subentry it has no acknowledgement
  under way, no flow saves a key of it, nothing can reach it that it would store, and its
  key is of a flow that has ended and was confirmed with the terms of the subentry. So every
  further attempt is refused (`IsDuplicate`), and `Agreed` of `OriginInv` gives the terms.
* `BoundInv` leads there: the display of a flow that saves still has the key of this flow,
  and no other flow saves one of it; or it has been unpaired, and is sent nothing before
  the subentry is there.
* A display is unpaired only if it was revoked. `FreshInv` and `UsedInv` say that this
  cannot hit a key that is not saved yet: it is in the copies of one runtime alone, and
  active in each, since a setup reads only what was written. `UnpairInv` is the same of a
  check-in that carries the order to unpair.
* `KeptInv`: without orders, what Home Assistant saved of the subentries is never behind a
  removal, so that a crash brings none back. The condition of the property comes from here.

`CopiesAgree` needs that a key is active in a copy only while its flow saves it or with
the subentry it made (`ActiveInv`); then a second key cannot be confirmed while the first is
in any copy (`OneKeyInv`). A crash breaks `ActiveInv`, as the disk may have a key whose
subentry was never saved, and the first setup repairs it: until then nothing but the
setup touches the store (`StartInv`), so that all copies come from one file.

### Model-checked only

Every safety invariant and action property of the runs is proved. What is left:

* Liveness (`EveryCheckInEnds`, `ReconfigureEnds`, `WeatherSwitchFollows`,
  `ReportedSensorAppears`): fairness and ENABLED are out of the prover's reach. All that is
  checked of `Entities` is of this kind, or a finding.
* The three findings, which are counterexamples.

## Not modelled, and the plan

In this order:

1. Proofs: type correctness of `Entities`, of which only liveness is checked.
2. A reload while a check-in waits for its save, at the depth of `CheckIn`: two records
   and two stores on one file. `Lifecycle` has it for keys only.
3. **Lifecycle**, what is left: an abstract specification of pairing (both sides hold the
   same key or the Hub holds none) with `Lifecycle` shown to implement it, a stop while
   the Hub is removed, addresses that move.
4. Writes that fail.

Left out for good: the conversion of Home Assistant states to display text
(`normalize_state`, `normalize_progress`, `normalize_content`, and the flag
`show_weather` that is one of its inputs), the values sensors show, signatures and HTTP,
the form of the config flow, translations, pictures, scripts.
