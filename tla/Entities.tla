------------------------------ MODULE Entities ------------------------------
(***************************************************************************)
(* The entities of several displays, kept in step with what displays       *)
(* report and users configure by the listeners of one coordinator.         *)
(*                                                                         *)
(* A minute tick, a check-in, a switch and an edited subentry all call     *)
(* async_update_listeners: every entity writes its state, and two          *)
(* callbacks add the optional sensors and add or remove the weather        *)
(* switches.  Home Assistant calls the listeners one after the other, here *)
(* in any order; an exception of one stops the rest and reaches the        *)
(* caller.  EpaperPartialRefreshNumber and the other number read           *)
(* store.devices[id] and raise when the record is gone, as it is while the *)
(* removal of a display awaits its save.                                   *)
(*                                                                         *)
(* Setups are atomic here and check-ins that a reload overtakes have no    *)
(* further effect: both are the subject of Lifecycle.                      *)
(***************************************************************************)
EXTENDS Naturals

CONSTANTS Displays, Capabilities

VARIABLES
    content,           \* the subentry's selection: absent, plain or weather
    devices,           \* HubStore.devices
    seen,              \* capabilities_seen of their records
    saved,             \* devices and capabilities in the storage file
    removing,          \* displays whose removal awaits its save
    numbers,           \* displays that have number entities
    weather_switches,  \* the displays switch.py has added a switch for
    switches,          \* the weather switches there are
    added_optional,    \* the optional sensors sensor.py has added
    post               \* the check-in of each display

hub == <<content, devices, seen, saved, removing>>
entities == <<numbers, weather_switches, switches, added_optional>>
vars == <<hub, entities, post>>

Present == {d \in Displays : content[d] # "absent"}
Configured == {d \in Displays : content[d] = "weather"}

Init ==
    /\ content \in [Displays -> {"plain", "weather"}]
    /\ devices = Displays /\ seen = [d \in Displays |-> {}]
    /\ saved = [devices |-> devices, seen |-> seen]
    /\ removing = {}
    /\ numbers = Displays
    /\ weather_switches = Configured /\ switches = Configured
    /\ added_optional = seen
    /\ post = [d \in Displays |-> "idle"]

(***************************************************************************)
(* async_update_listeners.  These actions take the state that the caller   *)
(* has made: content', devices' and seen'.                                 *)
(***************************************************************************)
\* Mutant of SyncWeatherSwitches: a removed switch stays on the list.
SyncWithoutForgetting ==
    LET missing == Configured' \ weather_switches
        obsolete == (Present' \ Configured') \cap weather_switches
    IN  /\ weather_switches' = weather_switches \cup missing
        /\ switches' = (switches \ obsolete) \cup missing

\* _sync_weather_switches
SyncWeatherSwitches ==
    LET missing == Configured' \ weather_switches
        obsolete == (Present' \ Configured') \cap weather_switches
    IN  /\ weather_switches' = (weather_switches \ obsolete) \cup missing
        /\ switches' = (switches \ obsolete) \cup missing

\* Mutant of NewKeys: what one display has, another is not given.
NewKeysOfAll(d) ==
    IF d \in Present' \cap devices'
    THEN seen'[d] \ UNION {added_optional[e] : e \in Displays} ELSE {}

NewKeys(d) ==
    IF d \in Present' \cap devices' THEN seen'[d] \ added_optional[d] ELSE {}

\* _add_new_optional
AddNewOptional ==
    added_optional' = [d \in Displays |-> added_optional[d] \cup NewKeys(d)]

Raises == \E d \in numbers : d \notin devices'

\* Every listener is called, or those that come before the one that raises.
UpdateListeners ==
    /\ UNCHANGED numbers
    /\ \/ SyncWeatherSwitches
       \/ Raises /\ UNCHANGED <<weather_switches, switches>>
    /\ \/ AddNewOptional
       \/ Raises /\ UNCHANGED added_optional

(***************************************************************************)
(* async_setup_entry of the Hub and of its platforms: keys without a       *)
(* subentry are revoked, and the entities are added afresh.                *)
(***************************************************************************)
Reload ==
    /\ devices' = saved'.devices \cap Present'
    /\ seen' = saved'.seen
    /\ numbers' = Present'
    /\ weather_switches' = Configured' /\ switches' = Configured'
    /\ added_optional' = [d \in Displays |->
                            IF d \in devices' THEN seen'[d] ELSE {}]
    /\ post' = [d \in Displays |-> "idle"]

Memory == [devices |-> devices', seen |-> seen']

\* A display is paired: its record is saved and its subentry created.
Pair(d) ==
    /\ content[d] = "absent"
    /\ \E kind \in {"plain", "weather"} :
         content' = [content EXCEPT ![d] = kind]
    /\ saved' = [devices |-> devices \cup {d}, seen |-> [seen EXCEPT ![d] = {}]]
    /\ Reload
    /\ UNCHANGED removing

DeleteSubentry(d) ==
    /\ content[d] # "absent" /\ d \notin removing
    /\ content' = [content EXCEPT ![d] = "absent"]
    /\ UNCHANGED <<saved, removing>>
    /\ Reload

\* async_remove_config_entry_device: revoke, save, then the subentry.
RemoveDevice(d) ==
    /\ d \in Present \cap devices /\ d \notin removing
    /\ devices' = devices \ {d}
    /\ removing' = removing \cup {d}
    /\ UNCHANGED <<content, seen, saved, entities, post>>

FinishRemoval(d) ==
    /\ d \in removing
    /\ removing' = removing \ {d}
    /\ content' = [content EXCEPT ![d] = "absent"]
    /\ saved' = [saved EXCEPT !.devices = @ \ {d}]
    /\ Reload

\* Any other save of the store writes all of it.
Save ==
    /\ saved # [devices |-> devices, seen |-> seen]
    /\ saved' = [devices |-> devices, seen |-> seen]
    /\ UNCHANGED <<content, devices, seen, removing, entities, post>>

(***************************************************************************)
(* Callers of async_update_listeners.                                      *)
(***************************************************************************)
\* The tick stands for the switches and the numbers as well: what they
\* change no listener looks at.
MinuteTick ==
    /\ UNCHANGED hub
    /\ UpdateListeners
    /\ UNCHANGED post

\* _async_reload_entry after an edit that keeps the set of subentries.
EditContent(d) ==
    /\ content[d] # "absent"
    /\ \E kind \in {"plain", "weather"} \ {content[d]} :
         content' = [content EXCEPT ![d] = kind]
    /\ UNCHANGED <<devices, seen, saved, removing>>
    /\ UpdateListeners
    /\ UNCHANGED post

BeginCheckIn(d) ==
    /\ d \in devices /\ post[d] # "begun"
    /\ post' = [post EXCEPT ![d] = "begun"]
    /\ UNCHANGED <<hub, entities>>

\* remember_capabilities and async_set_updated_data; then the save, unless a
\* listener raised: the display is answered with an error.
Process(d, reported) ==
    /\ post[d] = "begun"
    /\ seen' = [seen EXCEPT ![d] = @ \cup reported]
    /\ UNCHANGED <<content, devices, removing>>
    /\ UpdateListeners
    /\ \/ /\ Raises
          /\ post' = [post EXCEPT ![d] = "failed"]
          /\ UNCHANGED saved
       \/ /\ ~Raises
          /\ post' = [post EXCEPT ![d] = "idle"]
          /\ saved' = Memory

Next ==
    \/ Save \/ MinuteTick
    \/ \E d \in Displays :
         \/ Pair(d) \/ DeleteSubentry(d) \/ RemoveDevice(d) \/ FinishRemoval(d)
         \/ EditContent(d) \/ BeginCheckIn(d)
         \/ \E reported \in SUBSET Capabilities : Process(d, reported)

\* The tick comes every minute, and a save ends.
Fairness ==
    /\ WF_vars(MinuteTick)
    /\ \A d \in Displays : WF_vars(FinishRemoval(d))

Spec == Init /\ [][Next]_vars

LiveSpec == Spec /\ Fairness

-----------------------------------------------------------------------------
(***************************************************************************)
(* Properties.                                                             *)
(***************************************************************************)
\* README.md, "When a weather entity is configured, the display exposes a
\* per-device Show weather switch": again and again there is a weather
\* switch exactly when weather is configured, also when the listeners were
\* cut short or the content changed back and forth.
WeatherSwitchFollows ==
    \A d \in Displays : []<>(content[d] = "weather" <=> d \in switches)

\* An optional sensor a display has reported appears, though not always with
\* the check-in that reported it.
ReportedSensorAppears ==
    \A d \in Displays, key \in Capabilities :
      (d \in devices /\ key \in seen[d]) ~>
        (key \in added_optional[d] \/ d \notin devices \/ key \notin seen[d])

\* README.md, "Remove the Display subentry ...  Its entities disappear
\* immediately" and "Displays can be renamed and reconfigured independently":
\* the check-in of a display does not fail because of entities that another
\* one left behind.
CheckInNotDisturbed == \A d \in devices : post[d] # "failed"
=============================================================================
