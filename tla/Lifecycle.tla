----------------------------- MODULE Lifecycle -----------------------------
(***************************************************************************)
(* Displays come and go: pairing, removal, reload and restart of the Hub.  *)
(*                                                                         *)
(* The Hub is a runtime with a store (HubStore) on one file.  A reload     *)
(* makes a new runtime from the file; handlers, flows and writes that      *)
(* began under an old runtime go on with the old store.  Home Assistant    *)
(* keeps the subentries, one for every display, in a file of its own.      *)
(*                                                                         *)
(* A flow draws one key and one transaction and keeps both, so the flow    *)
(* itself stands for them.  Terms is what the proof of a display binds     *)
(* besides the key: the URL of the Hub and the certificate policy.         *)
(***************************************************************************)
EXTENDS Naturals, FiniteSets

CONSTANTS
    Displays,      \* displays, known by their MAC address
    Flows,         \* pairing flows, and the key each of them draws
    Terms,         \* URL and certificate policy a user may pair with
    Handlers,      \* check-ins that may run at the same time
    None,          \* no key, no display, no terms
    Setup,         \* the caller that sets up or removes the Hub
    MaxRuntimes,   \* bound on the runtimes made since the last start
    MaxRestarts,   \* bound on restarts of Home Assistant
    MaxOrders,     \* bound on removals and reloads ordered by the user
    MaxResets      \* bound on displays reset by hand

ASSUME NoneAssumption == None \notin Displays \cup Flows \cup Terms
ASSUME CallerAssumption ==
    /\ Displays \cap (Flows \cup Handlers) = {} /\ Flows \cap Handlers = {}
    /\ Setup \notin Displays \cup Flows \cup Handlers
ASSUME BoundAssumption ==
    /\ MaxRuntimes \in Nat \ {0}
    /\ MaxRestarts \in Nat /\ MaxOrders \in Nat /\ MaxResets \in Nat

VARIABLES
    stores,     \* HubStore in memory, by runtime
    unsaved,    \* by runtime, the data given to Store and not yet written
    disk,       \* the storage file
    wait,       \* by caller, the runtime whose write it awaits, or 0
    entries,    \* terms in the subentry of every display, None without one
    kept,       \* the subentries in Home Assistant's own file
    hub,        \* phase, current runtime, runtimes made, reloads asked for
    flow,       \* progress of every pairing flow
    removing,   \* displays whose removal waits for its save
    handler,    \* progress of every check-in
    display,    \* what every display has stored
    wire,       \* pairing requests a display may still handle
    replies,    \* acknowledgements on an open connection
    committed,  \* every key a display ever stored
    spent       \* restarts, orders and resets so far

store == <<stores, unsaved, disk, wait>>
subentries == <<entries, kept>>
network == <<display, wire, replies, committed>>
vars == <<stores, unsaved, disk, wait, entries, kept, hub, flow, removing,
          handler, display, wire, replies, committed, spent>>

-----------------------------------------------------------------------------
Runtimes == 1 .. MaxRuntimes
Callers == Displays \cup Flows \cup Handlers \cup {Setup}
Keys == Flows \cup {None}

Store == [devices : [Displays -> Keys], revoked : [Displays -> Keys]]

NoKeys == [d \in Displays |-> None]
EmptyStore == [devices |-> NoKeys, revoked |-> NoKeys]

NewFlow == [pc |-> "new", display |-> None, terms |-> None]
IdleHandler == [pc |-> "idle", display |-> None, runtime |-> 0,
                key |-> None, revoked |-> FALSE]
Unpaired == [key |-> None, terms |-> None, listening |-> TRUE]

Configured == {d \in Displays : entries[d] # None}

Init ==
    /\ stores = [i \in Runtimes |-> EmptyStore]
    /\ unsaved = [i \in Runtimes |-> {}]
    /\ disk = EmptyStore
    /\ wait = [c \in Callers |-> 0]
    /\ entries = [d \in Displays |-> None] /\ kept = entries
    /\ hub = [phase |-> "running", runtime |-> 1, made |-> 1, reloads |-> 0,
              read |-> EmptyStore, unseen |-> {}]
    /\ flow = [f \in Flows |-> NewFlow]
    /\ removing = {}
    /\ handler = [h \in Handlers |-> IdleHandler]
    /\ display = [d \in Displays |-> Unpaired]
    /\ wire = {} /\ replies = {} /\ committed = {}
    /\ spent = [restarts |-> 0, orders |-> 0, resets |-> 0]

\* The subentry of d is added or removed.  The update listener sees
\* another set of subentries and asks for a reload, but there is no listener
\* between the unloading of a runtime and the installation of the next:
\* unseen remembers what changes after a setup has looked.
SetEntry(d, terms) ==
    /\ entries' = [entries EXCEPT ![d] = terms]
    /\ hub' = CASE terms # entries[d] /\ hub.phase = "running" ->
                     [hub EXCEPT !.reloads = @ + 1]
                [] terms # entries[d] /\ hub.phase = "installing" ->
                     [hub EXCEPT !.unseen = @ \cup {d}]
                [] OTHER -> hub

(***************************************************************************)
(* HubStore.                                                               *)
(***************************************************************************)
Current == stores[hub.runtime]

\* revoke_device for every display of S: the key moves to the restricted part.
Revoke(s, S) ==
    LET gone == {d \in S : s.devices[d] # None}
    IN  [devices |-> [d \in Displays |->
                        IF d \in gone THEN None ELSE s.devices[d]],
         revoked |-> [d \in Displays |->
                        IF d \in gone THEN s.devices[d] ELSE s.revoked[d]]]

ActivateDevice(s, d, key) ==
    [s EXCEPT !.revoked[d] = None, !.devices[d] = key]

\* Caller c gives the whole store i to Home Assistant and waits.
Save(i, s, c) ==
    /\ stores' = [stores EXCEPT ![i] = s]
    /\ unsaved' = [unsaved EXCEPT ![i] = {s}]
    /\ wait' = [wait EXCEPT ![c] = i]
    /\ UNCHANGED disk

\* Every store has its own lock: stores of two runtimes write in any order.
Write(i) ==
    /\ \E s \in unsaved[i] : disk' = s
    /\ unsaved' = [unsaved EXCEPT ![i] = {}]
    /\ wait' = [c \in Callers |-> IF wait[c] = i THEN 0 ELSE wait[c]]
    /\ UNCHANGED <<stores, subentries, hub, flow, removing, handler, network,
                   spent>>

(***************************************************************************)
(* DisplaySubentryFlow.async_step_user and _async_complete_pairing.        *)
(***************************************************************************)
\* Mutant of IsDuplicate: forgets the subentries.
IsDuplicateInStore(d) == Current.devices[d] # None

IsDuplicate(d) == Current.devices[d] # None \/ entries[d] # None

\* The user submits the form, the first time or again after an error, and
\* the flow asks the display who it is.
SubmitForm(f, d, terms) ==
    /\ flow[f].pc \in {"new", "form"} /\ hub.runtime # 0
    /\ flow' = [flow EXCEPT ![f] = [pc |-> "info", display |-> d,
                                    terms |-> terms]]
    /\ UNCHANGED <<store, subentries, hub, removing, handler, network, spent>>

\* Displays of flows whose save is done: async_create_entry follows at once.
Ending == {flow[f].display : f \in {g \in Flows : flow[g].pc = "saving"
                                                  /\ wait[g] = 0}}

\* A listening display answers.  A known one ends the flow, another gets the
\* key of the flow: the same in every attempt.  The user first has to type the
\* PIN of a display that starts anew; a flow whose save is done ends before.
DeviceInfo(f) ==
    LET d == flow[f].display
    IN  /\ flow[f].pc = "info" /\ hub.runtime # 0
        /\ display[d].listening /\ (display[d].key = None => d \notin Ending)
        /\ \/ /\ IsDuplicate(d)
              /\ flow' = [flow EXCEPT ![f].pc = "ended"]
              /\ UNCHANGED wire
           \/ /\ ~IsDuplicate(d)
              /\ flow' = [flow EXCEPT ![f].pc = "pair"]
              /\ wire' = wire \cup {[key |-> f, display |-> d,
                                     terms |-> flow[f].terms]}
        /\ UNCHANGED <<store, subentries, hub, removing, handler, display,
                       replies, committed, spent>>

\* A timeout, a refusal, an answer that fails the checks, or no runtime: the
\* form again, with the connection closed and the key kept.
Fail(f) ==
    /\ flow[f].pc \in {"info", "pair"}
    /\ flow' = [flow EXCEPT ![f].pc = "form"]
    /\ replies' = {r \in replies : r.key # f}
    /\ UNCHANGED <<store, subentries, hub, removing, handler, display, wire,
                   committed, spent>>

\* Mutant of Confirm: any answer with status 200 confirms.
ConfirmWithoutProof(f) ==
    /\ flow[f].pc = "pair" /\ hub.runtime # 0
    /\ replies' = {r \in replies : r.key # f}
    /\ flow' = [flow EXCEPT ![f].pc = "saving"]
    /\ Save(hub.runtime, ActivateDevice(Current, flow[f].display, f), f)
    /\ UNCHANGED <<subentries, hub, removing, handler, display, wire,
                   committed, spent>>

\* Mutant of Confirm: the proof does not bind URL and policy.
ConfirmOtherTerms(f) ==
    /\ flow[f].pc = "pair" /\ hub.runtime # 0
    /\ \E r \in replies : r.key = f /\ r.display = flow[f].display
    /\ replies' = {r \in replies : r.key # f}
    /\ flow' = [flow EXCEPT ![f].pc = "saving"]
    /\ Save(hub.runtime, ActivateDevice(Current, flow[f].display, f), f)
    /\ UNCHANGED <<subentries, hub, removing, handler, display, wire,
                   committed, spent>>

\* The proof matches what the flow sent: the key becomes active and is saved.
Confirm(f) ==
    LET d == flow[f].display
    IN  /\ flow[f].pc = "pair" /\ hub.runtime # 0
        /\ [key |-> f, display |-> d, terms |-> flow[f].terms] \in replies
        /\ replies' = {r \in replies : r.key # f}
        /\ flow' = [flow EXCEPT ![f].pc = "saving"]
        /\ Save(hub.runtime, ActivateDevice(Current, d, f), f)
        /\ UNCHANGED <<subentries, hub, removing, handler, display, wire,
                       committed, spent>>

\* Home Assistant adds the subentry unless the display has one.
CreateEntry(f) ==
    LET d == flow[f].display
    IN  /\ flow[f].pc = "saving" /\ wait[f] = 0
        /\ hub.phase # "removed"
        /\ flow' = [flow EXCEPT ![f].pc = "ended"]
        /\ SetEntry(d, IF entries[d] = None THEN flow[f].terms ELSE entries[d])
        /\ UNCHANGED <<store, kept, removing, handler, network, spent>>

(***************************************************************************)
(* The display while it listens for a pairing request.                     *)
(***************************************************************************)
\* It stores the first request, also one whose sender has given up, and
\* acknowledges a repeated transaction as it did the first time.
DisplayPairs(request) ==
    LET d == request.display
        now == IF display[d].key = None
               THEN [display[d] EXCEPT !.key = request.key,
                                       !.terms = request.terms]
               ELSE display[d]
        connected == /\ flow[request.key].pc = "pair"
                     /\ flow[request.key].display = d
                     /\ flow[request.key].terms = request.terms
    IN  /\ display[d].listening
        /\ display' = [display EXCEPT ![d] = now]
        /\ wire' = wire \ {request}
        /\ replies' = IF connected /\ now.key = request.key
                      THEN replies \cup {[key |-> now.key, display |-> d,
                                          terms |-> now.terms]}
                      ELSE replies
        /\ committed' = committed \cup {<<d, now.key>>}
        /\ UNCHANGED <<store, subentries, hub, flow, removing, handler, spent>>

StopListening(d) ==
    /\ display[d].listening /\ display[d].key # None
    /\ display' = [display EXCEPT ![d].listening = FALSE]
    /\ UNCHANGED <<store, subentries, hub, flow, removing, handler, wire,
                   replies, committed, spent>>

\* The display erases its key and listens again, with a fresh PIN: what was
\* sent to it before is refused.
Unpair(d) ==
    /\ display' = [display EXCEPT ![d] = Unpaired]
    /\ wire' = {r \in wire : r.display # d}

\* The user resets the display by hand.
Reset(d) ==
    /\ display[d].key # None /\ spent.resets < MaxResets
    /\ spent' = [spent EXCEPT !.resets = @ + 1]
    /\ Unpair(d)
    /\ UNCHANGED <<store, subentries, hub, flow, removing, handler, replies,
                   committed>>

(***************************************************************************)
(* CheckinView.post, reduced to the store it works with and saves.         *)
(***************************************************************************)
\* The record is found under the current runtime, and the nonce saved there.
Accept(h, d) ==
    LET key == display[d].key
        active == Current.devices[d] = key
        revoked == Current.devices[d] = None /\ Current.revoked[d] = key
    IN  /\ handler[h].pc = "idle" /\ hub.phase = "running"
        /\ key # None /\ (active \/ revoked)
        /\ handler' = [handler EXCEPT ![h] =
             [pc |-> "nonce", display |-> d, runtime |-> hub.runtime,
              key |-> key, revoked |-> revoked]]
        /\ Save(hub.runtime, Current, h)
        /\ UNCHANGED <<subentries, hub, flow, removing, network, spent>>

\* The second save, and the third where the response marks a delivery, go to
\* the store the check-in began with.
SaveAgain(h) ==
    LET i == handler[h].runtime
    IN  /\ wait[h] = 0 /\ ~handler[h].revoked
        /\ \E next \in {<<"nonce", "process">>, <<"process", "deliver">>} :
             /\ handler[h].pc = next[1]
             /\ handler' = [handler EXCEPT ![h].pc = next[2]]
        /\ Save(i, stores[i], h)
        /\ UNCHANGED <<subentries, hub, flow, removing, network, spent>>

Answer(h) ==
    /\ handler[h].pc \in {"process", "deliver"} /\ wait[h] = 0
    /\ handler' = [handler EXCEPT ![h] = IdleHandler]
    /\ UNCHANGED <<store, subentries, hub, flow, removing, network, spent>>

\* A revoked display gets one command, to unpair; the response may be lost.
AnswerUnpair(h) ==
    LET d == handler[h].display
    IN  /\ handler[h].pc = "nonce" /\ handler[h].revoked /\ wait[h] = 0
        /\ handler' = [handler EXCEPT ![h] = IdleHandler]
        /\ \/ /\ display[d].key = handler[h].key
              /\ Unpair(d)
           \/ UNCHANGED <<display, wire>>
        /\ UNCHANGED <<store, subentries, hub, flow, removing, replies,
                       committed, spent>>

(***************************************************************************)
(* async_remove_config_entry_device, and the subentry deleted directly.    *)
(***************************************************************************)
RemoveDevice(d) ==
    /\ entries[d] # None /\ d \notin removing /\ hub.runtime # 0
    /\ spent.orders < MaxOrders
    /\ spent' = [spent EXCEPT !.orders = @ + 1]
    /\ \/ /\ Current.devices[d] # None
          /\ Save(hub.runtime, Revoke(Current, {d}), d)
          /\ removing' = removing \cup {d}
          /\ UNCHANGED <<entries, hub>>
       \/ /\ Current.devices[d] = None
          /\ SetEntry(d, None)
          /\ UNCHANGED <<store, removing>>
    /\ UNCHANGED <<kept, flow, handler, network>>

FinishRemoval(d) ==
    /\ d \in removing /\ wait[d] = 0
    /\ removing' = removing \ {d}
    /\ SetEntry(d, None)
    /\ UNCHANGED <<store, kept, flow, handler, network, spent>>

DeleteSubentry(d) ==
    /\ entries[d] # None /\ spent.orders < MaxOrders
    /\ spent' = [spent EXCEPT !.orders = @ + 1]
    /\ SetEntry(d, None)
    /\ UNCHANGED <<store, kept, flow, removing, handler, network>>

(***************************************************************************)
(* Reload, start and removal of the Hub.                                   *)
(***************************************************************************)
\* Mutant of Unload: counts a reload of the user as one that was asked for.
UnloadCountingAll ==
    /\ hub.phase = "running" /\ hub.made < MaxRuntimes
    /\ hub' = [hub EXCEPT !.phase = "loading", !.reloads = @ - 1]
    /\ hub.reloads > 0 \/ spent.orders < MaxOrders
    /\ UNCHANGED <<store, subentries, flow, removing, handler, network, spent>>

\* The reload that _async_reload_entry asked for, or the user.
\* Check-ins are refused from here; a flow still finds entry.runtime_data.
Unload ==
    /\ hub.phase = "running" /\ hub.made < MaxRuntimes
    /\ \/ /\ hub.reloads > 0
          /\ hub' = [hub EXCEPT !.phase = "loading", !.reloads = @ - 1]
          /\ UNCHANGED spent
       \/ /\ spent.orders < MaxOrders
          /\ hub' = [hub EXCEPT !.phase = "loading"]
          /\ spent' = [spent EXCEPT !.orders = @ + 1]
    /\ UNCHANGED <<store, subentries, flow, removing, handler, network>>

\* Home Assistant has dropped entry.runtime_data when the setup begins, so
\* until it ends a flow that needs it fails.
ReadDisk ==
    /\ hub.phase = "loading"
    /\ hub' = [hub EXCEPT !.phase = "loaded", !.runtime = 0, !.read = disk,
                          !.unseen = {}]
    /\ UNCHANGED <<store, subentries, flow, removing, handler, network, spent>>

Running(i) ==
    [hub EXCEPT !.phase = "running", !.runtime = i, !.made = i,
                !.read = EmptyStore]

\* Mutant of SetUp: keys without a subentry stay active.
SetUpWithoutRevoking ==
    LET i == hub.made + 1
    IN  /\ hub.phase = "loaded" /\ i <= MaxRuntimes
        /\ stores' = [stores EXCEPT ![i] = hub.read]
        /\ hub' = Running(i)
        /\ UNCHANGED <<unsaved, disk, wait, subentries, flow, removing,
                       handler, network, spent>>

\* async_setup_entry: keys without a subentry are revoked, and saved, before
\* the runtime takes over.
SetUp ==
    LET i == hub.made + 1
        removed == {d \in Displays : hub.read.devices[d] # None} \ Configured
    IN  /\ hub.phase = "loaded" /\ i <= MaxRuntimes
        /\ \/ /\ removed = {}
              /\ stores' = [stores EXCEPT ![i] = hub.read]
              /\ hub' = Running(i)
              /\ UNCHANGED <<unsaved, disk, wait>>
           \/ /\ removed # {}
              /\ Save(i, Revoke(hub.read, removed), Setup)
              /\ hub' = [hub EXCEPT !.phase = "installing", !.made = i]
        /\ UNCHANGED <<subentries, flow, removing, handler, network, spent>>

Install ==
    /\ hub.phase = "installing" /\ wait[Setup] = 0
    /\ hub' = Running(hub.made)
    /\ UNCHANGED <<store, subentries, flow, removing, handler, network, spent>>

\* async_remove_entry: a store of its own clears the file.
RemoveHub ==
    /\ hub.phase = "running" /\ hub.made < MaxRuntimes
    /\ spent.orders < MaxOrders
    /\ spent' = [spent EXCEPT !.orders = @ + 1]
    /\ Save(hub.made + 1, EmptyStore, Setup)
    /\ hub' = [hub EXCEPT !.phase = "removing", !.made = @ + 1,
                          !.runtime = 0, !.reloads = 0]
    /\ UNCHANGED <<subentries, flow, removing, handler, network>>

FinishRemoveHub ==
    /\ hub.phase = "removing" /\ wait[Setup] = 0
    /\ hub' = [hub EXCEPT !.phase = "removed"]
    /\ entries' = [d \in Displays |-> None] /\ kept' = entries'
    /\ UNCHANGED <<store, flow, removing, handler, network, spent>>

\* Home Assistant stops, in the middle of anything, and starts again.
Restart ==
    /\ hub.phase \notin {"removing", "removed"}
    /\ spent.restarts < MaxRestarts
    /\ spent' = [spent EXCEPT !.restarts = @ + 1]
    /\ stores' = [i \in Runtimes |-> EmptyStore]
    /\ unsaved' = [i \in Runtimes |-> {}]
    /\ wait' = [c \in Callers |-> 0]
    /\ entries' = kept
    /\ hub' = [phase |-> "loading", runtime |-> 0, made |-> 0, reloads |-> 0,
               read |-> EmptyStore, unseen |-> {}]
    /\ flow' = [f \in Flows |-> IF flow[f].pc = "new" THEN flow[f]
                                ELSE [flow[f] EXCEPT !.pc = "ended"]]
    /\ removing' = {}
    /\ handler' = [h \in Handlers |-> IdleHandler]
    /\ replies' = {}
    /\ UNCHANGED <<disk, kept, display, wire, committed>>

\* Home Assistant saves the subentries some time after they changed.
SaveEntries ==
    /\ kept # entries
    /\ kept' = entries
    /\ UNCHANGED <<store, entries, hub, flow, removing, handler, network,
                   spent>>

Next ==
    \/ \E i \in Runtimes : Write(i)
    \/ \E f \in Flows :
         \/ \E d \in Displays, terms \in Terms : SubmitForm(f, d, terms)
         \/ DeviceInfo(f) \/ Fail(f) \/ Confirm(f) \/ CreateEntry(f)
    \/ \E request \in wire : DisplayPairs(request)
    \/ \E h \in Handlers :
         \/ \E d \in Displays : Accept(h, d)
         \/ SaveAgain(h) \/ Answer(h) \/ AnswerUnpair(h)
    \/ \E d \in Displays :
         \/ StopListening(d) \/ Reset(d)
         \/ RemoveDevice(d) \/ FinishRemoval(d) \/ DeleteSubentry(d)
    \/ Unload \/ ReadDisk \/ SetUp \/ Install
    \/ RemoveHub \/ FinishRemoveHub
    \/ Restart \/ SaveEntries

Spec == Init /\ [][Next]_vars

-----------------------------------------------------------------------------
(***************************************************************************)
(* Properties.                                                             *)
(***************************************************************************)
Request == [key : Flows, display : Displays, terms : Terms]

\* Every variable has its type.
TypeOK ==
    /\ stores \in [Runtimes -> Store] /\ disk \in Store
    /\ \A i \in Runtimes : unsaved[i] \subseteq Store
    /\ wait \in [Callers -> 0 .. MaxRuntimes]
    /\ entries \in [Displays -> Terms \cup {None}]
    /\ kept \in [Displays -> Terms \cup {None}]
    /\ hub \in [phase : {"running", "loading", "loaded", "installing",
                         "removing", "removed"},
                runtime : 0 .. MaxRuntimes, made : 0 .. MaxRuntimes,
                reloads : Nat, read : Store, unseen : SUBSET Displays]
    /\ flow \in [Flows ->
         [pc : {"new", "form", "info", "pair", "saving", "ended"},
          display : Displays \cup {None}, terms : Terms \cup {None}]]
    /\ removing \subseteq Displays
    /\ handler \in [Handlers ->
         [pc : {"idle", "nonce", "process", "deliver"},
          display : Displays \cup {None}, runtime : 0 .. MaxRuntimes,
          key : Keys, revoked : BOOLEAN]]
    /\ display \in [Displays ->
         [key : Keys, terms : Terms \cup {None}, listening : BOOLEAN]]
    /\ wire \subseteq Request /\ replies \subseteq Request
    /\ committed \subseteq Displays \X Flows
    /\ spent \in [restarts : Nat, orders : Nat, resets : Nat]

Copies == {disk, hub.read} \cup {stores[i] : i \in Runtimes} \cup
          UNION {unsaved[i] : i \in Runtimes}

\* PROTOCOL.md, "The proof confirms receipt of the key": whatever is lost,
\* late or retried, no store, in memory or on its way to the disk, holds a key
\* as active that its display has not stored.
ActiveKeyWasStored ==
    \A s \in Copies, d \in Displays :
      s.devices[d] # None => <<d, s.devices[d]>> \in committed

\* Nothing is under way and nothing is left to write.
Settled ==
    /\ hub.phase = "running" /\ hub.reloads = 0
    /\ \A c \in Callers : wait[c] = 0
    /\ \A i \in Runtimes : unsaved[i] = {}
    /\ \A f \in Flows : flow[f].pc \notin {"info", "pair", "saving"}
    /\ \A h \in Handlers : handler[h].pc = "idle"
    /\ removing = {}

\* At rest a display without a subentry is not served, however removals,
\* pairings, late check-ins, reloads and restarts overlap; except that a
\* subentry may have gone after a setup has looked and before it is installed.
RemovedIsNotServed ==
    Settled => \A d \in Displays :
      Current.devices[d] # None => d \in Configured \cup hub.unseen

\* PROTOCOL.md, "binds the acknowledgement to the device, transaction,
\* normalized hub URL, and certificate policy": a display that has a key works
\* with the terms its subentry shows, although a retry may propose others, a
\* setup revoke the key of a pairing that is saved and the user remove displays.
\* Except that a display reset by hand may be paired again while its first flow
\* ends, and a removed one before Home Assistant, which then crashes, has saved
\* its subentries.
TermsAgree ==
    spent.resets = 0 /\ (spent.orders = 0 \/ spent.restarts = 0) =>
      \A d \in Configured :
        display[d].key # None => display[d].terms = entries[d]

\* As long as the user resets, removes and reloads nothing, the copies of the
\* store in memory, on the disk and on the way there never disagree about the
\* key of a display: whichever of them a crash or a reload leaves.
OneActiveKey ==
    spent.resets = 0 /\ spent.orders = 0 =>
      \A s, t \in Copies, d \in Displays :
        s.devices[d] # None /\ t.devices[d] # None =>
          s.devices[d] = t.devices[d]

\* The same of a display that has stored one key only: it works with these
\* terms at any time, whatever the user resets, removes and reloads.
OnlyKeyAgrees ==
    \A d \in Configured :
      (\A key \in Flows : <<d, key>> \in committed => key = display[d].key) =>
        display[d].terms = entries[d]
=============================================================================
