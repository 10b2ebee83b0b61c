--------------------------- MODULE PairingProofs ---------------------------
EXTENDS LifecycleProofs

(***************************************************************************)
(* A display works with the terms of its subentry, and the copies of the   *)
(* store agree about its key.                                              *)
(*                                                                         *)
(* The first holds because a display that gets a subentry is paired with   *)
(* the key of the flow that made it, or has none and is sent no request    *)
(* any more: no other flow is saving a key of it, no acknowledgement of it *)
(* is left, and while the subentry is there every attempt is refused.      *)
(***************************************************************************)
Calm == spent.resets = 0 /\ (spent.orders = 0 \/ spent.restarts = 0)

Saving(f, d) == flow[f].pc = "saving" /\ flow[f].display = d

\* The copies of the store other than those of runtime i.
Elsewhere(i) ==
    {disk, hub.read} \cup {stores[j] : j \in Runtimes \ {i}} \cup
    UNION {unsaved[j] : j \in Runtimes \ {i}}

\* Before the first order nothing is removed, and what Home Assistant has in
\* its file is what it has in memory, or older.
KeptInv ==
    spent.orders = 0 =>
      /\ removing = {} /\ hub.phase \notin {"removing", "removed"}
      /\ \A d \in Displays : kept[d] # None => entries[d] = kept[d]

\* A key in a copy is of a flow that saves it or has ended.
UsedInv ==
    \A s \in Copies, d \in Displays, f \in Flows :
      f \in {s.devices[d], s.revoked[d]} => flow[f].pc = "ended" \/ Saving(f, d)

\* A key that is not saved yet is in the copies of one runtime, and active.
FreshInv ==
    \A f \in Flows : flow[f].pc = "saving" /\ wait[f] # 0 =>
      /\ \A s \in Copies, d \in Displays : s.revoked[d] # f
      /\ \A s \in Elsewhere(wait[f]), d \in Displays : s.devices[d] # f

\* A display that is told to unpair has a key that was saved.
UnpairInv ==
    \A h \in Handlers : handler[h].pc # "idle" /\ handler[h].revoked =>
      /\ handler[h].key \in Flows
      /\ \/ flow[handler[h].key].pc = "ended"
         \/ flow[handler[h].key].pc = "saving" /\ wait[handler[h].key] = 0

\* A display works with the key it acknowledged and the flow saves, or has
\* been unpaired and nothing is on the way to it.
BoundInv ==
    /\ \A r \in replies : display[r.display].key = r.key
    /\ \A f \in Flows, d \in Displays : Saving(f, d) =>
         \/ display[d].key = f
         \/ /\ display[d].key = None /\ wait[f] = 0
            /\ \A r \in wire : r.display # d
    /\ \A f, g \in Flows, d \in Displays : Saving(f, d) /\ Saving(g, d) => f = g

\* A display with a subentry is not paired again, and works with the key of
\* a flow that was confirmed with the terms of the subentry.
ShownInv ==
    \A d \in Displays : entries[d] # None =>
      /\ \A r \in replies : r.display # d
      /\ \A f \in Flows : ~Saving(f, d)
      /\ display[d].key = None => \A r \in wire : r.display # d
      /\ display[d].key # None =>
           /\ flow[display[d].key].pc = "ended"
           /\ Agreed(display[d].key, d, entries[d])

CalmInv == /\ KeptInv /\ UsedInv /\ FreshInv /\ UnpairInv /\ BoundInv
           /\ ShownInv

TermsInv == Calm => CalmInv

-----------------------------------------------------------------------------
(***************************************************************************)
(* While the user orders nothing, a key is active only while its flow      *)
(* saves it, or with the subentry that this flow made.                     *)
(***************************************************************************)
Quiet == spent.resets = 0 /\ spent.orders = 0

\* Home Assistant has started and the first setup is not done.
Starting ==
    \/ hub.phase = "loading" /\ hub.runtime = 0
    \/ hub.phase = "loaded" /\ hub.made = 0
    \/ hub.phase = "installing" /\ hub.made = 1

MadeInv ==
    /\ hub.phase = "running" => hub.made # 0
    /\ hub.phase = "loading" => (hub.runtime = 0 <=> hub.made = 0)

\* While Home Assistant starts, nothing but the setup touches the store.
StartInv ==
    Starting =>
      /\ \A f \in Flows : flow[f].pc \in {"new", "ended"}
      /\ \A h \in Handlers : handler[h].pc = "idle"
      /\ hub.phase = "loaded" => hub.read = disk
      /\ \A i \in Runtimes : hub.phase # "installing" \/ i # 1 =>
           stores[i] = EmptyStore /\ unsaved[i] = {}
      /\ hub.phase = "installing" =>
           /\ \A d \in Displays : stores[1].devices[d] # None => d \in Configured
           /\ unsaved[1] \subseteq {stores[1]}
           /\ wait[Setup] = 0 => disk = stores[1]

\* A key is active for a display with a subentry, or its flow saves it.
ActiveInv ==
    \A s \in Copies, d \in Displays :
      s.devices[d] # None /\ entries[d] = None =>
        Starting \/ Saving(s.devices[d], d)

OneKeyInv ==
    \A s, t \in Copies, d \in Displays :
      s.devices[d] # None /\ t.devices[d] # None => s.devices[d] = t.devices[d]

QuietInv == MadeInv /\ StartInv /\ ActiveInv /\ OneKeyInv

KeysInv == Quiet => QuietInv

-----------------------------------------------------------------------------
\* What all parts of the proof rest on.
Known == Types /\ OriginInv /\ CalmInv

LEMMA NoRuntime == 0 \notin Runtimes /\ Elsewhere(0) = Copies
<1>1. 0 \notin Runtimes
  BY RuntimeNumbers DEF Runtimes
<1> QED
  BY <1>1 DEF Elsewhere, Copies

LEMMA CopiesType ==
    ASSUME Types
    PROVE  /\ Copies \subseteq Store
           /\ \A i : Elsewhere(i) \subseteq Copies
           /\ \A i \in Runtimes : stores[i] \in Copies
           /\ disk \in Copies /\ hub.read \in Copies
BY DEF Types, StoreTypes, HubType, Copies, Elsewhere

\* Restarts, orders and resets are only counted up.
LEMMA SpentSteps ==
    ASSUME [Next]_vars
    PROVE  \/ spent' = spent
           \/ spent' = [spent EXCEPT !.resets = @ + 1]
           \/ spent' = [spent EXCEPT !.orders = @ + 1]
           \/ spent' = [spent EXCEPT !.restarts = @ + 1]
<1>1. CASE UNCHANGED vars
  BY <1>1 DEF vars
<1>2. CASE Next
  <2>1. ASSUME \/ \E i \in Runtimes : Write(i)
               \/ \E f \in Flows :
                    \/ \E d \in Displays, terms \in Terms :
                         SubmitForm(f, d, terms)
                    \/ DeviceInfo(f) \/ Fail(f) \/ Confirm(f)
                    \/ CreateEntry(f)
               \/ \E request \in wire : DisplayPairs(request)
        PROVE  spent' = spent
    BY <2>1 DEF Write, SubmitForm, DeviceInfo, Fail, Confirm, CreateEntry,
                DisplayPairs
  <2>2. ASSUME \/ \E h \in Handlers :
                    \/ \E d \in Displays : Accept(h, d)
                    \/ SaveAgain(h) \/ Answer(h) \/ AnswerUnpair(h)
               \/ \E d \in Displays : StopListening(d) \/ FinishRemoval(d)
               \/ ReadDisk \/ SetUp \/ Install
               \/ FinishRemoveHub \/ SaveEntries
        PROVE  spent' = spent
    BY <2>2 DEF Accept, SaveAgain, Answer, AnswerUnpair, StopListening,
                FinishRemoval, ReadDisk, SetUp, Install, FinishRemoveHub,
                SaveEntries
  <2>3. ASSUME \/ \E d \in Displays :
                    Reset(d) \/ RemoveDevice(d) \/ DeleteSubentry(d)
               \/ Unload \/ RemoveHub \/ Restart
        PROVE  \/ spent' = spent
               \/ spent' = [spent EXCEPT !.resets = @ + 1]
               \/ spent' = [spent EXCEPT !.orders = @ + 1]
               \/ spent' = [spent EXCEPT !.restarts = @ + 1]
    BY <2>3 DEF Reset, RemoveDevice, DeleteSubentry, Unload, RemoveHub,
                Restart
  <2> QED
    BY <1>2, <2>1, <2>2, <2>3 DEF Next
<1> QED
  BY <1>1, <1>2

LEMMA SpentBefore ==
    ASSUME Types, [Next]_vars
    PROVE  /\ Calm' => Calm
           /\ spent'.orders = 0 => spent.orders = 0
           /\ Quiet' => Quiet
<1>1. /\ spent.orders \in Nat /\ spent.resets \in Nat
      /\ spent.restarts \in Nat
  BY DEF Types
<1>2. /\ spent'.orders = 0 => spent.orders = 0
      /\ spent'.resets = 0 => spent.resets = 0
      /\ spent'.restarts = 0 => spent.restarts = 0
  BY <1>1, SpentSteps DEF Types
<1> QED
  BY <1>2 DEF Calm, Quiet

\* The steps that are left.
CalmNext ==
    \/ UNCHANGED vars
    \/ \E i \in Runtimes : Write(i)
    \/ \E f \in Flows :
         \/ \E d \in Displays, terms \in Terms : SubmitForm(f, d, terms)
         \/ DeviceInfo(f) \/ Fail(f) \/ Confirm(f) \/ CreateEntry(f)
    \/ \E request \in wire : DisplayPairs(request)
    \/ \E h \in Handlers :
         \/ \E d \in Displays : Accept(h, d)
         \/ SaveAgain(h) \/ Answer(h) \/ AnswerUnpair(h)
    \/ \E d \in Displays :
         \/ StopListening(d)
         \/ RemoveDevice(d) \/ FinishRemoval(d) \/ DeleteSubentry(d)
    \/ Unload \/ ReadDisk \/ SetUp \/ Install
    \/ RemoveHub \/ FinishRemoveHub
    \/ Restart \/ SaveEntries

LEMMA CalmSteps ==
    ASSUME Types, [Next]_vars, Calm'
    PROVE  CalmNext
<1>1. \A d \in Displays : ~Reset(d)
  BY DEF Types, Calm, Reset
<1> QED
  BY <1>1 DEF Next, CalmNext

LEMMA SameElsewhere ==
    ASSUME UNCHANGED <<stores, unsaved, disk>>, NEW i,
           hub'.read \in {hub.read, disk, EmptyStore}
    PROVE  Elsewhere(i)' \subseteq Elsewhere(i) \cup {EmptyStore}
BY DEF Elsewhere

LEMMA SaveElsewhere ==
    ASSUME Types, NEW i, NEW j \in Runtimes, NEW s, NEW c, Save(j, s, c),
           hub'.read = hub.read
    PROVE  /\ j # i => Elsewhere(i)' \subseteq Elsewhere(i) \cup {s}
           /\ j = i => Elsewhere(i)' \subseteq Elsewhere(i)
<1>1. /\ stores' = [stores EXCEPT ![j] = s]
      /\ unsaved' = [unsaved EXCEPT ![j] = {s}] /\ disk' = disk
  BY DEF Save
<1>2. \A k \in Runtimes : k # j => /\ stores'[k] = stores[k]
                                   /\ unsaved'[k] = unsaved[k]
  BY <1>1 DEF Types, StoreTypes
<1>3. stores'[j] = s /\ unsaved'[j] = {s}
  BY <1>1 DEF Types, StoreTypes
<1> QED
  BY <1>1, <1>2, <1>3 DEF Elsewhere

\* A file that is written came from one runtime; a key that becomes active, a
\* removal and a setup that revokes make a new store.
LEMMA CopiesStep ==
    ASSUME Types, CalmNext, NEW i \in 0 .. MaxRuntimes
    PROVE  \/ Elsewhere(i)' \subseteq Elsewhere(i) \cup {EmptyStore}
           \/ i # 0 /\ Write(i)
           \/ \E f \in Flows :
                /\ Confirm(f) /\ hub.runtime # i
                /\ Elsewhere(i)' \subseteq Elsewhere(i) \cup
                     {ActivateDevice(Current, flow[f].display, f)}
           \/ \E d \in Displays :
                /\ RemoveDevice(d) /\ hub.runtime # i
                /\ Elsewhere(i)' \subseteq Elsewhere(i) \cup
                     {Revoke(Current, {d})}
           \/ /\ SetUp
              /\ Elsewhere(i)' \subseteq Elsewhere(i) \cup {EmptyStore,
                   Revoke(hub.read, {d \in Displays : hub.read.devices[d] # None}
                                      \ Configured)}
<1> USE DEF store, subentries, network
<1>1. ASSUME NEW j \in Runtimes, Write(j), j # i
      PROVE  Elsewhere(i)' \subseteq Elsewhere(i)
  <2>1. /\ UNCHANGED <<stores, hub>> /\ disk' \in unsaved[j]
        /\ unsaved' = [unsaved EXCEPT ![j] = {}]
    BY <1>1 DEF Write
  <2>2. \A k \in Runtimes : unsaved'[k] \subseteq unsaved[k]
    BY <2>1 DEF Types, StoreTypes
  <2> QED
    BY <1>1, <2>1, <2>2 DEF Elsewhere
<1>2. ASSUME NEW f \in Flows, Confirm(f)
      PROVE  \/ Elsewhere(i)' \subseteq Elsewhere(i)
             \/ /\ hub.runtime # i
                /\ Elsewhere(i)' \subseteq Elsewhere(i) \cup
                     {ActivateDevice(Current, flow[f].display, f)}
  <2>1. /\ Save(hub.runtime, ActivateDevice(Current, flow[f].display, f), f)
        /\ hub.runtime \in Runtimes /\ hub' = hub
    BY <1>2, CurrentType DEF Confirm
  <2> QED
    BY <2>1, SaveElsewhere
<1>3. ASSUME NEW h \in Handlers, NEW d, Accept(h, d) \/ SaveAgain(h)
      PROVE  Elsewhere(i)' \subseteq Elsewhere(i)
  <2>1. PICK j \in Runtimes : Save(j, stores[j], h)
    <3>1. CASE Accept(h, d)
      BY <3>1, CurrentType DEF Accept, Current, Types, Begun
    <3>2. CASE SaveAgain(h)
      BY <3>2 DEF SaveAgain, Types, Begun
    <3> QED
      BY <1>3, <3>1, <3>2
  <2>2. hub' = hub
    BY <1>3 DEF Accept, SaveAgain
  <2>3. j # i => stores[j] \in Elsewhere(i)
    BY DEF Elsewhere
  <2> QED
    BY <2>1, <2>2, <2>3, SaveElsewhere
<1>4. CASE SetUp
  <2> DEFINE j == hub.made + 1
             removed == {d \in Displays : hub.read.devices[d] # None}
                          \ Configured
  <2>1. j \in Runtimes /\ hub.read \in Elsewhere(i)
    BY <1>4, RuntimeNumbers DEF SetUp, Types, HubType, Runtimes, Elsewhere
  <2>2. CASE /\ stores' = [stores EXCEPT ![j] = hub.read] /\ hub' = Running(j)
             /\ UNCHANGED <<unsaved, disk>>
    <3>1. hub'.read = EmptyStore
      BY <2>2 DEF Running, Types, HubType
    <3>2. \A k \in Runtimes : stores'[k] \in {stores[k], hub.read}
      BY <2>1, <2>2 DEF Types, StoreTypes
    <3> QED
      BY <2>1, <2>2, <3>1, <3>2 DEF Elsewhere
  <2>3. CASE /\ Save(j, Revoke(hub.read, removed), Setup)
             /\ hub' = [hub EXCEPT !.phase = "installing", !.made = j]
    <3>1. hub'.read = hub.read
      BY <2>3 DEF Types, HubType
    <3>2. PICK new : new = Revoke(hub.read, removed)
      OBVIOUS
    <3>3. Elsewhere(i)' \subseteq Elsewhere(i) \cup {new}
      <4> HIDE DEF j, removed
      <4> QED
        BY <2>1, <2>3, <3>1, <3>2, SaveElsewhere
    <3> QED
      BY <1>4, <3>2, <3>3
  <2> QED
    BY <1>4, <2>2, <2>3 DEF SetUp
<1>5. CASE Restart
  BY <1>5 DEF Restart, Elsewhere
<1>6. CASE Unload \/ ReadDisk \/ Install
  <2>1. /\ UNCHANGED <<stores, unsaved, disk>>
        /\ hub'.read \in {hub.read, disk, EmptyStore}
    BY <1>6 DEF Unload, ReadDisk, Install, Running, Types, HubType
  <2> QED
    BY <2>1, SameElsewhere
<1>7. ASSUME \/ UNCHANGED vars \/ SaveEntries
             \/ \E f \in Flows :
                  \/ \E d \in Displays, terms \in Terms : SubmitForm(f, d, terms)
                  \/ DeviceInfo(f) \/ Fail(f) \/ CreateEntry(f)
             \/ \E request \in wire : DisplayPairs(request)
             \/ \E h \in Handlers : Answer(h) \/ AnswerUnpair(h)
             \/ \E d \in Displays :
                  \/ StopListening(d) \/ FinishRemoval(d) \/ DeleteSubentry(d)
      PROVE  Elsewhere(i)' \subseteq Elsewhere(i) \cup {EmptyStore}
  <2>1. UNCHANGED <<stores, unsaved, disk>> /\ hub'.read = hub.read
    BY <1>7, SetEntryRead
    DEF vars, SaveEntries, SubmitForm, DeviceInfo, Fail, CreateEntry,
        DisplayPairs, Answer, AnswerUnpair, StopListening, FinishRemoval,
        DeleteSubentry
  <2> QED
    BY <2>1, SameElsewhere
<1>8. ASSUME NEW j \in Runtimes, Write(j), j = i
      PROVE  i # 0 /\ Write(i)
  BY <1>8, NoRuntime
<1>9. ASSUME NEW d \in Displays, RemoveDevice(d)
      PROVE  \/ Elsewhere(i)' \subseteq Elsewhere(i) \cup {EmptyStore}
             \/ /\ hub.runtime # i
                /\ Elsewhere(i)' \subseteq Elsewhere(i) \cup
                     {Revoke(Current, {d})}
  <2>1. hub.runtime \in Runtimes
    BY <1>9, CurrentType DEF RemoveDevice
  <2>2. CASE Save(hub.runtime, Revoke(Current, {d}), d) /\ hub' = hub
    BY <2>1, <2>2, SaveElsewhere
  <2>3. CASE SetEntry(d, None) /\ UNCHANGED <<stores, unsaved, disk>>
    BY <2>3, SetEntryRead, SameElsewhere
  <2> QED
    BY <1>9, <2>2, <2>3 DEF RemoveDevice
<1>10. CASE RemoveHub
  <2> DEFINE j == hub.made + 1
  <2>1. j \in Runtimes
    BY <1>10, RuntimeNumbers DEF RemoveHub, Types, HubType, Runtimes
  <2>2. Save(j, EmptyStore, Setup) /\ hub'.read = hub.read
    BY <1>10 DEF RemoveHub, Types, HubType
  <2> HIDE DEF j
  <2> QED
    BY <2>1, <2>2, SaveElsewhere
<1>11. CASE FinishRemoveHub
  <2>1. UNCHANGED <<stores, unsaved, disk>> /\ hub'.read = hub.read
    BY <1>11 DEF FinishRemoveHub, Types, HubType
  <2> QED
    BY <2>1, SameElsewhere
<1> QED
  BY <1>1, <1>2, <1>3, <1>4, <1>5, <1>6, <1>7, <1>8, <1>9, <1>10, <1>11
  DEF CalmNext

LEMMA CopiesNow ==
    ASSUME Types, CalmNext, NEW s \in Copies'
    PROVE  \/ s \in Copies
           \/ s = EmptyStore
           \/ \E f \in Flows : /\ Confirm(f)
                               /\ s = ActivateDevice(Current, flow[f].display, f)
           \/ \E d \in Displays : RemoveDevice(d) /\ s = Revoke(Current, {d})
           \/ /\ SetUp
              /\ s = Revoke(hub.read, {d \in Displays : hub.read.devices[d] # None}
                                        \ Configured)
<1>1. Copies' = Elsewhere(0)'
  BY RuntimeNumbers DEF Runtimes, Copies, Elsewhere
<1>2. 0 \in 0 .. MaxRuntimes
  BY RuntimeNumbers
<1> QED
  BY <1>1, <1>2, NoRuntime, CopiesStep

LEMMA EmptyKeys ==
    \A d \in Displays : EmptyStore.devices[d] = None /\ EmptyStore.revoked[d] = None
BY DEF EmptyStore, NoKeys

LEMMA ActivateKeys ==
    ASSUME NEW s \in Store, NEW d \in Displays, NEW key \in Keys, NEW e \in Displays
    PROVE  /\ ActivateDevice(s, d, key).devices[e] =
                IF e = d THEN key ELSE s.devices[e]
           /\ ActivateDevice(s, d, key).revoked[e] =
                IF e = d THEN None ELSE s.revoked[e]
BY DEF ActivateDevice, Store

LEMMA RevokeKeys ==
    ASSUME NEW s \in Store, NEW S, NEW e \in Displays
    PROVE  /\ Revoke(s, S).devices[e] =
                IF e \in S THEN None ELSE s.devices[e]
           /\ \/ Revoke(s, S).revoked[e] = s.revoked[e]
              \/ e \in S /\ Revoke(s, S).revoked[e] = s.devices[e]
BY DEF Revoke, Store

\* Only a confirmed flow begins to wait.
LEMMA WaitSteps ==
    ASSUME Types, CalmNext, NEW f \in Flows
    PROVE  \/ wait'[f] \in {0, wait[f]}
           \/ Confirm(f) /\ wait'[f] = hub.runtime /\ hub.runtime \in Runtimes
<1> USE DEF store, subentries, network
<1>0. /\ wait \in [Callers -> 0 .. MaxRuntimes] /\ f \in Callers
      /\ f \notin Handlers /\ f # Setup
      /\ f \notin Displays
  BY CallerAssumption DEF Types, StoreTypes, Callers
<1>1. ASSUME NEW j, NEW s, NEW c, Save(j, s, c), c # f
      PROVE  wait'[f] = wait[f]
  BY <1>0, <1>1 DEF Save
<1>2. CASE \E j \in Runtimes : Write(j)
  BY <1>0, <1>2 DEF Write
<1>3. ASSUME NEW g \in Flows, Confirm(g)
      PROVE  \/ wait'[f] = wait[f]
             \/ Confirm(f) /\ wait'[f] = hub.runtime /\ hub.runtime \in Runtimes
  <2>1. /\ Save(hub.runtime, ActivateDevice(Current, flow[g].display, g), g)
        /\ hub.runtime \in Runtimes
    BY <1>3, CurrentType DEF Confirm
  <2>2. CASE g = f
    BY <1>0, <1>3, <2>1, <2>2 DEF Save
  <2> QED
    BY <1>1, <2>1, <2>2
<1>4. CASE \E h \in Handlers : \/ \E d \in Displays : Accept(h, d)
                               \/ SaveAgain(h)
  BY <1>0, <1>1, <1>4 DEF Accept, SaveAgain
<1>5. CASE SetUp \/ RemoveHub \/ \E d \in Displays : RemoveDevice(d)
  BY <1>0, <1>1, <1>5 DEF SetUp, RemoveHub, RemoveDevice
<1>6. CASE Restart
  BY <1>0, <1>6 DEF Restart
<1>7. ASSUME \/ UNCHANGED vars \/ SaveEntries \/ FinishRemoveHub
             \/ \E g \in Flows :
                  \/ \E d \in Displays, terms \in Terms : SubmitForm(g, d, terms)
                  \/ DeviceInfo(g) \/ Fail(g) \/ CreateEntry(g)
             \/ \E request \in wire : DisplayPairs(request)
             \/ \E h \in Handlers : Answer(h) \/ AnswerUnpair(h)
             \/ \E d \in Displays :
                  \/ StopListening(d) \/ FinishRemoval(d) \/ DeleteSubentry(d)
             \/ Unload \/ ReadDisk \/ Install
      PROVE  wait' = wait
  BY <1>7 DEF vars, SaveEntries, SubmitForm, DeviceInfo, Fail, CreateEntry,
              DisplayPairs, Answer, AnswerUnpair, StopListening, Unload,
              ReadDisk, Install, FinishRemoval, DeleteSubentry,
              FinishRemoveHub
<1> QED
  BY <1>2, <1>3, <1>4, <1>5, <1>6, <1>7 DEF CalmNext

\* A flow that is saved or has ended is not confirmed again.
LEMMA KeySteps ==
    ASSUME Types, CalmNext, [Next]_vars, NEW f \in Flows
    PROVE  /\ flow[f].pc = "ended" => flow'[f].pc = "ended"
           /\ flow[f].pc = "saving" =>
                /\ flow'[f].pc \in {"saving", "ended"}
                /\ flow'[f].pc = "saving" => flow'[f].display = flow[f].display
                /\ wait[f] = 0 => wait'[f] = 0
           /\ flow'[f].pc = "saving" =>
                \/ flow[f].pc = "saving" /\ wait'[f] \in {0, wait[f]}
                \/ /\ Confirm(f) /\ wait'[f] = hub.runtime
                   /\ hub.runtime \in Runtimes
<1>1. Confirm(f) => flow[f].pc = "pair"
  BY DEF Confirm
<1>2. ASSUME Confirm(f)
      PROVE  wait'[f] = hub.runtime /\ hub.runtime \in Runtimes
  BY <1>2, CurrentType DEF Confirm, Save, Types, StoreTypes, Callers
<1> QED
  BY <1>1, <1>2, FlowSteps, WaitSteps

LEMMA ConfirmFacts ==
    ASSUME Known, CalmNext, [Next]_vars, NEW f \in Flows, Confirm(f)
    PROVE  /\ flow[f].display \in Displays /\ f \in Keys /\ f # None
           /\ hub.runtime \in Runtimes /\ Current \in Copies /\ Current \in Store
           /\ flow'[f].pc = "saving" /\ flow'[f].display = flow[f].display
           /\ flow[f].pc = "pair"
           /\ display[flow[f].display].key = f
           /\ \E r \in replies : r.key = f /\ r.display = flow[f].display
           /\ \A s \in Copies, d \in Displays :
                f \notin {s.devices[d], s.revoked[d]}
<1>1. /\ flow[f].pc = "pair" /\ hub.runtime # 0
      /\ \E r \in replies : r.key = f /\ r.display = flow[f].display
  BY DEF Confirm
<1>2. flow[f].display \in Displays /\ f \in Keys /\ f # None
  BY <1>1, NoneAssumption DEF Known, Types, Begun, Keys
<1>3. hub.runtime \in Runtimes /\ Current \in Copies /\ Current \in Store
  BY <1>1, CurrentType, CopiesType DEF Known, Current
<1>4. flow'[f].pc = "saving" /\ flow'[f].display = flow[f].display
  BY DEF Confirm, Known, Types, FlowType
<1>5. display[flow[f].display].key = f
  BY <1>1 DEF Known, CalmInv, BoundInv
<1>6. \A s \in Copies, d \in Displays : f \notin {s.devices[d], s.revoked[d]}
  BY <1>1 DEF Known, CalmInv, UsedInv, Saving
<1> QED
  BY <1>1, <1>2, <1>3, <1>4, <1>5, <1>6

LEMMA UsedStep ==
    ASSUME Known, CalmNext, [Next]_vars
    PROVE  UsedInv'
<1>1. Types /\ UsedInv /\ Copies \subseteq Store
  BY CopiesType DEF Known, CalmInv
<1>2. ASSUME NEW f \in Flows, NEW d \in Displays,
             flow[f].pc = "ended" \/ Saving(f, d)
      PROVE  flow'[f].pc = "ended" \/ Saving(f, d)'
  BY <1>1, <1>2, KeySteps DEF Saving
<1>3. ASSUME NEW s \in Copies, NEW d \in Displays, NEW f \in Flows,
             f \in {s.devices[d], s.revoked[d]}
      PROVE  flow'[f].pc = "ended" \/ Saving(f, d)'
  BY <1>1, <1>2, <1>3 DEF UsedInv
<1>4. ASSUME NEW s \in Copies', NEW d \in Displays, NEW f \in Flows,
             f \in {s.devices[d], s.revoked[d]}
      PROVE  flow'[f].pc = "ended" \/ Saving(f, d)'
  <2>0. f # None
    BY NoneAssumption
  <2>1. CASE s \in Copies
    BY <1>3, <1>4, <2>1
  <2>2. CASE s = EmptyStore
    BY <1>4, <2>0, <2>2, EmptyKeys
  <2>3. ASSUME NEW g \in Flows, Confirm(g),
               s = ActivateDevice(Current, flow[g].display, g)
        PROVE  flow'[f].pc = "ended" \/ Saving(f, d)'
    <3>1. /\ flow[g].display \in Displays /\ g \in Keys
          /\ Current \in Copies /\ Current \in Store
          /\ flow'[g].pc = "saving" /\ flow'[g].display = flow[g].display
      BY <2>3, ConfirmFacts
    <3>2. \/ f = g /\ d = flow[g].display
          \/ f \in {Current.devices[d], Current.revoked[d]}
      BY <1>4, <2>0, <2>3, <3>1, ActivateKeys
    <3>3. PICK e \in Displays : e = flow[g].display
      BY <3>1
    <3>4. Saving(g, e)'
      BY <3>1, <3>3 DEF Saving
    <3> QED
      BY <1>3, <3>1, <3>2, <3>3, <3>4
  <2>4. ASSUME NEW S, NEW t \in Copies, s = Revoke(t, S)
        PROVE  flow'[f].pc = "ended" \/ Saving(f, d)'
    <3>1. f \in {t.devices[d], t.revoked[d]}
      BY <1>1, <1>4, <2>0, <2>4, RevokeKeys
    <3> QED
      BY <1>3, <2>4, <3>1
  <2>5. hub.read \in Copies
    BY <1>1, CopiesType
  <2>6. \A e : RemoveDevice(e) => Current \in Copies
    BY <1>1, CopiesType, CurrentType DEF RemoveDevice, Current
  <2> QED
    BY <1>1, <2>1, <2>2, <2>3, <2>4, <2>5, <2>6, CopiesNow
<1> QED
  BY <1>4 DEF UsedInv

LEMMA FreshStep ==
    ASSUME Known, CalmNext, [Next]_vars
    PROVE  FreshInv'
<1>1. /\ Types /\ FreshInv /\ Copies \subseteq Store
      /\ \A i : Elsewhere(i) \subseteq Copies
  BY CopiesType DEF Known, CalmInv
<1> SUFFICES ASSUME NEW f \in Flows, flow'[f].pc = "saving", wait'[f] # 0
             PROVE  /\ \A s \in Copies', d \in Displays : s.revoked[d] # f
                    /\ \A s \in Elsewhere(wait[f])', d \in Displays :
                         s.devices[d] # f
  BY DEF FreshInv
<1>2. PICK i \in 0 .. MaxRuntimes : i = wait'[f]
  <2>1. wait'[f] \in {0, wait[f], hub.runtime}
    BY <1>1, KeySteps
  <2> QED
    BY <1>1, <2>1, RuntimeNumbers DEF Types, StoreTypes, HubType, Callers
<1>3. f # None
  BY NoneAssumption
<1>4. /\ \A s \in Copies, d \in Displays : s.revoked[d] # f
      /\ \A s \in Elsewhere(i), d \in Displays : s.devices[d] # f
  <2>1. CASE Confirm(f)
    BY <1>1, <2>1, ConfirmFacts
  <2>2. CASE flow[f].pc = "saving" /\ wait'[f] = wait[f]
    BY <1>1, <1>2, <2>2 DEF FreshInv
  <2> QED
    BY <1>1, <2>1, <2>2, KeySteps
<1>5. hub.read \in Elsewhere(i) /\ hub.read \in Copies /\ hub.read \in Store
  BY <1>1 DEF Elsewhere
<1>6. ASSUME NEW s \in Copies', NEW d \in Displays
      PROVE  s.revoked[d] # f
  <2>1. CASE s \in Copies
    BY <1>4, <2>1
  <2>2. CASE s = EmptyStore
    BY <1>3, <2>2, EmptyKeys
  <2>3. ASSUME NEW g \in Flows, Confirm(g),
               s = ActivateDevice(Current, flow[g].display, g)
        PROVE  s.revoked[d] # f
    BY <1>3, <1>4, <2>3, ConfirmFacts, ActivateKeys
  <2>4. ASSUME NEW S, s = Revoke(hub.read, S)
        PROVE  s.revoked[d] # f
    BY <1>4, <1>5, <2>4, RevokeKeys
  <2>5. ASSUME NEW e \in Displays, RemoveDevice(e), s = Revoke(Current, {e})
        PROVE  s.revoked[d] # f
    <3>1. Current \in Copies /\ Current \in Store
      BY <1>1, <2>5, CopiesType, CurrentType DEF RemoveDevice, Current
    <3>2. entries[e] # None /\ flow[f].pc = "saving"
      BY <2>5 DEF RemoveDevice
    <3>3. Current.devices[e] # f
      BY <3>1, <3>2 DEF Known, CalmInv, ShownInv, UsedInv
    <3> QED
      BY <1>4, <2>5, <3>1, <3>3, RevokeKeys
  <2> QED
    BY <1>1, <2>1, <2>2, <2>3, <2>4, <2>5, CopiesNow
<1>7. ASSUME NEW s \in Elsewhere(i)', NEW d \in Displays
      PROVE  s.devices[d] # f
  <2>1. CASE s \in Elsewhere(i)
    BY <1>4, <2>1
  <2>2. CASE s = EmptyStore
    BY <1>3, <2>2, EmptyKeys
  <2>3. ASSUME NEW g \in Flows, Confirm(g), hub.runtime # i,
               s = ActivateDevice(Current, flow[g].display, g)
        PROVE  s.devices[d] # f
    <3>1. Current \in Elsewhere(i) /\ Current \in Store
      BY <2>3, ConfirmFacts DEF Current, Elsewhere
    <3>2. g # f
      BY <1>1, <1>2, <2>3 DEF Confirm, Save, Types, StoreTypes, Callers
    <3> QED
      BY <1>4, <2>3, <3>1, <3>2, ConfirmFacts, ActivateKeys
  <2>4. ASSUME NEW S, s = Revoke(hub.read, S)
        PROVE  s.devices[d] # f
    BY <1>3, <1>4, <1>5, <2>4, RevokeKeys
  <2>6. ASSUME NEW e \in Displays, RemoveDevice(e), hub.runtime # i,
               s = Revoke(Current, {e})
        PROVE  s.devices[d] # f
    <3>1. Current \in Elsewhere(i) /\ Current \in Store
      BY <1>1, <2>6, CurrentType DEF RemoveDevice, Current, Elsewhere
    <3> QED
      BY <1>3, <1>4, <2>6, <3>1, RevokeKeys
  <2>5. ~(i # 0 /\ Write(i))
    <3>1. f \in Callers
      BY DEF Callers
    <3> QED
      BY <1>2, <3>1 DEF Write
  <2> QED
    BY <1>1, <2>1, <2>2, <2>3, <2>4, <2>5, <2>6, CopiesStep
<1>8. Elsewhere(wait[f])' = Elsewhere(i)'
  BY <1>2 DEF Elsewhere
<1> QED
  BY <1>6, <1>7, <1>8

\* Before the step no copy has revoked the key, and none elsewhere has it.
LEMMA UnpairStep ==
    ASSUME Known, CalmNext, [Next]_vars
    PROVE  UnpairInv'
<1> USE DEF store, subentries, network
<1>1. /\ Types /\ UnpairInv /\ UsedInv /\ FreshInv
      /\ handler \in [Handlers -> HandlerType]
  BY DEF Known, CalmInv, Types
<1>2. ASSUME NEW f \in Flows,
             flow[f].pc = "ended" \/ (flow[f].pc = "saving" /\ wait[f] = 0)
      PROVE  flow'[f].pc = "ended" \/ (flow'[f].pc = "saving" /\ wait'[f] = 0)
  BY <1>1, <1>2, KeySteps
<1>3. ASSUME NEW h \in Handlers, handler'[h].pc # "idle", handler'[h].revoked,
             handler'[h] = handler[h]
      PROVE  /\ handler'[h].key \in Flows
             /\ \/ flow'[handler'[h].key].pc = "ended"
                \/ /\ flow'[handler'[h].key].pc = "saving"
                   /\ wait'[handler'[h].key] = 0
  <2>1. PICK f \in Flows : f = handler[h].key
    BY <1>1, <1>3 DEF UnpairInv
  <2>2. flow[f].pc = "ended" \/ (flow[f].pc = "saving" /\ wait[f] = 0)
    BY <1>1, <1>3, <2>1 DEF UnpairInv
  <2> QED
    BY <1>2, <1>3, <2>1, <2>2
<1>4. ASSUME NEW g \in Handlers, NEW d \in Displays, Accept(g, d),
             NEW h \in Handlers, handler'[h].pc # "idle", handler'[h].revoked,
             handler'[h] # handler[h]
      PROVE  /\ handler'[h].key \in Flows
             /\ \/ flow'[handler'[h].key].pc = "ended"
                \/ /\ flow'[handler'[h].key].pc = "saving"
                   /\ wait'[handler'[h].key] = 0
  <2>1. /\ handler'[h].key = display[d].key /\ display[d].key # None
        /\ Current.revoked[d] = display[d].key
    BY <1>1, <1>4 DEF Accept
  <2>2. Current \in Copies /\ Current \in Store
    BY <1>1, <1>4, CurrentType, CopiesType DEF Accept, Current, Types, Begun
  <2>3. PICK f \in Flows : f = display[d].key
    BY <1>1, <2>1 DEF Types, DisplayType, Keys
  <2>4. flow[f].pc = "ended" \/ flow[f].pc = "saving"
    BY <1>1, <2>1, <2>2, <2>3 DEF UsedInv, Saving
  <2>5. flow[f].pc = "saving" => wait[f] = 0
    BY <1>1, <2>1, <2>2, <2>3 DEF FreshInv
  <2> QED
    BY <1>2, <2>1, <2>3, <2>4, <2>5
<1>5. ASSUME NEW g \in Handlers, SaveAgain(g) \/ Answer(g) \/ AnswerUnpair(g),
             NEW h \in Handlers
      PROVE  \/ handler'[h] = handler[h] \/ handler'[h].pc = "idle"
             \/ ~handler'[h].revoked
  BY <1>1, <1>5 DEF SaveAgain, Answer, AnswerUnpair, IdleHandler, HandlerType
<1>6. CASE Restart
  BY <1>6 DEF Restart, IdleHandler, UnpairInv
<1>7. ASSUME \/ UNCHANGED vars \/ \E i \in Runtimes : Write(i)
             \/ \E f \in Flows :
                  \/ \E d \in Displays, terms \in Terms : SubmitForm(f, d, terms)
                  \/ DeviceInfo(f) \/ Fail(f) \/ Confirm(f) \/ CreateEntry(f)
             \/ \E request \in wire : DisplayPairs(request)
             \/ \E d \in Displays :
                  \/ StopListening(d) \/ RemoveDevice(d)
                  \/ FinishRemoval(d) \/ DeleteSubentry(d)
             \/ Unload \/ ReadDisk \/ SetUp \/ Install
             \/ RemoveHub \/ FinishRemoveHub \/ SaveEntries
      PROVE  handler' = handler
  BY <1>7 DEF vars, Write, SubmitForm, DeviceInfo, Fail, Confirm, CreateEntry,
              DisplayPairs, StopListening, RemoveDevice, FinishRemoval,
              DeleteSubentry, Unload, ReadDisk, SetUp, Install, RemoveHub,
              FinishRemoveHub, SaveEntries
<1>8. ASSUME handler' = handler PROVE UnpairInv'
  BY <1>3, <1>8 DEF UnpairInv
<1>9. CASE \E g \in Handlers : \E d \in Displays : Accept(g, d)
  BY <1>3, <1>4, <1>9 DEF UnpairInv
<1>10. CASE \E g \in Handlers : SaveAgain(g) \/ Answer(g) \/ AnswerUnpair(g)
  BY <1>3, <1>5, <1>10 DEF UnpairInv
<1> QED
  BY <1>6, <1>7, <1>8, <1>9, <1>10 DEF CalmNext

\* What the steps do to displays, requests and acknowledgements.
LEMMA CalmNetwork ==
    ASSUME CalmNext
    PROVE  \/ UNCHANGED <<display, wire>> /\ replies' \subseteq replies
           \/ \E f \in Flows : DeviceInfo(f)
           \/ \E request \in wire : DisplayPairs(request)
           \/ \E d \in Displays : StopListening(d)
           \/ \E h \in Handlers : /\ AnswerUnpair(h)
                                  /\ display[handler[h].display].key = handler[h].key
                                  /\ Unpair(handler[h].display)
<1> USE DEF store, subentries, network
<1>1. ASSUME \/ UNCHANGED vars \/ \E i \in Runtimes : Write(i)
             \/ \E f \in Flows :
                  \/ \E d \in Displays, terms \in Terms : SubmitForm(f, d, terms)
                  \/ Fail(f) \/ Confirm(f) \/ CreateEntry(f)
      PROVE  UNCHANGED <<display, wire>> /\ replies' \subseteq replies
  BY <1>1 DEF vars, Write, SubmitForm, Fail, Confirm, CreateEntry
<1>2. ASSUME \/ \E h \in Handlers : \/ \E d \in Displays : Accept(h, d)
                                    \/ SaveAgain(h) \/ Answer(h)
             \/ \E d \in Displays :
                  RemoveDevice(d) \/ FinishRemoval(d) \/ DeleteSubentry(d)
             \/ Unload \/ ReadDisk \/ SetUp \/ Install
             \/ RemoveHub \/ FinishRemoveHub \/ Restart \/ SaveEntries
      PROVE  UNCHANGED <<display, wire>> /\ replies' \subseteq replies
  BY <1>2 DEF Accept, SaveAgain, Answer, RemoveDevice, FinishRemoval,
              DeleteSubentry, Unload, ReadDisk, SetUp, Install, RemoveHub,
              FinishRemoveHub, Restart, SaveEntries
<1>3. ASSUME NEW h \in Handlers, AnswerUnpair(h)
      PROVE  \/ UNCHANGED <<display, wire>> /\ replies' \subseteq replies
             \/ /\ display[handler[h].display].key = handler[h].key
                /\ Unpair(handler[h].display)
  BY <1>3 DEF AnswerUnpair
<1> QED
  BY <1>1, <1>2, <1>3 DEF CalmNext

\* A display that is unpaired: no acknowledgement of it is left, and its key
\* was saved.
LEMMA UnpairFacts ==
    ASSUME Known, NEW h \in Handlers, AnswerUnpair(h),
           display[handler[h].display].key = handler[h].key
    PROVE  /\ handler[h].display \in Displays /\ handler[h].key \in Flows
           /\ handler[h].key # None
           /\ \A r \in replies : r.display # handler[h].display
           /\ \A f \in Flows : Saving(f, handler[h].display) => wait[f] = 0
<1>1. /\ handler[h].display \in Displays /\ handler[h].key \in Flows
      /\ \/ flow[handler[h].key].pc = "ended"
         \/ flow[handler[h].key].pc = "saving" /\ wait[handler[h].key] = 0
  BY DEF AnswerUnpair, Known, Types, Begun, CalmInv, UnpairInv
<1>2. handler[h].key # None
  BY <1>1, NoneAssumption
<1>3. \A r \in replies : r.display # handler[h].display
  BY <1>1 DEF Known, OriginInv, CalmInv, BoundInv
<1>4. \A f \in Flows : Saving(f, handler[h].display) => wait[f] = 0
  BY <1>1, <1>2 DEF Known, CalmInv, BoundInv, Saving
<1> QED
  BY <1>1, <1>2, <1>3, <1>4

\* A display that pairs: with its first key no acknowledgement of it is left,
\* and no flow saves a key of it.
LEMMA PairsFacts ==
    ASSUME Known, NEW request \in wire, DisplayPairs(request)
    PROVE  /\ request.display \in Displays /\ request.key \in Flows
           /\ \A d \in Displays : d # request.display => display'[d] = display[d]
           /\ \/ /\ display[request.display].key # None
                 /\ display'[request.display] = display[request.display]
              \/ /\ display[request.display].key = None
                 /\ display'[request.display].key = request.key
                 /\ \A r \in replies : r.display # request.display
                 /\ \A f \in Flows : ~Saving(f, request.display)
           /\ wire' \subseteq wire /\ flow' = flow /\ wait' = wait
           /\ entries' = entries /\ kept' = kept
           /\ \/ replies' = replies
              \/ \E new : /\ replies' = replies \cup {new}
                          /\ new.key = request.key
                          /\ new.display = request.display
                          /\ display'[request.display].key = request.key
                          /\ flow[request.key].pc = "pair"
                          /\ flow[request.key].display = request.display
<1> DEFINE e == request.display
           now == IF display[e].key = None
                  THEN [display[e] EXCEPT !.key = request.key,
                                          !.terms = request.terms]
                  ELSE display[e]
<1>1. e \in Displays /\ request.key \in Flows /\ display[e] \in DisplayType
  BY DEF Known, Types, Request
<1>2. /\ display' = [display EXCEPT ![e] = now] /\ wire' \subseteq wire
      /\ flow' = flow /\ wait' = wait /\ entries' = entries /\ kept' = kept
  BY DEF DisplayPairs, store, subentries
<1>3. /\ display'[e] = now
      /\ \A d \in Displays : d # e => display'[d] = display[d]
  BY <1>1, <1>2 DEF Known, Types
<1>4. \/ replies' = replies
      \/ /\ replies' = replies \cup {[key |-> now.key, display |-> e,
                                      terms |-> now.terms]}
         /\ now.key = request.key /\ flow[request.key].pc = "pair"
         /\ flow[request.key].display = e
  BY DEF DisplayPairs
<1>5. display[e].key = None => now.key = request.key
  BY <1>1 DEF DisplayType
<1>6. display[e].key = None =>
        /\ \A r \in replies : r.display # e
        /\ \A f \in Flows : ~Saving(f, e)
  <2>1. \A r \in replies : r.key \in Flows /\ r.key # None
    BY NoneAssumption DEF Known, Types, Request
  <2>2. \A f \in Flows : f # None
    BY NoneAssumption
  <2> QED
    BY <1>1, <2>1, <2>2 DEF Known, CalmInv, BoundInv
<1>7. display[e].key # None => now = display[e]
  OBVIOUS
<1> HIDE DEF now
<1> QED
  BY <1>1, <1>2, <1>3, <1>4, <1>5, <1>6, <1>7

LEMMA BoundStep ==
    ASSUME Known, CalmNext, [Next]_vars
    PROVE  BoundInv'
<1>1. /\ Types /\ BoundInv /\ OriginInv
      /\ \A r \in replies : r.display \in Displays /\ r.key \in Flows
  BY DEF Known, CalmInv, Types, Request
<1>2. \A f \in Flows : f # None
  BY NoneAssumption
<1>3. ASSUME NEW r \in replies'
      PROVE  display'[r.display].key = r.key
  <2>1. CASE UNCHANGED <<display, wire>> /\ replies' \subseteq replies
    BY <1>1, <1>3, <2>1 DEF BoundInv
  <2>2. CASE \E f \in Flows : DeviceInfo(f)
    BY <1>1, <1>3, <2>2 DEF BoundInv, DeviceInfo
  <2>3. ASSUME NEW request \in wire, DisplayPairs(request)
        PROVE  display'[r.display].key = r.key
    BY <1>1, <1>3, <2>3, PairsFacts DEF BoundInv
  <2>4. ASSUME NEW d \in Displays, StopListening(d)
        PROVE  display'[r.display].key = r.key
    BY <1>1, <1>3, <2>4 DEF BoundInv, StopListening, Types, DisplayType
  <2>5. ASSUME NEW h \in Handlers, AnswerUnpair(h), Unpair(handler[h].display),
               display[handler[h].display].key = handler[h].key
        PROVE  display'[r.display].key = r.key
    <3>1. replies' = replies /\ r.display # handler[h].display
      BY <1>3, <2>5, UnpairFacts DEF AnswerUnpair
    <3> QED
      BY <1>1, <1>3, <2>5, <3>1 DEF BoundInv, Unpair, Types
  <2> QED
    BY <2>1, <2>2, <2>3, <2>4, <2>5, CalmNetwork
<1>4. ASSUME NEW f \in Flows, NEW d \in Displays, Saving(f, d)'
      PROVE  \/ Saving(f, d) /\ wait'[f] \in {0, wait[f]}
             \/ Confirm(f) /\ d = flow[f].display
  <2>1. flow'[f].pc = "saving" /\ flow'[f].display = d
    BY <1>4 DEF Saving
  <2> QED
    BY <1>1, <2>1, KeySteps, ConfirmFacts DEF Saving
<1>5. ASSUME NEW f \in Flows, NEW d \in Displays, Saving(f, d)'
      PROVE  \/ display'[d].key = f
             \/ /\ display'[d].key = None /\ wait'[f] = 0
                /\ \A r \in wire' : r.display # d
  <2>1. CASE Confirm(f) /\ d = flow[f].display
    <3>1. display[d].key = f
      BY <2>1, ConfirmFacts
    <3>2. display' = display
      BY <2>1 DEF Confirm, network
    <3> QED
      BY <3>1, <3>2
  <2>2. CASE Saving(f, d) /\ wait'[f] \in {0, wait[f]}
    <3>0. /\ wait[f] = 0 => wait'[f] = 0
          /\ \/ display[d].key = f
             \/ /\ display[d].key = None /\ wait[f] = 0
                /\ \A r \in wire : r.display # d
      BY <1>1, <2>2 DEF BoundInv
    <3>1. CASE UNCHANGED <<display, wire>> /\ replies' \subseteq replies
      BY <3>0, <3>1
    <3>2. ASSUME NEW g \in Flows, DeviceInfo(g)
          PROVE  \/ display'[d].key = f
                 \/ /\ display'[d].key = None /\ wait'[f] = 0
                    /\ \A r \in wire' : r.display # d
      <4>1. /\ display' = display
            /\ \A r \in wire' : r \in wire \/ r.display = flow[g].display
            /\ display[flow[g].display].key = None =>
                 flow[g].display \notin Ending
        BY <3>2 DEF DeviceInfo, network
      <4>2. wait[f] = 0 => d \in Ending
        BY <2>2 DEF Ending, Saving
      <4> QED
        BY <3>0, <4>1, <4>2
    <3>3. ASSUME NEW request \in wire, DisplayPairs(request)
          PROVE  \/ display'[d].key = f
                 \/ /\ display'[d].key = None /\ wait'[f] = 0
                    /\ \A r \in wire' : r.display # d
      BY <2>2, <3>0, <3>3, PairsFacts
    <3>4. ASSUME NEW c \in Displays, StopListening(c)
          PROVE  \/ display'[d].key = f
                 \/ /\ display'[d].key = None /\ wait'[f] = 0
                    /\ \A r \in wire' : r.display # d
      BY <1>1, <3>0, <3>4 DEF StopListening, Types, DisplayType
    <3>5. ASSUME NEW h \in Handlers, AnswerUnpair(h), Unpair(handler[h].display),
                 display[handler[h].display].key = handler[h].key
          PROVE  \/ display'[d].key = f
                 \/ /\ display'[d].key = None /\ wait'[f] = 0
                    /\ \A r \in wire' : r.display # d
      <4>1. CASE d = handler[h].display
        <5>1. wait[f] = 0
          BY <2>2, <3>5, <4>1, UnpairFacts
        <5> QED
          BY <1>1, <3>0, <3>5, <4>1, <5>1 DEF Unpair, Unpaired, Types
      <4>2. CASE d # handler[h].display
        BY <1>1, <3>0, <3>5, <4>2 DEF Unpair, Types
      <4> QED
        BY <4>1, <4>2
    <3> QED
      BY <3>1, <3>2, <3>3, <3>4, <3>5, CalmNetwork
  <2> QED
    BY <1>4, <1>5, <2>1, <2>2
<1>6. ASSUME NEW f \in Flows, NEW g \in Flows, NEW d \in Displays,
             Saving(f, d)', Saving(g, d)'
      PROVE  f = g
  <2>1. ASSUME NEW a \in Flows, NEW b \in Flows, Confirm(a),
               d = flow[a].display, Saving(b, d)
        PROVE  a = b
    <3>1. display[d].key = a
      BY <2>1, ConfirmFacts
    <3> QED
      BY <1>1, <1>2, <2>1, <3>1 DEF BoundInv
  <2>2. ASSUME Confirm(f), Confirm(g), d = flow[f].display, d = flow[g].display
        PROVE  f = g
    <3>1. display[d].key = f /\ display[d].key = g
      BY <2>2, ConfirmFacts
    <3> QED
      BY <3>1
  <2>3. /\ Saving(f, d) \/ (Confirm(f) /\ d = flow[f].display)
        /\ Saving(g, d) \/ (Confirm(g) /\ d = flow[g].display)
    BY <1>4, <1>6
  <2>4. Saving(f, d) /\ Saving(g, d) => f = g
    BY <1>1 DEF BoundInv
  <2> QED
    BY <2>1, <2>2, <2>3, <2>4
<1> QED
  BY <1>3, <1>5, <1>6 DEF BoundInv

-----------------------------------------------------------------------------
\* The steps while the user orders nothing.
QuietNext ==
    \/ UNCHANGED vars
    \/ \E i \in Runtimes : Write(i)
    \/ \E f \in Flows :
         \/ \E d \in Displays, terms \in Terms : SubmitForm(f, d, terms)
         \/ DeviceInfo(f) \/ Fail(f) \/ Confirm(f) \/ CreateEntry(f)
    \/ \E request \in wire : DisplayPairs(request)
    \/ \E h \in Handlers :
         \/ \E d \in Displays : Accept(h, d)
         \/ SaveAgain(h) \/ Answer(h) \/ AnswerUnpair(h)
    \/ \E d \in Displays : StopListening(d)
    \/ Unload \/ ReadDisk \/ SetUp \/ Install \/ Restart \/ SaveEntries

LEMMA QuietSteps ==
    ASSUME Types, KeptInv, CalmNext, [Next]_vars, spent'.orders = 0
    PROVE  QuietNext
<1>1. spent.orders = 0
  BY SpentBefore
<1>2. ~RemoveHub /\ \A d \in Displays : ~RemoveDevice(d) /\ ~DeleteSubentry(d)
  BY <1>1 DEF Types, RemoveHub, RemoveDevice, DeleteSubentry
<1>3. ~FinishRemoveHub /\ \A d \in Displays : ~FinishRemoval(d)
  BY <1>1 DEF KeptInv, FinishRemoveHub, FinishRemoval
<1> QED
  BY <1>2, <1>3 DEF CalmNext, QuietNext

\* What the steps do to the phase of the Hub and its runtimes.
LEMMA HubSteps ==
    ASSUME Types, QuietNext
    PROVE  \/ /\ hub'.phase = hub.phase /\ hub'.runtime = hub.runtime
              /\ hub'.made = hub.made /\ hub'.read = hub.read
              /\ ~Unload /\ ~ReadDisk /\ ~SetUp /\ ~Install /\ ~Restart
           \/ /\ Unload /\ hub.phase = "running" /\ hub'.phase = "loading"
              /\ hub'.runtime = hub.runtime /\ hub'.made = hub.made
           \/ /\ ReadDisk /\ hub.phase = "loading" /\ hub'.phase = "loaded"
              /\ hub'.made = hub.made /\ hub'.read = disk
           \/ /\ SetUp /\ hub.phase = "loaded"
              /\ hub'.phase \in {"running", "installing"}
              /\ hub'.made = hub.made + 1 /\ hub.made + 1 \in Runtimes
           \/ /\ Install /\ hub.phase = "installing" /\ hub'.phase = "running"
              /\ hub'.made = hub.made /\ hub.made \in Runtimes
              /\ hub'.read = EmptyStore
           \/ /\ Restart /\ hub'.phase = "loading" /\ hub'.runtime = 0
              /\ hub'.made = 0
<1> USE DEF store, subentries, network
<1>0. hub \in HubType
  BY DEF Types
<1>1. CASE Unload
  BY <1>0, <1>1 DEF Unload, HubType
<1>2. CASE ReadDisk
  BY <1>0, <1>2 DEF ReadDisk, HubType
<1>3. CASE SetUp
  <2>1. PICK i : i = hub.made + 1
    OBVIOUS
  <2>2. i \in Runtimes /\ hub.phase = "loaded"
    BY <1>0, <1>3, <2>1, RuntimeNumbers DEF SetUp, HubType, Runtimes
  <2>3. hub' = Running(i) \/ hub' = [hub EXCEPT !.phase = "installing", !.made = i]
    BY <1>3, <2>1 DEF SetUp
  <2>4. hub'.phase \in {"running", "installing"} /\ hub'.made = i
    BY <1>0, <2>3 DEF Running, HubType
  <2> QED
    BY <1>3, <2>1, <2>2, <2>4
<1>4. CASE Install
  BY <1>0, <1>4, RuntimeNumbers DEF Install, Running, HubType, Types, Begun
<1>5. CASE Restart
  BY <1>5 DEF Restart
<1>6. ASSUME \/ UNCHANGED vars \/ SaveEntries \/ \E i \in Runtimes : Write(i)
             \/ \E f \in Flows :
                  \/ \E d \in Displays, terms \in Terms : SubmitForm(f, d, terms)
                  \/ DeviceInfo(f) \/ Fail(f) \/ Confirm(f)
             \/ \E request \in wire : DisplayPairs(request)
             \/ \E h \in Handlers :
                  \/ \E d \in Displays : Accept(h, d)
                  \/ SaveAgain(h) \/ Answer(h) \/ AnswerUnpair(h)
             \/ \E d \in Displays : StopListening(d)
      PROVE  hub' = hub
  BY <1>6 DEF vars, SaveEntries, Write, SubmitForm, DeviceInfo, Fail, Confirm,
              DisplayPairs, Accept, SaveAgain, Answer, AnswerUnpair,
              StopListening
<1>7. ASSUME NEW f \in Flows, CreateEntry(f)
      PROVE  /\ hub'.phase = hub.phase /\ hub'.runtime = hub.runtime
             /\ hub'.made = hub.made /\ hub'.read = hub.read
  BY <1>0, <1>7 DEF CreateEntry, SetEntry, HubType
<1> QED
  BY <1>1, <1>2, <1>3, <1>4, <1>5, <1>6, <1>7 DEF QuietNext

\* Only a pairing adds a subentry; a start takes those that were saved.
LEMMA QuietEntries ==
    ASSUME Types, QuietNext
    PROVE  \/ UNCHANGED <<entries, kept>>
           \/ entries' = entries /\ kept' = entries
           \/ Restart /\ entries' = kept /\ kept' = kept
           \/ \E f \in Flows, d \in Displays :
                /\ CreateEntry(f) /\ Saving(f, d) /\ flow'[f].pc = "ended"
                /\ flow[f].terms \in Terms
                /\ entries' = [entries EXCEPT ![d] =
                     IF entries[d] = None THEN flow[f].terms ELSE entries[d]]
                /\ UNCHANGED <<kept, stores, unsaved, disk, wait, replies, wire,
                               display, committed>>
<1> USE DEF store, subentries, network
<1>1. ASSUME \/ UNCHANGED vars \/ \E i \in Runtimes : Write(i)
             \/ \E f \in Flows :
                  \/ \E d \in Displays, terms \in Terms : SubmitForm(f, d, terms)
                  \/ DeviceInfo(f) \/ Fail(f) \/ Confirm(f)
             \/ \E request \in wire : DisplayPairs(request)
      PROVE  UNCHANGED <<entries, kept>>
  BY <1>1 DEF vars, Write, SubmitForm, DeviceInfo, Fail, Confirm, DisplayPairs
<1>2. ASSUME \/ \E h \in Handlers :
                  \/ \E d \in Displays : Accept(h, d)
                  \/ SaveAgain(h) \/ Answer(h) \/ AnswerUnpair(h)
             \/ \E d \in Displays : StopListening(d)
             \/ Unload \/ ReadDisk \/ SetUp \/ Install
      PROVE  UNCHANGED <<entries, kept>>
  BY <1>2 DEF Accept, SaveAgain, Answer, AnswerUnpair, StopListening, Unload,
              ReadDisk, SetUp, Install
<1>3. CASE SaveEntries
  BY <1>3 DEF SaveEntries
<1>4. CASE Restart
  BY <1>4 DEF Restart
<1>5. ASSUME NEW f \in Flows, CreateEntry(f)
      PROVE  /\ flow[f].display \in Displays /\ flow[f].terms \in Terms
             /\ Saving(f, flow[f].display) /\ flow'[f].pc = "ended"
             /\ entries' = [entries EXCEPT ![flow[f].display] =
                  IF entries[flow[f].display] = None THEN flow[f].terms
                  ELSE entries[flow[f].display]]
             /\ UNCHANGED <<kept, stores, unsaved, disk, wait, replies, wire,
                            display, committed>>
  BY <1>5 DEF CreateEntry, SetEntry, Saving, Types, Begun, FlowType
<1> QED
  BY <1>1, <1>2, <1>3, <1>4, <1>5 DEF QuietNext

LEMMA KeptStep ==
    ASSUME Types, KeptInv, CalmNext, [Next]_vars
    PROVE  KeptInv'
<1> USE DEF store, subentries, network
<1> SUFFICES ASSUME spent'.orders = 0
             PROVE  /\ removing' = {} /\ hub'.phase \notin {"removing", "removed"}
                    /\ \A d \in Displays : kept'[d] # None =>
                         entries'[d] = kept'[d]
  BY DEF KeptInv
<1>1. /\ QuietNext
      /\ entries \in [Displays -> Terms \cup {None}]
  BY QuietSteps DEF Types
<1>2. /\ removing = {} /\ hub.phase \notin {"removing", "removed"}
      /\ \A d \in Displays : kept[d] # None => entries[d] = kept[d]
  BY SpentBefore DEF KeptInv
<1>3. removing' = {}
  <2>1. ASSUME \/ UNCHANGED vars \/ SaveEntries \/ \E i \in Runtimes : Write(i)
               \/ \E f \in Flows :
                    \/ \E d \in Displays, terms \in Terms :
                         SubmitForm(f, d, terms)
                    \/ DeviceInfo(f) \/ Fail(f) \/ Confirm(f) \/ CreateEntry(f)
               \/ \E request \in wire : DisplayPairs(request)
               \/ \E h \in Handlers :
                    \/ \E d \in Displays : Accept(h, d)
                    \/ SaveAgain(h) \/ Answer(h) \/ AnswerUnpair(h)
               \/ \E d \in Displays : StopListening(d)
        PROVE  removing' = removing
    BY <2>1 DEF vars, SaveEntries, Write, SubmitForm, DeviceInfo, Fail,
                Confirm, CreateEntry, DisplayPairs, Accept, SaveAgain, Answer,
                AnswerUnpair, StopListening
  <2>2. ASSUME Unload \/ ReadDisk \/ SetUp \/ Install \/ Restart
        PROVE  removing' \in {removing, {}}
    BY <2>2 DEF Unload, ReadDisk, SetUp, Install, Restart
  <2> QED
    BY <1>1, <1>2, <2>1, <2>2 DEF QuietNext, KeptInv
<1>4. hub'.phase \notin {"removing", "removed"}
  BY <1>1, <1>2, HubSteps
<1>5. \A d \in Displays : kept'[d] # None => entries'[d] = kept'[d]
  BY <1>1, <1>2, QuietEntries
<1> QED
  BY <1>3, <1>4, <1>5

\* A subentry was there before, or the flow that saved its key makes it.
LEMMA EntryComes ==
    ASSUME Types, KeptInv, CalmNext, [Next]_vars, Calm',
           NEW d \in Displays, entries'[d] # None
    PROVE  \/ entries'[d] = entries[d]
           \/ \E f \in Flows :
                /\ Saving(f, d) /\ flow'[f].pc = "ended"
                /\ entries'[d] = flow[f].terms
                /\ \A g \in Flows : g # f => flow'[g] = flow[g]
                /\ UNCHANGED <<replies, wire, display>>
<1> USE DEF store, subentries, network
<1>0. entries \in [Displays -> Terms \cup {None}] /\ flow \in [Flows -> FlowType]
  BY DEF Types
<1>1. ASSUME \/ UNCHANGED vars \/ \E i \in Runtimes : Write(i)
             \/ \E f \in Flows :
                  \/ \E e \in Displays, terms \in Terms :
                       SubmitForm(f, e, terms)
                  \/ DeviceInfo(f) \/ Fail(f) \/ Confirm(f)
             \/ \E request \in wire : DisplayPairs(request)
             \/ \E h \in Handlers :
                  \/ \E e \in Displays : Accept(h, e)
                  \/ SaveAgain(h) \/ Answer(h) \/ AnswerUnpair(h)
      PROVE  entries' = entries
  BY <1>1 DEF vars, Write, SubmitForm, DeviceInfo, Fail, Confirm,
              DisplayPairs, Accept, SaveAgain, Answer, AnswerUnpair
<1>2. ASSUME NEW e \in Displays,
             \/ StopListening(e) \/ RemoveDevice(e) \/ FinishRemoval(e)
             \/ DeleteSubentry(e)
      PROVE  entries'[d] \in {None, entries[d]}
  BY <1>0, <1>2 DEF StopListening, RemoveDevice, FinishRemoval,
                    DeleteSubentry, SetEntry
<1>3. ASSUME Unload \/ ReadDisk \/ SetUp \/ Install \/ RemoveHub
             \/ FinishRemoveHub \/ SaveEntries
      PROVE  entries'[d] \in {None, entries[d]}
  BY <1>3 DEF Unload, ReadDisk, SetUp, Install, RemoveHub, FinishRemoveHub,
              SaveEntries
<1>4. CASE Restart
  <2>1. spent.orders \in Nat /\ spent.restarts \in Nat
    BY DEF Types
  <2>2. spent' = [spent EXCEPT !.restarts = @ + 1] /\ entries' = kept
    BY <1>4 DEF Restart
  <2>3. spent'.restarts # 0 /\ spent'.orders = spent.orders
    BY <2>1, <2>2 DEF Types
  <2>4. spent.orders = 0
    BY <2>3 DEF Calm
  <2> QED
    BY <2>2, <2>4 DEF KeptInv
<1>5. ASSUME NEW f \in Flows, CreateEntry(f)
      PROVE  \/ entries'[d] = entries[d]
             \/ /\ Saving(f, d) /\ flow'[f].pc = "ended"
                /\ entries'[d] = flow[f].terms
                /\ \A g \in Flows : g # f => flow'[g] = flow[g]
                /\ UNCHANGED <<replies, wire, display>>
  BY <1>0, <1>5 DEF CreateEntry, SetEntry, Saving, FlowType
<1> QED
  BY <1>1, <1>2, <1>3, <1>4, <1>5 DEF CalmNext

LEMMA ShownStep ==
    ASSUME Known, CalmNext, [Next]_vars, Calm'
    PROVE  ShownInv'
<1>1. /\ Types /\ KeptInv /\ BoundInv /\ OriginInv
      /\ \A r \in replies \cup wire : r.display \in Displays /\ r.key \in Flows
      /\ display \in [Displays -> DisplayType]
      /\ \A f \in Flows : f # None
  BY NoneAssumption DEF Known, CalmInv, Types, Request
\* The display is paired with the key of a flow that has ended, and nothing of
\* another flow is left.
<1> DEFINE Rest(d, terms) ==
             /\ \A r \in replies : r.display # d
             /\ \A f \in Flows : ~Saving(f, d)
             /\ display[d].key = None => \A r \in wire : r.display # d
             /\ display[d].key # None =>
                  /\ flow[display[d].key].pc = "ended"
                  /\ Agreed(display[d].key, d, terms)
\* A subentry that was there.
<1>2. ASSUME NEW d \in Displays, entries[d] # None
      PROVE  \A r \in replies' : r.display # d
  <2>1. \A r \in replies : r.display # d
    BY <1>2 DEF Known, CalmInv, ShownInv
  <2>2. ASSUME NEW request \in wire, DisplayPairs(request)
        PROVE  \A r \in replies' : r.display # d
    <3>1. /\ display[d].key = None => request.display # d
          /\ display[d].key # None => flow[display[d].key].pc = "ended"
      BY <1>2 DEF Known, CalmInv, ShownInv
    <3>2. request.display = d => display'[d] = display[d]
      BY <2>2, <3>1, PairsFacts
    <3> QED
      BY <1>1, <2>1, <2>2, <3>1, <3>2, PairsFacts
  <2>3. replies' \subseteq replies \/ \E request \in wire : DisplayPairs(request)
    BY CalmNetwork DEF DeviceInfo, StopListening, AnswerUnpair
  <2> QED
    BY <2>1, <2>2, <2>3
<1>3. ASSUME NEW d \in Displays, entries[d] # None, NEW f \in Flows
      PROVE  ~Saving(f, d)'
  <2>1. /\ \A r \in replies : r.display # d
        /\ ~Saving(f, d)
    BY <1>3 DEF Known, CalmInv, ShownInv
  <2>2. ~(Confirm(f) /\ flow[f].display = d)
    BY <2>1, ConfirmFacts
  <2> QED
    BY <1>1, <2>1, <2>2, KeySteps, ConfirmFacts DEF Saving
\* What the step does to the display and to the requests for it.
<1>4. ASSUME NEW d \in Displays, entries[d] # None
      PROVE  \/ /\ display'[d].key = display[d].key
                /\ display[d].key = None => \A r \in wire' : r.display # d
             \/ /\ display'[d].key = None
                /\ \A r \in wire' : r.display # d
  <2>1. display[d].key = None => \A r \in wire : r.display # d
    BY <1>4 DEF Known, CalmInv, ShownInv
  <2>2. CASE UNCHANGED <<display, wire>>
    BY <2>1, <2>2
  <2>3. ASSUME NEW g \in Flows, DeviceInfo(g)
        PROVE  /\ display' = display
               /\ \A r \in wire' : r \in wire \/ r.display # d
    BY <1>4, <2>3 DEF DeviceInfo, IsDuplicate, network
  <2>4. ASSUME NEW request \in wire, DisplayPairs(request)
        PROVE  display'[d] = display[d] /\ wire' \subseteq wire
    BY <2>1, <2>4, PairsFacts
  <2>5. ASSUME NEW c \in Displays, StopListening(c)
        PROVE  display'[d].key = display[d].key /\ wire' = wire
    BY <1>1, <2>5 DEF StopListening, DisplayType
  <2>6. ASSUME NEW h \in Handlers, Unpair(handler[h].display)
        PROVE  \/ display'[d] = display[d] /\ wire' \subseteq wire
               \/ display'[d].key = None /\ \A r \in wire' : r.display # d
    <3>1. CASE handler[h].display = d
      BY <1>1, <2>6, <3>1 DEF Unpair, Unpaired
    <3>2. CASE handler[h].display # d
      BY <1>1, <2>6, <3>2 DEF Unpair
    <3> QED
      BY <3>1, <3>2
  <2> QED
    BY <2>1, <2>2, <2>3, <2>4, <2>5, <2>6, CalmNetwork
<1>5. ASSUME NEW d \in Displays, entries[d] # None, NEW terms, terms = entries[d]
      PROVE  Rest(d, terms)'
  <2>1. PICK key : key = display'[d].key
    OBVIOUS
  <2>2. CASE key = None
    BY <1>2, <1>3, <1>4, <1>5, <2>1, <2>2
  <2>3. CASE key # None
    <3>1. key = display[d].key /\ key \in Flows
      BY <1>1, <1>4, <1>5, <2>1, <2>3 DEF DisplayType, Keys
    <3>2. flow[key].pc = "ended" /\ Agreed(key, d, terms)
      BY <1>5, <2>3, <3>1 DEF Known, CalmInv, ShownInv
    <3>3. flow'[key].pc = "ended" /\ Agreed(key, d, terms)'
      BY <1>1, <3>1, <3>2, KeySteps, AgreedKept
    <3> QED
      BY <1>2, <1>3, <1>5, <2>1, <2>3, <3>3
  <2> QED
    BY <2>2, <2>3
\* A new subentry.
<1>6. ASSUME NEW d \in Displays, NEW f \in Flows, Saving(f, d),
             flow'[f].pc = "ended", NEW terms, terms = flow[f].terms,
             \A g \in Flows : g # f => flow'[g] = flow[g],
             UNCHANGED <<replies, wire, display>>
      PROVE  Rest(d, terms)'
  <2>1. /\ flow[f].pc = "saving" /\ Agreed(f, d, terms)
        /\ \A r \in replies : r.key # f
    BY <1>6 DEF Known, OriginInv, Saving
  <2>2. Agreed(f, d, terms)'
    BY <1>1, <2>1, AgreedKept
  <2>3. /\ \/ display[d].key = f
           \/ display[d].key = None /\ \A r \in wire : r.display # d
        /\ \A g \in Flows : Saving(g, d) => g = f
        /\ \A r \in replies : display[r.display].key = r.key
    BY <1>1, <1>6 DEF BoundInv
  <2>4. \A g \in Flows : ~Saving(g, d)'
    BY <1>6, <2>3 DEF Saving
  <2>5. \A r \in replies' : r.display # d
    BY <1>1, <1>6, <2>1, <2>3
  <2>6. CASE display[d].key = None
    BY <1>1, <1>6, <2>3, <2>4, <2>5, <2>6
  <2>7. CASE display[d].key = f
    <3>1. display'[d].key = f
      BY <1>6, <2>7
    <3> QED
      BY <1>1, <1>6, <2>2, <2>4, <2>5, <3>1
  <2> QED
    BY <2>3, <2>6, <2>7
<1>7. ASSUME NEW d \in Displays, entries'[d] # None, NEW terms,
             terms = entries'[d]
      PROVE  Rest(d, terms)'
  <2>1. CASE entries'[d] = entries[d]
    BY <1>5, <1>7, <2>1
  <2>2. CASE entries'[d] # entries[d]
    BY <1>1, <1>6, <1>7, <2>2, EntryComes
  <2> QED
    BY <2>1, <2>2
<1> SUFFICES ASSUME NEW d \in Displays, entries'[d] # None
             PROVE  Rest(d, entries[d])'
  BY DEF ShownInv
<1>8. PICK terms : terms = entries'[d]
  OBVIOUS
<1>9. Rest(d, terms)'
  BY <1>7, <1>8
<1> QED
  BY <1>8, <1>9 DEF Agreed

LEMMA TermsStep ==
    Types /\ OriginInv /\ TermsInv /\ [Next]_vars => TermsInv'
<1> SUFFICES ASSUME Types, OriginInv, TermsInv, [Next]_vars, Calm'
             PROVE  CalmInv'
  BY DEF TermsInv
<1>1. Known
  BY SpentBefore DEF Known, TermsInv
<1>2. CalmNext
  BY <1>1, CalmSteps DEF Known
<1> QED
  BY <1>1, <1>2, KeptStep, UsedStep, FreshStep, UnpairStep, BoundStep, ShownStep
  DEF Known, CalmInv

LEMMA CopiesInit == Init => Copies = {EmptyStore}
BY RuntimeNumbers DEF Init, Copies

LEMMA TermsInit == Init => TermsInv
<1> SUFFICES ASSUME Init PROVE CalmInv
  BY DEF TermsInv
<1>1. /\ removing = {} /\ hub.phase = "running"
      /\ replies = {}
      /\ \A d \in Displays : entries[d] = None /\ kept[d] = None
      /\ \A f \in Flows : flow[f].pc = "new"
      /\ \A h \in Handlers : handler[h].pc = "idle"
  BY DEF Init, NewFlow, IdleHandler
<1>2. KeptInv /\ FreshInv /\ UnpairInv /\ BoundInv /\ ShownInv
  BY <1>1 DEF KeptInv, FreshInv, UnpairInv, BoundInv, Saving, ShownInv
<1>3. UsedInv
  BY CopiesInit, EmptyKeys, NoneAssumption DEF UsedInv
<1> QED
  BY <1>2, <1>3 DEF CalmInv

LEMMA OriginInit == Init => OriginInv
BY DEF Init, NewFlow, OriginInv

\* PROTOCOL.md, the proof "binds the acknowledgement to the device,
\* transaction, normalized hub URL, and certificate policy": for any number of
\* displays, flows and runtimes, with retries under other terms, lost and late
\* requests, setups that revoke the key of a pairing, unpairing and restarts, or
\* without restarts any number of removals and reloads, a display that has a
\* key works with the terms of its subentry.
THEOREM SubentryShowsEveryKey == Spec => []TermsAgree
<1>1. TermsInv => TermsAgree
  BY DEF TermsInv, CalmInv, ShownInv, TermsAgree, Calm, Configured, Agreed
<1> QED
  BY TypesInit, TypesStep, OriginInit, OriginStep, TermsInit, TermsStep, <1>1,
     PTL DEF Spec

-----------------------------------------------------------------------------
Quietly == Known /\ ServedInv /\ QuietInv

LEMMA QuietKeeps ==
    ASSUME QuietNext
    PROVE  CalmNext
BY DEF QuietNext, CalmNext

LEMMA MadeStep ==
    ASSUME Quietly, QuietNext
    PROVE  MadeInv'
<1>1. /\ Types /\ MadeInv /\ hub \in HubType
      /\ hub.phase = "running" => hub.runtime # 0
  BY DEF Quietly, Known, QuietInv, Types, Begun
<1>2. hub.made + 1 # 0 /\ 0 \notin Runtimes
  BY <1>1, NoRuntime DEF HubType
<1> QED
  BY <1>1, <1>2, HubSteps DEF MadeInv

\* A display that has a subentry after the step.
\* While Home Assistant starts there is no flow and no check-in.
LEMMA StartingSteps ==
    ASSUME Quietly, Starting, QuietNext
    PROVE  \/ /\ UNCHANGED <<stores, unsaved, disk, wait, hub>>
           \/ /\ hub.phase = "installing" /\ Write(1)
           \/ ReadDisk \/ SetUp \/ Install \/ Restart
<1> USE DEF store, subentries, network
<1>1. /\ hub.runtime = 0 /\ hub.phase # "running"
      /\ \A f \in Flows : flow[f].pc \in {"new", "ended"}
      /\ \A h \in Handlers : handler[h].pc = "idle"
      /\ \A i \in Runtimes : hub.phase # "installing" \/ i # 1 => unsaved[i] = {}
  BY DEF Quietly, QuietInv, StartInv, ServedInv, Starting
<1>2. ASSUME NEW f \in Flows
      PROVE  /\ \A d, terms : ~SubmitForm(f, d, terms)
             /\ ~DeviceInfo(f) /\ ~Fail(f) /\ ~Confirm(f) /\ ~CreateEntry(f)
  BY <1>1 DEF SubmitForm, DeviceInfo, Fail, Confirm, CreateEntry
<1>3. ASSUME NEW h \in Handlers
      PROVE  /\ \A d : ~Accept(h, d)
             /\ ~SaveAgain(h) /\ ~Answer(h) /\ ~AnswerUnpair(h)
  BY <1>1 DEF Accept, SaveAgain, Answer, AnswerUnpair
<1>4. ~Unload
  BY <1>1 DEF Unload
<1>5. ASSUME NEW i \in Runtimes, Write(i)
      PROVE  hub.phase = "installing" /\ Write(1)
  BY <1>1, <1>5 DEF Write
<1>6. ASSUME \/ UNCHANGED vars \/ SaveEntries
             \/ \E request \in wire : DisplayPairs(request)
             \/ \E d \in Displays : StopListening(d)
      PROVE  UNCHANGED <<stores, unsaved, disk, wait, hub>>
  BY <1>6 DEF vars, SaveEntries, DisplayPairs, StopListening
<1> QED
  BY <1>2, <1>3, <1>4, <1>5, <1>6 DEF QuietNext

LEMMA StartFlows ==
    ASSUME Quietly, QuietNext, Starting'
    PROVE  /\ Starting \/ Restart
           /\ \A f \in Flows : flow'[f].pc \in {"new", "ended"}
           /\ \A h \in Handlers : handler'[h].pc = "idle"
<1> USE DEF store, subentries, network
<1>1. /\ Types /\ MadeInv
      /\ flow \in [Flows -> FlowType] /\ handler \in [Handlers -> HandlerType]
      /\ hub.made \in Nat
      /\ hub.phase = "running" => hub.runtime # 0
  BY DEF Quietly, Known, QuietInv, Types, Begun, HubType
<1>2. Starting \/ Restart
  <2>1. hub.made + 1 = 1 => hub.made = 0
    BY <1>1
  <2>2. CASE hub'.phase = "loading" /\ hub'.runtime = 0
    BY <1>1, <2>2, HubSteps DEF Starting
  <2>3. CASE hub'.phase = "loaded" /\ hub'.made = 0
    BY <1>1, <2>3, HubSteps DEF Starting, MadeInv
  <2>4. CASE hub'.phase = "installing" /\ hub'.made = 1
    <3>1. PICK made : made = hub.made + 1
      OBVIOUS
    <3> QED
      BY <1>1, <2>1, <2>4, <3>1, HubSteps DEF Starting
  <2> QED
    BY <2>2, <2>3, <2>4 DEF Starting
<1>3. CASE Restart
  BY <1>1, <1>3 DEF Restart, IdleHandler, FlowType
<1>4. CASE Starting
  <2>1. /\ hub.runtime = 0 /\ hub.phase # "running"
        /\ \A f \in Flows : flow[f].pc \in {"new", "ended"}
        /\ \A h \in Handlers : handler[h].pc = "idle"
    BY <1>4 DEF Quietly, QuietInv, StartInv, ServedInv, Starting
  <2>2. ASSUME NEW f \in Flows
        PROVE  /\ \A d, terms : ~SubmitForm(f, d, terms)
               /\ ~DeviceInfo(f) /\ ~Fail(f) /\ ~Confirm(f) /\ ~CreateEntry(f)
    BY <2>1 DEF SubmitForm, DeviceInfo, Fail, Confirm, CreateEntry
  <2>3. ASSUME NEW h \in Handlers
        PROVE  /\ \A d : ~Accept(h, d)
               /\ ~SaveAgain(h) /\ ~Answer(h) /\ ~AnswerUnpair(h)
    BY <2>1 DEF Accept, SaveAgain, Answer, AnswerUnpair
  <2>4. ASSUME \/ UNCHANGED vars \/ SaveEntries \/ \E i \in Runtimes : Write(i)
               \/ \E request \in wire : DisplayPairs(request)
               \/ \E d \in Displays : StopListening(d)
               \/ Unload \/ ReadDisk \/ SetUp \/ Install
        PROVE  flow' = flow /\ handler' = handler
    BY <2>4 DEF vars, SaveEntries, Write, DisplayPairs, StopListening, Unload,
                ReadDisk, SetUp, Install
  <2> QED
    BY <1>2, <1>3, <2>1, <2>2, <2>3, <2>4 DEF QuietNext
<1> QED
  BY <1>2, <1>3, <1>4

\* What the stores hold while Home Assistant starts.
StartStores ==
    /\ hub.phase = "loaded" => hub.read = disk
    /\ \A i \in Runtimes : hub.phase # "installing" \/ i # 1 =>
         stores[i] = EmptyStore /\ unsaved[i] = {}
    /\ hub.phase = "installing" =>
         /\ \A d \in Displays : stores[1].devices[d] # None => d \in Configured
         /\ unsaved[1] \subseteq {stores[1]}
         /\ wait[Setup] = 0 => disk = stores[1]

LEMMA StartStoresStep ==
    ASSUME Quietly, QuietNext, Starting', [Next]_vars
    PROVE  StartStores'
<1> USE DEF store, subentries, network
<1>1. /\ Types /\ StoreTypes /\ hub \in HubType
      /\ 1 \in Runtimes /\ Setup \in Callers
  BY RuntimeNumbers DEF Quietly, Known, Types, Callers
<1>2. Starting => StartStores
  BY DEF Quietly, QuietInv, StartInv, StartStores
<1>3. \A d \in Displays : entries[d] # None => entries'[d] # None \/ Restart
  BY <1>1, QuietEntries, NoneAssumption DEF Types
<1>4. CASE Restart
  BY <1>4 DEF Restart, StartStores
<1>5. ASSUME Starting, UNCHANGED <<stores, unsaved, disk, wait, hub>>,
             ~Restart
      PROVE  StartStores'
  BY <1>2, <1>3, <1>5 DEF StartStores, Configured
<1>6. ASSUME Starting, hub.phase = "installing", Write(1)
      PROVE  StartStores'
  <2>1. /\ UNCHANGED <<stores, hub, entries>> /\ disk' \in unsaved[1]
        /\ unsaved' = [unsaved EXCEPT ![1] = {}]
    BY <1>6 DEF Write
  <2>2. unsaved'[1] = {} /\ \A i \in Runtimes : i # 1 => unsaved'[i] = unsaved[i]
    BY <1>1, <2>1 DEF StoreTypes
  <2>3. disk' = stores[1]
    BY <1>2, <1>6, <2>1 DEF StartStores
  <2> QED
    BY <1>2, <1>6, <2>1, <2>2, <2>3 DEF StartStores, Configured
<1>7. ASSUME Starting, ReadDisk
      PROVE  StartStores'
  <2>1. /\ hub.phase = "loading" /\ hub'.phase = "loaded" /\ hub'.read = disk
        /\ UNCHANGED <<stores, unsaved, disk>>
    BY <1>1, <1>7 DEF ReadDisk, HubType
  <2> QED
    BY <1>2, <1>7, <2>1 DEF StartStores
<1>8. ASSUME Starting, SetUp
      PROVE  StartStores'
  <2> DEFINE i == hub.made + 1
             removed == {d \in Displays : hub.read.devices[d] # None}
                          \ Configured
  <2>1. /\ hub.phase = "loaded" /\ hub'.phase # "running"
        /\ hub.made = 0 /\ i = 1 /\ hub.read \in Store /\ entries' = entries
    BY <1>1, <1>8 DEF SetUp, Starting, HubType
  <2>2. /\ Save(1, Revoke(hub.read, removed), Setup)
        /\ hub' = [hub EXCEPT !.phase = "installing", !.made = i]
    <3>1. Running(i).phase = "running"
      BY <1>1 DEF Running, HubType
    <3> QED
      BY <1>8, <2>1, <3>1 DEF SetUp
  <2>3. /\ stores' = [stores EXCEPT ![1] = Revoke(hub.read, removed)]
        /\ unsaved' = [unsaved EXCEPT ![1] = {Revoke(hub.read, removed)}]
        /\ wait' = [wait EXCEPT ![Setup] = 1]
    BY <2>2 DEF Save
  <2>4. hub'.phase = "installing"
    BY <1>1, <2>2 DEF HubType
  <2>5. \A d \in Displays : Revoke(hub.read, removed).devices[d] # None =>
          d \in Configured'
    BY <2>1, RevokeKeys DEF Configured
  <2> HIDE DEF removed
  <2>6. /\ stores'[1] = Revoke(hub.read, removed)
        /\ unsaved'[1] = {Revoke(hub.read, removed)}
        /\ wait'[Setup] # 0
        /\ \A j \in Runtimes : j # 1 => /\ stores'[j] = stores[j]
                                        /\ unsaved'[j] = unsaved[j]
    BY <1>1, <2>3 DEF StoreTypes
  <2> QED
    BY <1>2, <1>8, <2>1, <2>4, <2>5, <2>6 DEF StartStores
<1>9. ~Install
  BY <1>1 DEF Install, Running, Starting, HubType
<1> QED
  BY <1>4, <1>5, <1>6, <1>7, <1>8, <1>9, StartFlows, StartingSteps

LEMMA StartStep ==
    ASSUME Quietly, QuietNext, [Next]_vars
    PROVE  StartInv'
BY StartFlows, StartStoresStep DEF StartInv, StartStores

\* When the first setup ends, the active keys are of displays with a subentry.
LEMMA SetUpLeaves ==
    ASSUME Quietly, Starting, ~Starting', SetUp \/ Install,
           NEW s \in Copies', NEW d \in Displays, s.devices[d] # None
    PROVE  d \in Configured
<1> USE DEF store, subentries, network
<1>1. /\ StoreTypes /\ hub \in HubType /\ 1 \in Runtimes
      /\ StartStores
  BY RuntimeNumbers
  DEF Quietly, Known, Types, QuietInv, StartInv, StartStores
<1>2. CASE SetUp
  <2> DEFINE i == hub.made + 1
             removed == {c \in Displays : hub.read.devices[c] # None}
                          \ Configured
  <2>1. hub.phase = "loaded" /\ hub.made = 0 /\ i = 1
    BY <1>1, <1>2 DEF SetUp, Starting, HubType
  <2>2. /\ removed = {} /\ stores' = [stores EXCEPT ![1] = hub.read]
        /\ hub' = Running(1) /\ UNCHANGED <<unsaved, disk>>
    <3>1. ~(hub' = [hub EXCEPT !.phase = "installing", !.made = i])
      <4>1. [hub EXCEPT !.phase = "installing", !.made = 1].phase = "installing"
            /\ [hub EXCEPT !.phase = "installing", !.made = 1].made = 1
        BY <1>1 DEF HubType
      <4> QED
        BY <2>1, <4>1 DEF Starting
    <3> QED
      BY <1>2, <2>1, <3>1 DEF SetUp
  <2>3. hub'.read = EmptyStore
    BY <1>1, <2>2 DEF Running, HubType
  <2>4. \A j \in Runtimes : /\ stores'[j] \in {EmptyStore, disk}
                            /\ unsaved'[j] = {}
    BY <1>1, <2>1, <2>2 DEF StoreTypes, StartStores
  <2>5. s \in {disk, EmptyStore}
    BY <2>2, <2>3, <2>4 DEF Copies
  <2>6. s = hub.read
    BY <1>1, <2>1, <2>5, EmptyKeys DEF StartStores
  <2> QED
    BY <2>2, <2>6
<1>3. CASE Install
  <2>1. /\ hub.phase = "installing" /\ hub.made = 1 /\ wait[Setup] = 0
        /\ hub' = Running(1) /\ UNCHANGED <<stores, unsaved, disk>>
    BY <1>3 DEF Install, Starting
  <2>2. hub'.read = EmptyStore
    BY <1>1, <2>1 DEF Running, HubType
  <2>3. \A j \in Runtimes : /\ stores[j] \in {EmptyStore, stores[1]}
                            /\ unsaved[j] \subseteq {stores[1]}
    BY <1>1 DEF StartStores
  <2>4. s \in {stores[1], EmptyStore}
    BY <1>1, <2>1, <2>2, <2>3 DEF Copies, StartStores
  <2> QED
    BY <1>1, <2>1, <2>4, EmptyKeys DEF StartStores
<1> QED
  BY <1>2, <1>3

LEMMA StartingEnds ==
    ASSUME Quietly, QuietNext, Starting, ~Starting'
    PROVE  SetUp \/ Install
<1>1. /\ MadeInv /\ hub \in HubType
  BY DEF Quietly, Known, QuietInv, Types
<1>2. CASE UNCHANGED hub
  BY <1>2 DEF Starting
<1>3. CASE ReadDisk
  BY <1>1, <1>3 DEF ReadDisk, Starting, MadeInv, HubType
<1>4. CASE Restart
  BY <1>4 DEF Restart, Starting
<1> QED
  BY <1>2, <1>3, <1>4, StartingSteps DEF Write

\* A confirmed display has no subentry and no key before: it is new, or all
\* its keys have been revoked.
LEMMA ConfirmFirst ==
    ASSUME Quietly, QuietNext, [Next]_vars, NEW f \in Flows, Confirm(f)
    PROVE  /\ entries[flow[f].display] = None
           /\ ~Starting
           /\ \A s \in Copies : s.devices[flow[f].display] = None
<1>1. PICK d \in Displays : d = flow[f].display
  BY QuietKeeps, ConfirmFacts DEF Quietly
<1>2. /\ flow[f].pc = "pair" /\ display[d].key = f
      /\ \E r \in replies : r.key = f /\ r.display = d
  BY <1>1, QuietKeeps, ConfirmFacts DEF Quietly
<1>3. entries[d] = None
  BY <1>2 DEF Quietly, Known, CalmInv, ShownInv
<1>4. ~Starting
  BY <1>2 DEF Quietly, QuietInv, StartInv
<1>5. ASSUME NEW s \in Copies, s.devices[d] # None PROVE FALSE
  <2>1. Saving(s.devices[d], d)
    BY <1>3, <1>4, <1>5 DEF Quietly, QuietInv, ActiveInv
  <2>2. s.devices[d] \in Flows
    BY <1>5, CopiesType DEF Quietly, Known, Store, Keys
  <2>3. s.devices[d] # f
    BY <1>2, <2>1 DEF Saving
  <2>4. f # None
    BY NoneAssumption
  <2> QED
    BY <1>2, <2>1, <2>2, <2>3, <2>4 DEF Quietly, Known, CalmInv, BoundInv
<1> QED
  BY <1>1, <1>3, <1>4, <1>5

\* An active key of a copy was active before, except the one just confirmed.
LEMMA ActiveBefore ==
    ASSUME Quietly, QuietNext, [Next]_vars,
           NEW s \in Copies', NEW d \in Displays, s.devices[d] # None
    PROVE  \/ \E t \in Copies : t.devices[d] = s.devices[d]
           \/ \E f \in Flows : /\ Confirm(f) /\ d = flow[f].display
                               /\ s.devices[d] = f
<1>1. Types /\ Copies \subseteq Store /\ hub.read \in Copies
  BY CopiesType DEF Quietly, Known
<1>2. s # EmptyStore
  BY EmptyKeys
<1>3. ASSUME NEW f \in Flows, Confirm(f),
             s = ActivateDevice(Current, flow[f].display, f)
      PROVE  \/ \E t \in Copies : t.devices[d] = s.devices[d]
             \/ d = flow[f].display /\ s.devices[d] = f
  BY <1>3, QuietKeeps, ConfirmFacts, ActivateKeys DEF Quietly
<1>4. ASSUME NEW S, s = Revoke(hub.read, S)
      PROVE  s.devices[d] = hub.read.devices[d]
  BY <1>1, <1>4, RevokeKeys
<1>5. ASSUME NEW e \in Displays, RemoveDevice(e), s = Revoke(Current, {e})
      PROVE  \E t \in Copies : t.devices[d] = s.devices[d]
  <2>1. Current \in Copies
    BY <1>1, <1>5, CopiesType, CurrentType DEF RemoveDevice, Current
  <2> QED
    BY <1>1, <1>5, <2>1, RevokeKeys
<1> QED
  BY <1>1, <1>2, <1>3, <1>4, <1>5, QuietKeeps, CopiesNow

\* A flow that was saved ends with its subentry, or in a restart.
LEMMA EndSteps ==
    ASSUME Types, QuietNext, NEW f \in Flows, flow[f].pc = "saving",
           flow'[f].pc = "ended"
    PROVE  Restart \/ CreateEntry(f)
<1> USE DEF store, subentries, network
<1>0. flow \in [Flows -> FlowType]
  BY DEF Types
<1>1. ASSUME NEW g \in Flows, NEW d, NEW terms,
             \/ SubmitForm(g, d, terms) \/ DeviceInfo(g) \/ Fail(g)
             \/ Confirm(g)
      PROVE  flow'[f] = flow[f]
  BY <1>0, <1>1 DEF SubmitForm, DeviceInfo, Fail, Confirm, FlowType
<1>2. ASSUME NEW g \in Flows, CreateEntry(g), g # f
      PROVE  flow'[f] = flow[f]
  BY <1>0, <1>2 DEF CreateEntry, FlowType
<1>3. ASSUME \/ UNCHANGED vars \/ SaveEntries \/ \E i \in Runtimes : Write(i)
             \/ \E request \in wire : DisplayPairs(request)
             \/ \E h \in Handlers :
                  \/ \E d \in Displays : Accept(h, d)
                  \/ SaveAgain(h) \/ Answer(h) \/ AnswerUnpair(h)
             \/ \E d \in Displays : StopListening(d)
             \/ Unload \/ ReadDisk \/ SetUp \/ Install
      PROVE  flow' = flow
  BY <1>3 DEF vars, SaveEntries, Write, DisplayPairs, Accept, SaveAgain,
              Answer, AnswerUnpair, StopListening, Unload, ReadDisk, SetUp,
              Install
<1> QED
  BY <1>1, <1>2, <1>3 DEF QuietNext

LEMMA ActiveStep ==
    ASSUME Quietly, QuietNext, [Next]_vars
    PROVE  ActiveInv'
<1> SUFFICES ASSUME NEW s \in Copies', NEW d \in Displays,
                    s.devices[d] # None, entries'[d] = None, ~Starting'
             PROVE  Saving(s.devices[d], d)'
  BY DEF ActiveInv
<1>1. PICK f : f = s.devices[d]
  OBVIOUS
<1>2. CASE \E g \in Flows : Confirm(g) /\ d = flow[g].display /\ f = g
  BY <1>1, <1>2, QuietKeeps, ConfirmFacts DEF Quietly, Saving
<1>3. ASSUME NEW t \in Copies, t.devices[d] = f
      PROVE  Saving(f, d)'
  <2>1. f \in Flows
    BY <1>1, <1>3, CopiesType DEF Quietly, Known, Store, Keys
  <2>2. ~Restart
    BY DEF Restart, Starting
  <2>3. /\ entries[d] = None
        /\ \A g \in Flows : CreateEntry(g) => ~Saving(g, d)
    <3>1. /\ entries \in [Displays -> Terms \cup {None}] /\ Types
          /\ \A g \in Flows : flow[g].pc = "saving" => flow[g].terms \in Terms
      BY DEF Quietly, Known, Types, Begun
    <3>2. entries[d] = None
      BY <2>2, <3>1, QuietEntries
    <3>3. ASSUME NEW g \in Flows, CreateEntry(g), Saving(g, d)
          PROVE  FALSE
      BY <3>1, <3>2, <3>3, NoneAssumption DEF CreateEntry, SetEntry, Saving
    <3> QED
      BY <3>2, <3>3
  <2>4. ~Starting
    <3>1. ASSUME Starting PROVE FALSE
      <4>1. d \in Configured
        BY <3>1, SetUpLeaves, StartingEnds
      <4> QED
        BY <2>3, <4>1 DEF Configured
    <3> QED
      BY <3>1
  <2>5. Saving(f, d)
    BY <1>1, <1>3, <2>3, <2>4 DEF Quietly, QuietInv, ActiveInv
  <2>6. flow'[f].pc = "saving"
    <3>1. flow'[f].pc = "ended" => Restart \/ CreateEntry(f)
      BY <2>1, <2>5, EndSteps DEF Quietly, Known, Saving
    <3>2. flow'[f].pc \in {"saving", "ended"}
      BY <2>1, <2>5, QuietKeeps, KeySteps DEF Quietly, Known, Saving
    <3> QED
      BY <2>1, <2>2, <2>3, <2>5, <3>1, <3>2
  <2> QED
    BY <2>1, <2>5, <2>6, QuietKeeps, KeySteps DEF Quietly, Known, Saving
<1> QED
  BY <1>1, <1>2, <1>3, ActiveBefore

LEMMA OneKeyStep ==
    ASSUME Quietly, QuietNext, [Next]_vars
    PROVE  OneKeyInv'
<1>1. OneKeyInv
  BY DEF Quietly, QuietInv
<1> SUFFICES ASSUME NEW s \in Copies', NEW t \in Copies', NEW d \in Displays,
                    s.devices[d] # None, t.devices[d] # None
             PROVE  s.devices[d] = t.devices[d]
  BY DEF OneKeyInv
<1>2. CASE \E f \in Flows : Confirm(f) /\ d = flow[f].display
  <2>1. PICK f \in Flows : Confirm(f) /\ d = flow[f].display
    BY <1>2
  <2>2. \A u \in Copies : u.devices[d] = None
    BY <2>1, ConfirmFirst
  <2>3. ASSUME NEW g \in Flows, Confirm(g), d = flow[g].display
        PROVE  g = f
    <3>1. display[d].key = g
      BY <2>3, QuietKeeps, ConfirmFacts DEF Quietly
    <3>2. display[d].key = f
      BY <2>1, QuietKeeps, ConfirmFacts DEF Quietly
    <3> QED
      BY <3>1, <3>2
  <2>4. s.devices[d] = f
    BY <2>2, <2>3, ActiveBefore
  <2>5. t.devices[d] = f
    BY <2>2, <2>3, ActiveBefore
  <2> QED
    BY <2>4, <2>5
<1>3. CASE ~\E f \in Flows : Confirm(f) /\ d = flow[f].display
  <2>1. PICK u \in Copies : u.devices[d] = s.devices[d]
    BY <1>3, ActiveBefore
  <2>2. PICK v \in Copies : v.devices[d] = t.devices[d]
    BY <1>3, ActiveBefore
  <2> QED
    BY <1>1, <2>1, <2>2 DEF OneKeyInv
<1> QED
  BY <1>2, <1>3

LEMMA KeysStep ==
    Types /\ OriginInv /\ ServedInv /\ TermsInv /\ KeysInv /\ [Next]_vars => KeysInv'
<1> SUFFICES ASSUME Types, OriginInv, ServedInv, TermsInv, KeysInv,
                    [Next]_vars, Quiet'
             PROVE  QuietInv'
  BY DEF KeysInv
<1>1. Quiet /\ Calm /\ Calm' /\ spent'.orders = 0
  BY SpentBefore DEF Quiet, Calm
<1>2. Quietly
  BY <1>1 DEF Quietly, Known, TermsInv, KeysInv
<1>3. CalmNext
  BY <1>1, <1>2, CalmSteps DEF Quietly, Known
<1>4. QuietNext
  BY <1>1, <1>2, <1>3, QuietSteps DEF Quietly, Known, CalmInv
<1> QED
  BY <1>2, <1>4, MadeStep, StartStep, ActiveStep, OneKeyStep DEF QuietInv

LEMMA KeysInit == Init => KeysInv
<1> SUFFICES ASSUME Init PROVE QuietInv
  BY DEF KeysInv
<1>1. hub.phase = "running" /\ hub.made # 0
  BY DEF Init
<1>2. MadeInv /\ StartInv
  BY <1>1 DEF MadeInv, StartInv, Starting
<1>3. ActiveInv /\ OneKeyInv
  BY CopiesInit, EmptyKeys DEF ActiveInv, OneKeyInv
<1> QED
  BY <1>2, <1>3 DEF QuietInv

\* A crash or a reload may leave any copy of the store: while the user resets,
\* removes and reloads nothing, no two of them, in memory, in the file or on
\* the way to it, ever have different keys of a display.
THEOREM CopiesAgree == Spec => []OneActiveKey
<1>1. Init => ServedInv
  <2>1. ASSUME Init PROVE Served(EmptyStore, Pairing) /\ Current = EmptyStore
    BY <2>1, RuntimeNumbers DEF Init, Served, EmptyStore, NoKeys, Current
  <2> QED
    BY <2>1 DEF Init, ServedInv
<1>2. KeysInv => OneActiveKey
  BY DEF KeysInv, QuietInv, OneKeyInv, OneActiveKey, Quiet
<1> QED
  BY TypesInit, TypesStep, OriginInit, OriginStep, ServedStep, TermsInit,
     TermsStep, KeysInit, KeysStep, <1>1, <1>2, PTL DEF Spec
=============================================================================
