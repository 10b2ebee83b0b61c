-------------------------- MODULE LifecycleProofs --------------------------
(***************************************************************************)
(* Type correctness of Lifecycle, and its safety properties: the Hub never *)
(* holds a key its display has not stored, serves no display that has no   *)
(* subentry, and shows the terms a display works with.                     *)
(***************************************************************************)
EXTENDS Lifecycle, TLAPS

HubType == [phase : {"running", "loading", "loaded", "installing",
                     "removing", "removed"},
            runtime : 0 .. MaxRuntimes, made : 0 .. MaxRuntimes,
            reloads : Nat, read : Store, unseen : SUBSET Displays]
FlowType == [pc : {"new", "form", "info", "pair", "saving", "ended"},
             display : Displays \cup {None}, terms : Terms \cup {None}]
HandlerType == [pc : {"idle", "nonce", "process", "deliver"},
                display : Displays \cup {None}, runtime : 0 .. MaxRuntimes,
                key : Keys, revoked : BOOLEAN]
DisplayType == [key : Keys, terms : Terms \cup {None}, listening : BOOLEAN]

StoreTypes ==
    /\ stores \in [Runtimes -> Store] /\ disk \in Store
    /\ unsaved \in [Runtimes -> SUBSET Store]
    /\ wait \in [Callers -> 0 .. MaxRuntimes]

\* A phase, a flow and a check-in that have begun name what they work with.
Begun ==
    /\ hub.phase = "running" => hub.runtime # 0
    /\ hub.phase = "installing" => hub.made # 0
    /\ \A f \in Flows : flow[f].pc # "new" =>
         flow[f].display \in Displays /\ flow[f].terms \in Terms
    /\ \A h \in Handlers : handler[h].pc # "idle" =>
         handler[h].runtime \in Runtimes /\ handler[h].display \in Displays
    /\ \A d \in Displays : display[d].key # None => display[d].terms \in Terms

Types ==
    /\ StoreTypes
    /\ entries \in [Displays -> Terms \cup {None}]
    /\ kept \in [Displays -> Terms \cup {None}]
    /\ hub \in HubType
    /\ flow \in [Flows -> FlowType]
    /\ removing \subseteq Displays
    /\ handler \in [Handlers -> HandlerType]
    /\ display \in [Displays -> DisplayType]
    /\ wire \subseteq Request /\ replies \subseteq Request
    /\ committed \subseteq Displays \X Flows
    /\ spent \in [restarts : Nat, orders : Nat, resets : Nat]
    /\ Begun

-----------------------------------------------------------------------------
LEMMA RuntimeNumbers ==
    /\ MaxRuntimes \in Nat /\ MaxRuntimes # 0 /\ 1 \in Runtimes
    /\ Runtimes \subseteq 0 .. MaxRuntimes
    /\ \A i \in 0 .. MaxRuntimes : i # 0 => i \in Runtimes
BY BoundAssumption DEF Runtimes

LEMMA EmptyStoreType == EmptyStore \in Store /\ NoKeys \in [Displays -> Keys]
BY DEF EmptyStore, NoKeys, Store, Keys

LEMMA RevokeType ==
    ASSUME NEW s \in Store, NEW S
    PROVE  Revoke(s, S) \in Store
BY DEF Revoke, Store, Keys

LEMMA ActivateType ==
    ASSUME NEW s \in Store, NEW d \in Displays, NEW key \in Keys
    PROVE  ActivateDevice(s, d, key) \in Store
BY DEF ActivateDevice, Store, Keys

LEMMA CurrentType ==
    ASSUME Types, hub.runtime # 0
    PROVE  hub.runtime \in Runtimes /\ Current \in Store
<1>1. hub.runtime \in Runtimes
  BY RuntimeNumbers DEF Types, HubType
<1> QED BY <1>1 DEF Types, StoreTypes, Current

\* A save keeps the types of the store.
LEMMA SaveType ==
    ASSUME StoreTypes, NEW i \in Runtimes, NEW s \in Store,
           NEW c \in Callers, Save(i, s, c)
    PROVE  StoreTypes'
BY RuntimeNumbers DEF StoreTypes, Save

LEMMA SetEntryType ==
    ASSUME Types, NEW d \in Displays, NEW terms \in Terms \cup {None},
           SetEntry(d, terms)
    PROVE  /\ entries' \in [Displays -> Terms \cup {None}]
           /\ hub' \in HubType
           /\ hub'.phase = hub.phase /\ hub'.runtime = hub.runtime
           /\ hub'.made = hub.made /\ hub'.read = hub.read
<1>1. hub.reloads + 1 \in Nat
  BY DEF Types, HubType
<1> QED BY <1>1 DEF Types, SetEntry, HubType

LEMMA RunningType ==
    ASSUME Types, NEW i \in Runtimes
    PROVE  /\ Running(i) \in HubType
           /\ Running(i).phase = "running" /\ Running(i).runtime = i
           /\ Running(i).read = EmptyStore
<1>1. i \in 0 .. MaxRuntimes
  BY RuntimeNumbers
<1> QED BY <1>1, EmptyStoreType DEF Types, Running, HubType

-----------------------------------------------------------------------------
LEMMA TypesInit == Init => Types
<1> SUFFICES ASSUME Init PROVE Types
  OBVIOUS
<1> USE RuntimeNumbers, EmptyStoreType
<1>1. StoreTypes
  BY DEF Init, StoreTypes
<1>2. hub \in HubType
  BY DEF Init, HubType
<1>3. flow \in [Flows -> FlowType] /\ handler \in [Handlers -> HandlerType]
  BY DEF Init, NewFlow, FlowType, IdleHandler, HandlerType, Keys
<1>4. display \in [Displays -> DisplayType]
  BY DEF Init, Unpaired, DisplayType, Keys
<1>5. spent \in [restarts : Nat, orders : Nat, resets : Nat]
  BY DEF Init
<1>6. Begun
  BY DEF Init, Begun, NewFlow, IdleHandler, Unpaired
<1>7. /\ entries \in [Displays -> Terms \cup {None}] /\ kept = entries
      /\ removing = {} /\ wire = {} /\ replies = {} /\ committed = {}
  BY DEF Init
<1> QED BY <1>1, <1>2, <1>3, <1>4, <1>5, <1>6, <1>7 DEF Types

\* What a step of one flow does to the flows.
LEMMA FlowType1 ==
    ASSUME Types, NEW f \in Flows, NEW d \in Displays, NEW terms \in Terms,
           NEW pc \in {"form", "info", "pair", "saving", "ended"},
           flow' = [flow EXCEPT ![f] = [pc |-> pc, display |-> d,
                                        terms |-> terms]]
    PROVE  /\ flow' \in [Flows -> FlowType]
           /\ \A g \in Flows : flow'[g].pc # "new" =>
                flow'[g].display \in Displays /\ flow'[g].terms \in Terms
<1>1. [pc |-> pc, display |-> d, terms |-> terms] \in FlowType
  BY DEF FlowType
<1> QED BY <1>1 DEF Types, Begun

LEMMA FlowType2 ==
    ASSUME Types, NEW f \in Flows, flow[f].pc # "new",
           NEW pc \in {"form", "info", "pair", "saving", "ended"},
           flow' = [flow EXCEPT ![f].pc = pc]
    PROVE  /\ flow' \in [Flows -> FlowType]
           /\ \A g \in Flows : flow'[g].pc # "new" =>
                flow'[g].display \in Displays /\ flow'[g].terms \in Terms
<1>1. /\ flow \in [Flows -> FlowType] /\ flow[f].display \in Displays
      /\ flow[f].terms \in Terms
  BY DEF Types, Begun
<1>2. flow' \in [Flows -> FlowType]
  BY <1>1 DEF FlowType
<1>3. \A g \in Flows : /\ g # f => flow'[g] = flow[g]
                       /\ flow'[g].display = flow[g].display
                       /\ flow'[g].terms = flow[g].terms
  BY <1>1 DEF FlowType
<1> QED BY <1>1, <1>2, <1>3 DEF Types, Begun

LEMMA TypesFlow ==
    ASSUME Types, NEW f \in Flows, NEW d \in Displays, NEW terms \in Terms,
           \/ SubmitForm(f, d, terms) \/ DeviceInfo(f) \/ Fail(f)
           \/ Confirm(f) \/ CreateEntry(f)
    PROVE  Types'
<1> USE DEF store, subentries, network
<1>0. flow[f].pc # "new" => flow[f].display \in Displays
                              /\ flow[f].terms \in Terms
  BY DEF Types, Begun
<1>1. CASE SubmitForm(f, d, terms)
  BY <1>1, FlowType1 DEF SubmitForm, Types, StoreTypes, Begun
<1>2. CASE DeviceInfo(f)
  <2>1. [key |-> f, display |-> flow[f].display, terms |-> flow[f].terms]
          \in Request
    BY <1>0, <1>2 DEF DeviceInfo, Request
  <2>2. wire' \subseteq Request
    BY <2>1, <1>2 DEF DeviceInfo, Types
  <2> QED BY <1>2, <2>2, FlowType2 DEF DeviceInfo, Types, StoreTypes, Begun
<1>3. CASE Fail(f)
  BY <1>3, FlowType2 DEF Fail, Types, StoreTypes, Begun
<1>4. CASE Confirm(f)
  <2>1. flow[f].display \in Displays
    BY <1>0, <1>4 DEF Confirm
  <2>2. StoreTypes'
    BY <1>4, <2>1, CurrentType, ActivateType, SaveType
    DEF Confirm, Types, Callers, Keys
  <2> QED BY <1>4, <2>2, FlowType2 DEF Confirm, Types, Begun
<1>5. CASE CreateEntry(f)
  <2>1. flow[f].display \in Displays /\ flow[f].terms \in Terms
    BY <1>0, <1>5 DEF CreateEntry
  <2>2. (IF entries[flow[f].display] = None
         THEN flow[f].terms ELSE entries[flow[f].display])
          \in Terms \cup {None}
    BY <2>1 DEF Types
  <2>3. /\ entries' \in [Displays -> Terms \cup {None}] /\ hub' \in HubType
        /\ hub'.phase = hub.phase /\ hub'.runtime = hub.runtime
        /\ hub'.made = hub.made
    BY <1>5, <2>1, <2>2, SetEntryType DEF CreateEntry
  <2> QED BY <1>5, <2>3, FlowType2 DEF CreateEntry, Types, StoreTypes, Begun
<1> QED BY <1>1, <1>2, <1>3, <1>4, <1>5

LEMMA TypesDisplay ==
    ASSUME Types, NEW request \in wire, DisplayPairs(request)
    PROVE  Types'
<1> USE DEF store, subentries, network
<1> DEFINE e == request.display
           now == IF display[e].key = None
                  THEN [display[e] EXCEPT !.key = request.key,
                                          !.terms = request.terms]
                  ELSE display[e]
<1>1. /\ e \in Displays /\ request.key \in Flows /\ request.terms \in Terms
      /\ display[e] \in DisplayType
      /\ display[e].key # None => display[e].terms \in Terms
  BY DEF Types, Begun, Request
<1>2. now \in DisplayType /\ now.key \in Flows /\ now.terms \in Terms
  BY <1>1 DEF DisplayType, Keys
<1>3. display' = [display EXCEPT ![e] = now]
  BY DEF DisplayPairs
<1>4. committed' = committed \cup {<<e, now.key>>}
  BY DEF DisplayPairs
<1>5. \/ replies' = replies
      \/ /\ now.key = request.key /\ flow[request.key].terms = request.terms
         /\ replies' = replies \cup {[key |-> now.key, display |-> e,
                                      terms |-> now.terms]}
  BY DEF DisplayPairs
<1>6. UNCHANGED <<stores, unsaved, disk, wait, entries, kept, hub, flow,
                  removing, handler, spent>> /\ wire' = wire \ {request}
  BY DEF DisplayPairs
<1> HIDE DEF e, now
<1>7. replies' \subseteq Request
  BY <1>1, <1>2, <1>5 DEF Types, Request
<1>8. committed' \subseteq Displays \X Flows
  BY <1>1, <1>2, <1>4 DEF Types
<1>9. /\ display' \in [Displays -> DisplayType]
      /\ \A c \in Displays : display'[c].key # None =>
           display'[c].terms \in Terms
  BY <1>1, <1>2, <1>3 DEF Types, Begun
<1> QED BY <1>6, <1>7, <1>8, <1>9 DEF Types, StoreTypes, Begun

LEMMA TypesReset ==
    ASSUME Types, NEW d \in Displays, StopListening(d) \/ Reset(d)
    PROVE  Types'
<1> USE DEF store, subentries, network
<1>0. Unpaired \in DisplayType
  BY DEF Unpaired, DisplayType, Keys
<1>1. CASE StopListening(d)
  <2>1. /\ display' \in [Displays -> DisplayType]
        /\ \A c \in Displays : /\ display'[c].key = display[c].key
                               /\ display'[c].terms = display[c].terms
    BY <1>1 DEF StopListening, Types, DisplayType
  <2> QED BY <1>1, <2>1 DEF StopListening, Types, StoreTypes, Begun
<1>2. CASE Reset(d)
  <2>0. \A c \in Displays : display'[c].key # None =>
          display'[c].terms \in Terms
    BY <1>2 DEF Reset, Unpair, Unpaired, Types, Begun
  <2>1. spent' \in [restarts : Nat, orders : Nat, resets : Nat]
    BY <1>2 DEF Reset, Types
  <2> QED BY <1>0, <1>2, <2>0, <2>1
          DEF Reset, Unpair, Types, StoreTypes, Begun
<1> QED BY <1>1, <1>2

\* What a step of one check-in does to the check-ins.
LEMMA HandlerType1 ==
    ASSUME Types, NEW h \in Handlers, NEW new \in HandlerType,
           new.pc # "idle" => new.runtime \in Runtimes
                              /\ new.display \in Displays,
           handler' = [handler EXCEPT ![h] = new]
    PROVE  /\ handler' \in [Handlers -> HandlerType]
           /\ \A g \in Handlers : handler'[g].pc # "idle" =>
                handler'[g].runtime \in Runtimes
                /\ handler'[g].display \in Displays
BY DEF Types, Begun

LEMMA TypesHandler ==
    ASSUME Types, NEW h \in Handlers, NEW d \in Displays,
           \/ Accept(h, d) \/ SaveAgain(h) \/ Answer(h) \/ AnswerUnpair(h)
    PROVE  Types'
<1> USE DEF store, subentries, network
<1>0. IdleHandler \in HandlerType /\ IdleHandler.pc = "idle"
  BY RuntimeNumbers DEF IdleHandler, HandlerType, Keys
<1>1. CASE Accept(h, d)
  <2> DEFINE new == [pc |-> "nonce", display |-> d, runtime |-> hub.runtime,
                     key |-> display[d].key,
                     revoked |-> Current.devices[d] = None
                                 /\ Current.revoked[d] = display[d].key]
  <2>1. hub.runtime \in Runtimes /\ Current \in Store
    BY <1>1, CurrentType DEF Accept, Types, Begun
  <2>2. display[d].key \in Keys /\ hub.runtime \in 0 .. MaxRuntimes
    BY <2>1, RuntimeNumbers DEF Types, DisplayType
  <2>3. /\ new \in HandlerType /\ new.runtime \in Runtimes
        /\ new.display \in Displays
    BY <2>1, <2>2 DEF HandlerType
  <2>4. handler' = [handler EXCEPT ![h] = new]
    BY <1>1 DEF Accept
  <2>5. StoreTypes'
    BY <1>1, <2>1, SaveType DEF Accept, Types, Callers
  <2> HIDE DEF new
  <2> QED BY <1>1, <2>3, <2>4, <2>5, HandlerType1 DEF Accept, Types, Begun
<1>2. CASE SaveAgain(h)
  <2>1. PICK next \in {<<"nonce", "process">>, <<"process", "deliver">>} :
          /\ handler[h].pc = next[1]
          /\ handler' = [handler EXCEPT ![h].pc = next[2]]
    BY <1>2 DEF SaveAgain
  <2>2. handler[h] \in HandlerType /\ handler[h].runtime \in Runtimes
        /\ handler[h].display \in Displays
    BY <2>1 DEF Types, Begun
  <2>3. [handler[h] EXCEPT !.pc = next[2]] \in HandlerType
    BY <2>2 DEF HandlerType
  <2>4. /\ [handler[h] EXCEPT !.pc = next[2]].runtime \in Runtimes
        /\ [handler[h] EXCEPT !.pc = next[2]].display \in Displays
    BY <2>2 DEF HandlerType
  <2>5. StoreTypes'
    BY <1>2, <2>2, SaveType DEF SaveAgain, Types, StoreTypes, Callers
  <2> QED BY <1>2, <2>1, <2>3, <2>4, <2>5, HandlerType1
          DEF SaveAgain, Types, Begun
<1>3. CASE Answer(h)
  BY <1>0, <1>3, HandlerType1 DEF Answer, Types, StoreTypes, Begun
<1>4. CASE AnswerUnpair(h)
  <2> DEFINE e == handler[h].display
  <2>0. /\ Unpaired \in DisplayType /\ Unpaired.key = None
        /\ \/ display' = [display EXCEPT ![e] = Unpaired]
           \/ display' = display
    BY <1>4 DEF AnswerUnpair, Unpair, Unpaired, DisplayType, Keys
  <2> HIDE DEF e
  <2>1. /\ display' \in [Displays -> DisplayType]
        /\ \A c \in Displays : display'[c].key # None =>
             display'[c].terms \in Terms
    BY <2>0 DEF Types, Begun
  <2>2. wire' \subseteq Request
    BY <1>4 DEF AnswerUnpair, Unpair, Types
  <2> QED BY <1>0, <1>4, <2>1, <2>2, HandlerType1
          DEF AnswerUnpair, Types, StoreTypes, Begun
<1> QED BY <1>1, <1>2, <1>3, <1>4

LEMMA TypesRemoval ==
    ASSUME Types, NEW d \in Displays,
           RemoveDevice(d) \/ FinishRemoval(d) \/ DeleteSubentry(d)
    PROVE  Types'
<1> USE DEF store, subentries, network
<1>1. SetEntry(d, None) =>
        /\ entries' \in [Displays -> Terms \cup {None}] /\ hub' \in HubType
        /\ hub'.phase = hub.phase /\ hub'.runtime = hub.runtime
        /\ hub'.made = hub.made
  BY SetEntryType
<1>2. spent.orders + 1 \in Nat
  BY DEF Types
<1>3. CASE RemoveDevice(d)
  <2>1. spent' \in [restarts : Nat, orders : Nat, resets : Nat]
    BY <1>2, <1>3 DEF RemoveDevice, Types
  <2>2. CASE Current.devices[d] # None
    <3>1. /\ Save(hub.runtime, Revoke(Current, {d}), d)
          /\ removing' = removing \cup {d}
          /\ UNCHANGED <<entries, hub, kept, flow, handler, network>>
      BY <1>3, <2>2 DEF RemoveDevice
    <3>2. hub.runtime \in Runtimes /\ Current \in Store
      BY <1>3, CurrentType DEF RemoveDevice
    <3>3. StoreTypes'
      <4>1. Revoke(Current, {d}) \in Store
        BY <3>2, RevokeType
      <4>2. d \in Callers /\ StoreTypes
        BY DEF Types, Callers
      <4> QED BY <3>1, <3>2, <4>1, <4>2, SaveType
    <3>4. removing' \subseteq Displays
      BY <3>1 DEF Types
    <3> QED BY <2>1, <3>1, <3>3, <3>4 DEF Types, Begun
  <2>3. CASE Current.devices[d] = None
    <3>1. /\ SetEntry(d, None)
          /\ UNCHANGED <<store, removing, kept, flow, handler, network>>
      BY <1>3, <2>3 DEF RemoveDevice
    <3> QED BY <1>1, <2>1, <3>1 DEF Types, StoreTypes, Begun
  <2> QED BY <2>2, <2>3
<1>4. CASE FinishRemoval(d)
  BY <1>1, <1>4 DEF FinishRemoval, Types, StoreTypes, Begun
<1>5. CASE DeleteSubentry(d)
  <2>1. spent' \in [restarts : Nat, orders : Nat, resets : Nat]
    BY <1>2, <1>5 DEF DeleteSubentry, Types
  <2> QED BY <1>1, <1>5, <2>1 DEF DeleteSubentry, Types, StoreTypes, Begun
<1> QED BY <1>3, <1>4, <1>5

LEMMA TypesWrite ==
    ASSUME Types, NEW i \in Runtimes, Write(i)
    PROVE  Types'
<1> USE DEF subentries, network
<1>1. disk' \in Store
  BY DEF Write, Types, StoreTypes
<1>2. unsaved' \in [Runtimes -> SUBSET Store]
  BY DEF Write, Types, StoreTypes
<1>3. wait' \in [Callers -> 0 .. MaxRuntimes]
  BY RuntimeNumbers DEF Write, Types, StoreTypes
<1>4. StoreTypes'
  BY <1>1, <1>2, <1>3 DEF Write, Types, StoreTypes
<1> QED BY <1>4 DEF Write, Types, Begun

LEMMA TypesSetUp ==
    ASSUME Types, Unload \/ ReadDisk \/ SetUp \/ Install
    PROVE  Types'
<1> USE DEF store, subentries, network
<1>1. CASE Unload
  <2>1. /\ hub' \in HubType /\ hub'.phase = "loading"
    <3>1. CASE hub' = [hub EXCEPT !.phase = "loading"]
      BY <3>1 DEF Types, HubType
    <3>2. CASE /\ hub.reloads > 0
               /\ hub' = [hub EXCEPT !.phase = "loading", !.reloads = @ - 1]
      <4>1. hub.reloads - 1 \in Nat
        BY <3>2 DEF Types, HubType
      <4> QED BY <3>2, <4>1 DEF Types, HubType
    <3> QED BY <1>1, <3>1, <3>2 DEF Unload
  <2>2. spent' \in [restarts : Nat, orders : Nat, resets : Nat]
    <3>1. spent.orders + 1 \in Nat
      BY DEF Types
    <3> QED BY <1>1, <3>1 DEF Unload, Types
  <2> QED BY <1>1, <2>1, <2>2 DEF Unload, Types, StoreTypes, Begun
<1>2. CASE ReadDisk
  <2>1. /\ hub' \in HubType /\ hub'.phase = "loaded"
    <3>1. hub \in HubType /\ disk \in Store /\ 0 \in 0 .. MaxRuntimes
      BY RuntimeNumbers DEF Types, StoreTypes
    <3> QED BY <1>2, <3>1 DEF ReadDisk, HubType
  <2> QED BY <1>2, <2>1 DEF ReadDisk, Types, StoreTypes, Begun
<1>3. CASE SetUp
  <2> DEFINE i == hub.made + 1
             removed == {d \in Displays : hub.read.devices[d] # None}
                          \ Configured
  <2>1. i \in Runtimes /\ hub.read \in Store
    BY <1>3, RuntimeNumbers DEF SetUp, Types, HubType, Runtimes
  <2>2. CASE /\ stores' = [stores EXCEPT ![i] = hub.read]
             /\ hub' = Running(i) /\ UNCHANGED <<unsaved, disk, wait>>
    <3>1. StoreTypes'
      BY <2>1, <2>2 DEF Types, StoreTypes
    <3>2. hub' \in HubType /\ hub'.phase = "running" /\ hub'.runtime # 0
      BY <2>1, <2>2, RunningType, RuntimeNumbers DEF Runtimes
    <3> QED BY <1>3, <3>1, <3>2 DEF SetUp, Types, Begun
  <2>3. CASE /\ Save(i, Revoke(hub.read, removed), Setup)
             /\ hub' = [hub EXCEPT !.phase = "installing", !.made = i]
    <3>1. Revoke(hub.read, removed) \in Store /\ Setup \in Callers
      BY <2>1, RevokeType DEF Callers
    <3>2. StoreTypes'
      BY <2>1, <2>3, <3>1, SaveType DEF Types
    <3>3. i \in 0 .. MaxRuntimes /\ i # 0
      BY <2>1, RuntimeNumbers DEF Runtimes
    <3> HIDE DEF i
    <3>4. hub' \in HubType /\ hub'.phase = "installing" /\ hub'.made # 0
      BY <2>3, <3>3 DEF Types, HubType
    <3> QED BY <1>3, <3>2, <3>4 DEF SetUp, Types, Begun
  <2> QED BY <1>3, <2>2, <2>3 DEF SetUp
<1>4. CASE Install
  <2>1. hub.made \in Runtimes
    BY <1>4, RuntimeNumbers DEF Install, Types, Begun, HubType
  <2>2. hub' \in HubType /\ hub'.phase = "running" /\ hub'.runtime # 0
    BY <1>4, <2>1, RunningType, RuntimeNumbers DEF Install, Runtimes
  <2> QED BY <1>4, <2>2 DEF Install, Types, StoreTypes, Begun
<1> QED BY <1>1, <1>2, <1>3, <1>4

LEMMA TypesHub ==
    ASSUME Types, RemoveHub \/ FinishRemoveHub \/ Restart \/ SaveEntries
    PROVE  Types'
<1> USE DEF store, subentries, network
<1>0. spent.orders + 1 \in Nat /\ spent.restarts + 1 \in Nat
  BY DEF Types
<1>1. CASE RemoveHub
  <2> DEFINE i == hub.made + 1
  <2>1. i \in Runtimes /\ i \in 0 .. MaxRuntimes
    BY <1>1, RuntimeNumbers DEF RemoveHub, Types, HubType, Runtimes
  <2>2. StoreTypes'
    BY <1>1, <2>1, EmptyStoreType, SaveType DEF RemoveHub, Types, Callers
  <2>3. hub' = [hub EXCEPT !.phase = "removing", !.made = i,
                           !.runtime = 0, !.reloads = 0]
    BY <1>1 DEF RemoveHub
  <2> HIDE DEF i
  <2>4. hub' \in HubType /\ hub'.phase = "removing"
    <3>1. hub \in HubType /\ 0 \in 0 .. MaxRuntimes
      BY RuntimeNumbers DEF Types
    <3>2. hub' = [phase |-> "removing", runtime |-> 0, made |-> i,
                  reloads |-> 0, read |-> hub.read, unseen |-> hub.unseen]
      BY <2>3, <3>1 DEF HubType
    <3> QED BY <2>1, <3>1, <3>2 DEF HubType
  <2>5. spent' \in [restarts : Nat, orders : Nat, resets : Nat]
    BY <1>0, <1>1 DEF RemoveHub, Types
  <2> QED BY <1>1, <2>2, <2>4, <2>5 DEF RemoveHub, Types, Begun
<1>2. CASE FinishRemoveHub
  <2>1. hub' \in HubType /\ hub'.phase = "removed"
    BY <1>2 DEF FinishRemoveHub, Types, HubType
  <2>2. /\ entries' \in [Displays -> Terms \cup {None}]
        /\ kept' \in [Displays -> Terms \cup {None}]
    BY <1>2 DEF FinishRemoveHub
  <2> QED BY <1>2, <2>1, <2>2 DEF FinishRemoveHub, Types, StoreTypes, Begun
<1>3. CASE Restart
  <2>1. StoreTypes'
    BY <1>3, EmptyStoreType, RuntimeNumbers DEF Restart, Types, StoreTypes
  <2>2. hub' \in HubType /\ hub'.phase = "loading"
    BY <1>3, EmptyStoreType, RuntimeNumbers DEF Restart, HubType
  <2>3. /\ flow' \in [Flows -> FlowType]
        /\ \A f \in Flows : flow'[f].pc # "new" =>
             flow'[f].display \in Displays /\ flow'[f].terms \in Terms
    <3>1. ASSUME NEW f \in Flows
          PROVE  /\ flow'[f] \in FlowType
                 /\ flow'[f].pc # "new" => flow'[f].display \in Displays
                                           /\ flow'[f].terms \in Terms
      <4>1. flow[f] \in FlowType /\ (flow[f].pc # "new" =>
              flow[f].display \in Displays /\ flow[f].terms \in Terms)
        BY DEF Types, Begun
      <4>2. flow'[f] = IF flow[f].pc = "new" THEN flow[f]
                       ELSE [flow[f] EXCEPT !.pc = "ended"]
        BY <1>3 DEF Restart
      <4> QED BY <4>1, <4>2 DEF FlowType
    <3>2. flow' = [f \in Flows |-> flow'[f]]
      BY <1>3 DEF Restart
    <3> QED BY <3>1, <3>2
  <2>4. /\ handler' \in [Handlers -> HandlerType]
        /\ \A h \in Handlers : handler'[h].pc = "idle"
    BY <1>3, RuntimeNumbers
    DEF Restart, IdleHandler, HandlerType, Keys
  <2>5. spent' \in [restarts : Nat, orders : Nat, resets : Nat]
    BY <1>0, <1>3 DEF Restart, Types
  <2> QED BY <1>3, <2>1, <2>2, <2>3, <2>4, <2>5 DEF Restart, Types, Begun
<1>4. CASE SaveEntries
  BY <1>4 DEF SaveEntries, Types, StoreTypes, Begun
<1> QED BY <1>1, <1>2, <1>3, <1>4

LEMMA TypesStep == Types /\ [Next]_vars => Types'
<1> SUFFICES ASSUME Types, [Next]_vars PROVE Types'
  OBVIOUS
<1>1. CASE UNCHANGED vars
  BY <1>1 DEF vars, Types, StoreTypes, Begun
<1>2. CASE Next
  <2>1. CASE \E i \in Runtimes : Write(i)
    BY <2>1, TypesWrite
  <2>2. CASE \E f \in Flows :
               \/ \E d \in Displays, terms \in Terms : SubmitForm(f, d, terms)
               \/ DeviceInfo(f) \/ Fail(f) \/ Confirm(f) \/ CreateEntry(f)
    <3>1. PICK f \in Flows :
            \/ \E d \in Displays, terms \in Terms : SubmitForm(f, d, terms)
            \/ DeviceInfo(f) \/ Fail(f) \/ Confirm(f) \/ CreateEntry(f)
      BY <2>2
    <3>2. \E d \in Displays : \E terms \in Terms : TRUE
      BY <3>1 DEF DeviceInfo, Fail, Confirm, CreateEntry, Types, Begun
    <3> QED BY <3>1, <3>2, TypesFlow
  <2>3. CASE \E request \in wire : DisplayPairs(request)
    <3>1. PICK request \in wire : DisplayPairs(request)
      BY <2>3
    <3>2. request.display \in Displays
      BY DEF Types, Request
    <3> QED BY <3>1, <3>2, TypesDisplay
  <2>4. CASE \E h \in Handlers :
               \/ \E d \in Displays : Accept(h, d)
               \/ SaveAgain(h) \/ Answer(h) \/ AnswerUnpair(h)
    <3>1. PICK h \in Handlers :
            \/ \E d \in Displays : Accept(h, d)
            \/ SaveAgain(h) \/ Answer(h) \/ AnswerUnpair(h)
      BY <2>4
    <3>2. \E d \in Displays : TRUE
      BY <3>1 DEF SaveAgain, Answer, AnswerUnpair, Types, Begun
    <3> QED BY <3>1, <3>2, TypesHandler
  <2>5. CASE \E d \in Displays :
               \/ StopListening(d) \/ Reset(d)
               \/ RemoveDevice(d) \/ FinishRemoval(d) \/ DeleteSubentry(d)
    BY <2>5, TypesReset, TypesRemoval
  <2> QED BY <1>2, <2>1, <2>2, <2>3, <2>4, <2>5, TypesSetUp, TypesHub
          DEF Next
<1> QED BY <1>1, <1>2

\* Every variable has its type in every reachable state.
THEOREM TypeCorrect == Spec => []TypeOK
<1>1. Types => TypeOK
  BY DEF Types, StoreTypes, TypeOK, HubType, FlowType, HandlerType,
         DisplayType
<1> QED BY TypesInit, TypesStep, <1>1, PTL DEF Spec

-----------------------------------------------------------------------------
(***************************************************************************)
(* No store holds a key its display has not stored.  The invariant adds to *)
(* the property what Confirm relies on: an acknowledgement on a connection *)
(* comes from a display that stored the key.                               *)
(***************************************************************************)
\* The display of every active key of s is in keys, with that key.
StoredIn(s, keys) ==
    \A d \in Displays : s.devices[d] # None => <<d, s.devices[d]>> \in keys

StoresBacked ==
    /\ StoredIn(disk, committed)
    /\ \A i \in Runtimes : /\ StoredIn(stores[i], committed)
                           /\ \A s \in unsaved[i] : StoredIn(s, committed)

RepliesBacked == \A r \in replies : <<r.display, r.key>> \in committed

KeyInv == StoresBacked /\ StoredIn(hub.read, committed) /\ RepliesBacked

LEMMA EmptyStoredIn == ASSUME NEW keys PROVE StoredIn(EmptyStore, keys)
BY DEF StoredIn, EmptyStore, NoKeys

\* Revoking makes no key active.
LEMMA RevokeStoredIn ==
    ASSUME NEW s \in Store, NEW S, NEW keys, StoredIn(s, keys)
    PROVE  StoredIn(Revoke(s, S), keys)
BY DEF StoredIn, Revoke, Store

LEMMA ActivateStoredIn ==
    ASSUME NEW s \in Store, NEW d \in Displays, NEW key \in Keys, NEW keys,
           StoredIn(s, keys), <<d, key>> \in keys
    PROVE  StoredIn(ActivateDevice(s, d, key), keys)
BY DEF StoredIn, ActivateDevice, Store

\* What a save adds to the copies is the store it was given.
LEMMA SaveBacked ==
    ASSUME StoreTypes, StoresBacked, NEW i \in Runtimes, NEW s, NEW c,
           StoredIn(s, committed), Save(i, s, c), UNCHANGED committed
    PROVE  StoresBacked'
BY DEF StoreTypes, StoresBacked, StoredIn, Save

\* Steps that leave the stores and the file as they are.
LEMMA StoresSame ==
    ASSUME StoresBacked, UNCHANGED <<stores, unsaved, disk, committed>>
    PROVE  StoresBacked'
BY DEF StoresBacked, StoredIn

LEMMA SetEntryRead ==
    ASSUME Types, NEW d, NEW terms, SetEntry(d, terms)
    PROVE  hub'.read = hub.read
BY DEF SetEntry, Types, HubType

LEMMA KeyFlow ==
    ASSUME Types, KeyInv, NEW f \in Flows, NEW d, NEW terms,
           \/ SubmitForm(f, d, terms) \/ DeviceInfo(f) \/ Fail(f)
           \/ Confirm(f) \/ CreateEntry(f)
    PROVE  KeyInv'
<1> USE DEF store, subentries, network
<1>1. CASE SubmitForm(f, d, terms) \/ DeviceInfo(f) \/ Fail(f)
  <2>1. /\ UNCHANGED <<stores, unsaved, disk, hub, committed>>
        /\ replies' \subseteq replies
    BY <1>1 DEF SubmitForm, DeviceInfo, Fail
  <2> QED BY <2>1, StoresSame DEF KeyInv, RepliesBacked, StoredIn
<1>2. CASE Confirm(f)
  <2> DEFINE e == flow[f].display
  <2>1. /\ [key |-> f, display |-> e, terms |-> flow[f].terms] \in replies
        /\ replies' \subseteq replies /\ UNCHANGED <<hub, committed>>
        /\ Save(hub.runtime, ActivateDevice(Current, e, f), f)
        /\ hub.runtime # 0 /\ flow[f].pc = "pair"
    BY <1>2 DEF Confirm
  <2>2. <<e, f>> \in committed
    BY <2>1 DEF KeyInv, RepliesBacked
  <2>3. e \in Displays /\ f \in Keys
    BY <2>1 DEF Types, Begun, Keys
  <2>4. hub.runtime \in Runtimes /\ Current \in Store
    BY <2>1, CurrentType
  <2>5. StoredIn(Current, committed)
    BY <2>4 DEF KeyInv, StoresBacked, Current
  <2>6. StoredIn(ActivateDevice(Current, e, f), committed)
    BY <2>2, <2>3, <2>4, <2>5, ActivateStoredIn
  <2>7. StoresBacked'
    BY <2>1, <2>4, <2>6, SaveBacked DEF KeyInv, Types
  <2> QED BY <2>1, <2>7 DEF KeyInv, RepliesBacked, StoredIn
<1>3. CASE CreateEntry(f)
  <2>1. /\ UNCHANGED <<stores, unsaved, disk, committed, replies>>
        /\ hub'.read = hub.read
    BY <1>3, SetEntryRead DEF CreateEntry
  <2> QED BY <2>1, StoresSame DEF KeyInv, RepliesBacked, StoredIn
<1> QED BY <1>1, <1>2, <1>3

LEMMA KeyDisplay ==
    ASSUME Types, KeyInv, NEW request \in wire, DisplayPairs(request)
    PROVE  KeyInv'
<1> DEFINE e == request.display
           now == IF display[e].key = None
                  THEN [display[e] EXCEPT !.key = request.key,
                                          !.terms = request.terms]
                  ELSE display[e]
<1>1. /\ committed' = committed \cup {<<e, now.key>>}
      /\ UNCHANGED <<stores, unsaved, disk, hub>>
      /\ replies' \subseteq
           replies \cup {[key |-> now.key, display |-> e, terms |-> now.terms]}
  BY DEF DisplayPairs, store
<1> HIDE DEF e, now
<1>2. RepliesBacked'
  <2>1. ASSUME NEW r \in replies' PROVE <<r.display, r.key>> \in committed'
    <3>1. CASE r \in replies
      BY <1>1, <3>1 DEF KeyInv, RepliesBacked
    <3>2. CASE r = [key |-> now.key, display |-> e, terms |-> now.terms]
      BY <1>1, <3>2
    <3> QED BY <1>1, <3>1, <3>2
  <2> QED BY <2>1 DEF RepliesBacked
<1>3. \A s : StoredIn(s, committed) => StoredIn(s, committed')
  BY <1>1 DEF StoredIn
<1>4. StoresBacked'
  BY <1>1, <1>3 DEF KeyInv, StoresBacked, StoredIn
<1>5. StoredIn(hub.read, committed)'
  BY <1>1, <1>3 DEF KeyInv, StoredIn
<1> QED BY <1>2, <1>4, <1>5 DEF KeyInv

LEMMA KeyHandler ==
    ASSUME Types, KeyInv, NEW h \in Handlers, NEW d,
           \/ Accept(h, d) \/ SaveAgain(h) \/ Answer(h) \/ AnswerUnpair(h)
    PROVE  KeyInv'
<1> USE DEF store, subentries, network
<1>0. UNCHANGED <<hub, replies, committed>>
  BY DEF Accept, SaveAgain, Answer, AnswerUnpair
<1>1. CASE Accept(h, d) \/ SaveAgain(h)
  <2>1. PICK i \in Runtimes : Save(i, stores[i], h)
    <3>1. CASE Accept(h, d)
      BY <3>1, CurrentType DEF Accept, Current, Types, Begun
    <3>2. CASE SaveAgain(h)
      BY <3>2 DEF SaveAgain, Types, Begun
    <3> QED BY <1>1, <3>1, <3>2
  <2>2. StoredIn(stores[i], committed)
    BY DEF KeyInv, StoresBacked
  <2>3. StoresBacked'
    BY <1>0, <2>1, <2>2, SaveBacked DEF KeyInv, Types
  <2> QED BY <1>0, <2>3 DEF KeyInv, RepliesBacked, StoredIn
<1>2. CASE Answer(h) \/ AnswerUnpair(h)
  BY <1>0, <1>2, StoresSame
  DEF Answer, AnswerUnpair, KeyInv, RepliesBacked, StoredIn
<1> QED BY <1>1, <1>2

LEMMA KeyRemoval ==
    ASSUME Types, KeyInv, NEW d \in Displays,
           \/ StopListening(d) \/ Reset(d)
           \/ RemoveDevice(d) \/ FinishRemoval(d) \/ DeleteSubentry(d)
    PROVE  KeyInv'
<1> USE DEF store, subentries, network
<1>0. /\ UNCHANGED <<replies, committed>> /\ hub'.read = hub.read
  BY SetEntryRead
  DEF StopListening, Reset, RemoveDevice, FinishRemoval, DeleteSubentry
<1>1. CASE UNCHANGED <<stores, unsaved, disk>>
  BY <1>0, <1>1, StoresSame DEF KeyInv, RepliesBacked, StoredIn
<1>2. CASE Save(hub.runtime, Revoke(Current, {d}), d) /\ hub.runtime # 0
  <2>1. hub.runtime \in Runtimes /\ Current \in Store
    BY <1>2, CurrentType
  <2>2. StoredIn(Current, committed)
    BY <2>1 DEF KeyInv, StoresBacked, Current
  <2>3. StoresBacked'
    BY <1>0, <1>2, <2>1, <2>2, RevokeStoredIn, SaveBacked DEF KeyInv, Types
  <2> QED BY <1>0, <2>3 DEF KeyInv, RepliesBacked, StoredIn
<1> QED BY <1>1, <1>2
        DEF StopListening, Reset, RemoveDevice, FinishRemoval, DeleteSubentry

LEMMA KeySetUp ==
    ASSUME Types, KeyInv, Unload \/ ReadDisk \/ SetUp \/ Install
    PROVE  KeyInv'
<1> USE DEF store, subentries, network
<1>0. UNCHANGED <<disk, replies, committed>>
  BY DEF Unload, ReadDisk, SetUp, Install, Save
<1>1. RepliesBacked'
  BY <1>0 DEF KeyInv, RepliesBacked
<1>2. CASE Unload \/ ReadDisk \/ Install
  <2>1. StoresBacked'
    BY <1>0, <1>2, StoresSame DEF Unload, ReadDisk, Install, KeyInv
  <2>2. hub'.read \in {hub.read, disk, EmptyStore}
    BY <1>2 DEF Unload, ReadDisk, Install, Running, Types, HubType
  <2>3. StoredIn(hub'.read, committed)
    BY <2>2, EmptyStoredIn DEF KeyInv, StoresBacked
  <2> QED BY <1>0, <1>1, <2>1, <2>3 DEF KeyInv, StoredIn
<1>3. CASE SetUp
  <2> DEFINE i == hub.made + 1
             removed == {d \in Displays : hub.read.devices[d] # None}
                          \ Configured
  <2>1. i \in Runtimes /\ hub.read \in Store
    BY <1>3, RuntimeNumbers DEF SetUp, Types, HubType, Runtimes
  <2>2. hub'.read \in {hub.read, EmptyStore}
    BY <1>3 DEF SetUp, Running, Types, HubType
  <2>3. StoredIn(hub'.read, committed)
    BY <2>2, EmptyStoredIn DEF KeyInv
  <2>4. StoresBacked'
    <3>1. CASE stores' = [stores EXCEPT ![i] = hub.read]
               /\ UNCHANGED <<unsaved, disk>>
      BY <1>0, <2>1, <3>1 DEF KeyInv, Types, StoreTypes, StoresBacked, StoredIn
    <3>2. CASE Save(i, Revoke(hub.read, removed), Setup)
      <4>1. StoredIn(Revoke(hub.read, removed), committed)
        BY <2>1, RevokeStoredIn DEF KeyInv
      <4> QED BY <1>0, <2>1, <3>2, <4>1, SaveBacked DEF KeyInv, Types
    <3> QED BY <1>3, <3>1, <3>2 DEF SetUp
  <2> QED BY <1>0, <1>1, <2>3, <2>4 DEF KeyInv, StoredIn
<1> QED BY <1>2, <1>3

LEMMA KeyHub ==
    ASSUME Types, KeyInv,
           RemoveHub \/ FinishRemoveHub \/ Restart \/ SaveEntries
    PROVE  KeyInv'
<1> USE DEF store, subentries, network
<1>0. /\ replies' \subseteq replies /\ UNCHANGED committed
  BY DEF RemoveHub, FinishRemoveHub, Restart, SaveEntries
<1>1. RepliesBacked'
  BY <1>0 DEF KeyInv, RepliesBacked
<1>2. hub'.read \in {hub.read, EmptyStore}
  <2>1. hub \in HubType
    BY DEF Types
  <2>2. CASE RemoveHub
    BY <2>1, <2>2 DEF RemoveHub, HubType
  <2>3. CASE FinishRemoveHub \/ Restart \/ SaveEntries
    BY <2>1, <2>3 DEF FinishRemoveHub, Restart, SaveEntries, HubType
  <2> QED BY <2>2, <2>3
<1>3. StoredIn(hub'.read, committed)
  BY <1>2, EmptyStoredIn DEF KeyInv
<1>4. StoresBacked'
  <2>1. CASE RemoveHub
    <3>1. hub.made + 1 \in Runtimes
      BY <2>1, RuntimeNumbers DEF RemoveHub, Types, HubType, Runtimes
    <3> QED BY <1>0, <2>1, <3>1, EmptyStoredIn, SaveBacked
            DEF RemoveHub, KeyInv, Types
  <2>2. CASE FinishRemoveHub \/ SaveEntries
    BY <2>2, StoresSame DEF FinishRemoveHub, SaveEntries, KeyInv
  <2>3. CASE Restart
    BY <2>3, EmptyStoredIn DEF Restart, KeyInv, StoresBacked, StoredIn
  <2> QED BY <2>1, <2>2, <2>3
<1> QED BY <1>0, <1>1, <1>3, <1>4 DEF KeyInv, StoredIn

LEMMA KeyStep == Types /\ KeyInv /\ [Next]_vars => KeyInv'
<1> SUFFICES ASSUME Types, KeyInv, [Next]_vars PROVE KeyInv'
  OBVIOUS
<1>1. CASE UNCHANGED vars
  BY <1>1, StoresSame DEF vars, KeyInv, RepliesBacked, StoredIn
<1>2. CASE Next
  <2>1. ASSUME NEW i \in Runtimes, Write(i) PROVE KeyInv'
    <3>1. /\ UNCHANGED <<stores, hub, replies, committed>>
          /\ disk' \in unsaved[i]
          /\ unsaved' = [unsaved EXCEPT ![i] = {}]
      BY <2>1 DEF Write, network
    <3>2. StoresBacked'
      BY <3>1 DEF KeyInv, Types, StoreTypes, StoresBacked, StoredIn
    <3> QED BY <3>1, <3>2 DEF KeyInv, RepliesBacked, StoredIn
  <2> QED BY <1>2, <2>1, KeyFlow, KeyDisplay, KeyHandler, KeyRemoval,
             KeySetUp, KeyHub DEF Next
<1> QED BY <1>1, <1>2

\* PROTOCOL.md, "The proof confirms receipt of the key": for any number of
\* displays, flows, check-ins and runtimes, with any loss, delay, retry,
\* reload and restart, no store holds a key as active that its display has
\* not stored.
THEOREM KeysWereStored == Spec => []ActiveKeyWasStored
<1>1. Init => KeyInv
  <2>1. StoredIn(EmptyStore, committed)
    BY EmptyStoredIn
  <2> QED BY <2>1 DEF Init, KeyInv, StoresBacked, RepliesBacked
<1>2. Types /\ KeyInv => ActiveKeyWasStored
  BY DEF Types, StoreTypes, KeyInv, StoresBacked, StoredIn, ActiveKeyWasStored,
         Copies
<1> QED BY TypesInit, TypesStep, KeyStep, <1>1, <1>2, PTL DEF Spec
-----------------------------------------------------------------------------
(***************************************************************************)
(* A display without a subentry is not served.  Every setup establishes    *)
(* it; while the Hub runs, a key becomes active in a flow that will add    *)
(* the subentry, and a subentry that goes asks for a reload, which makes   *)
(* the next setup look again.                                              *)
(***************************************************************************)
Pairing == {flow[f].display : f \in {g \in Flows : flow[g].pc = "saving"}}

\* Active keys of s are of displays with a subentry, or of those in also.
Served(s, also) ==
    \A d \in Displays : s.devices[d] # None =>
      d \in Configured \cup hub.unseen \cup also

ServedInv ==
    /\ hub.phase \in {"loaded", "installing"} => hub.runtime = 0
    /\ hub.phase = "running" /\ hub.reloads = 0 => Served(Current, Pairing)
    /\ hub.phase = "installing" => Served(stores[hub.made], {})

\* Steps that concern neither the stores nor the subentries.
LEMMA ServedSame ==
    ASSUME ServedInv, UNCHANGED <<stores, entries, hub>>, Pairing \subseteq Pairing'
    PROVE  ServedInv'
BY DEF ServedInv, Served, Configured, Current

\* A subentry is added, or goes while the Hub watches.
LEMMA ServedSetEntry ==
    ASSUME Types, ServedInv, NEW d \in Displays, NEW terms \in Terms \cup {None},
           SetEntry(d, terms), stores' = stores,
           Pairing \ (IF terms = None THEN {} ELSE {d}) \subseteq Pairing'
    PROVE  ServedInv'
<1>1. /\ entries' = [entries EXCEPT ![d] = terms]
      /\ entries \in [Displays -> Terms \cup {None}] /\ hub \in HubType
  BY DEF SetEntry, Types
<1>2. CASE terms = entries[d]
  <2>1. hub' = hub /\ entries' = entries
    BY <1>1, <1>2 DEF SetEntry
  <2>2. Pairing \subseteq Pairing' \cup Configured
    BY <1>1, <1>2 DEF Configured
  <2> QED
    BY <2>1, <2>2 DEF ServedInv, Served, Configured, Current
<1>3. CASE terms # entries[d] /\ hub.phase = "running"
  <2>1. hub'.phase = "running" /\ hub'.reloads # 0
    <3>1. hub.reloads + 1 # 0
      BY <1>1 DEF HubType
    <3> QED
      BY <1>1, <1>3, <3>1 DEF SetEntry, HubType
  <2> QED
    BY <2>1 DEF ServedInv
<1>4. CASE terms # entries[d] /\ hub.phase = "installing"
  <2>1. /\ hub'.phase = "installing" /\ hub'.runtime = hub.runtime
        /\ hub'.made = hub.made /\ hub'.unseen = hub.unseen \cup {d}
    BY <1>1, <1>4 DEF SetEntry, HubType
  <2>2. Configured \subseteq Configured' \cup {d}
    BY <1>1 DEF Configured
  <2> QED
    BY <1>4, <2>1, <2>2 DEF ServedInv, Served
<1>5. CASE terms # entries[d] /\ hub.phase \notin {"running", "installing"}
  BY <1>1, <1>5 DEF SetEntry, ServedInv
<1> QED
  BY <1>2, <1>3, <1>4, <1>5

LEMMA ServedFlow ==
    ASSUME Types, ServedInv, NEW f \in Flows, NEW d, NEW terms,
           \/ SubmitForm(f, d, terms) \/ DeviceInfo(f) \/ Fail(f)
           \/ Confirm(f) \/ CreateEntry(f)
    PROVE  ServedInv'
<1> USE DEF store, subentries, network
<1>1. CASE SubmitForm(f, d, terms) \/ DeviceInfo(f) \/ Fail(f)
  <2>1. /\ UNCHANGED <<stores, entries, hub>> /\ flow[f].pc # "saving"
        /\ \A g \in Flows : g # f => flow'[g] = flow[g]
    BY <1>1 DEF SubmitForm, DeviceInfo, Fail, Types
  <2>2. Pairing \subseteq Pairing'
    BY <2>1 DEF Pairing
  <2> QED
    BY <2>1, <2>2, ServedSame
<1>2. CASE Confirm(f)
  <2> DEFINE e == flow[f].display
  <2>1. /\ hub' = hub /\ entries' = entries /\ hub.runtime # 0
        /\ flow' = [flow EXCEPT ![f].pc = "saving"]
        /\ stores' = [stores EXCEPT ![hub.runtime] =
                        ActivateDevice(Current, e, f)]
    BY <1>2 DEF Confirm, Save
  <2>2. hub.runtime \in Runtimes /\ Current \in Store /\ e \in Displays
    BY <1>2, <2>1, CurrentType DEF Confirm, Types, Begun
  <2>3. Current' = ActivateDevice(Current, e, f)
    BY <2>1, <2>2 DEF Current, Types, StoreTypes
  <2>4. e \in Pairing' /\ Pairing \subseteq Pairing'
    <3>1. /\ flow'[f].pc = "saving" /\ flow'[f].display = e
          /\ \A g \in Flows : g # f => flow'[g] = flow[g]
      BY <2>1 DEF Types, FlowType
    <3> QED
      BY <1>2, <3>1 DEF Pairing, Confirm
  <2>5. \A c \in Displays : Current'.devices[c] # None =>
          Current.devices[c] # None \/ c = e
    BY <2>2, <2>3 DEF ActivateDevice, Store
  <2>6. hub.phase \notin {"loaded", "installing"}
    BY <2>1 DEF ServedInv
  <2> HIDE DEF e
  <2> QED
    BY <2>1, <2>4, <2>5, <2>6 DEF ServedInv, Served, Configured
<1>3. CASE CreateEntry(f)
  <2> DEFINE e == flow[f].display
             new == IF entries[e] = None THEN flow[f].terms ELSE entries[e]
  <2>1. /\ stores' = stores /\ SetEntry(e, new)
        /\ flow[f].pc = "saving" /\ flow' = [flow EXCEPT ![f].pc = "ended"]
    BY <1>3 DEF CreateEntry
  <2>2. e \in Displays /\ new \in Terms /\ new # None
    <3>1. e \in Displays /\ flow[f].terms \in Terms
      BY <2>1 DEF Types, Begun
    <3> QED
      BY <3>1, NoneAssumption DEF Types
  <2>3. Pairing \ {e} \subseteq Pairing'
    <3>1. \A g \in Flows : g # f => flow'[g] = flow[g]
      BY <2>1 DEF Types
    <3> QED
      BY <3>1 DEF Pairing
  <2> HIDE DEF e, new
  <2> QED
    BY <2>1, <2>2, <2>3, ServedSetEntry
<1> QED
  BY <1>1, <1>2, <1>3

LEMMA ServedHandler ==
    ASSUME Types, ServedInv, NEW h \in Handlers, NEW d,
           \/ Accept(h, d) \/ SaveAgain(h) \/ Answer(h) \/ AnswerUnpair(h)
    PROVE  ServedInv'
<1> USE DEF store, subentries, network
<1>1. UNCHANGED <<entries, hub, flow>>
  BY DEF Accept, SaveAgain, Answer, AnswerUnpair
<1>2. stores' = stores
  <2>1. CASE Accept(h, d)
    BY <2>1, CurrentType DEF Accept, Save, Current, Types, StoreTypes, Begun
  <2>2. CASE SaveAgain(h)
    BY <2>2 DEF SaveAgain, Save, Types, StoreTypes, Begun
  <2>3. CASE Answer(h) \/ AnswerUnpair(h)
    BY <2>3 DEF Answer, AnswerUnpair
  <2> QED
    BY <2>1, <2>2, <2>3
<1> QED
  BY <1>1, <1>2, ServedSame DEF Pairing

LEMMA ServedRemoval ==
    ASSUME Types, ServedInv, NEW d \in Displays,
           RemoveDevice(d) \/ FinishRemoval(d) \/ DeleteSubentry(d)
    PROVE  ServedInv'
<1> USE DEF store, subentries, network
<1>1. flow' = flow
  BY DEF RemoveDevice, FinishRemoval, DeleteSubentry
<1>2. CASE SetEntry(d, None) /\ stores' = stores
  BY <1>1, <1>2, ServedSetEntry DEF Pairing
<1>3. CASE /\ Save(hub.runtime, Revoke(Current, {d}), d)
           /\ hub.runtime # 0 /\ UNCHANGED <<entries, hub>>
  <2>1. hub.runtime \in Runtimes /\ Current \in Store
    BY <1>3, CurrentType
  <2>2. Current' = Revoke(Current, {d})
    BY <1>3, <2>1 DEF Save, Current, Types, StoreTypes
  <2>3. \A c \in Displays : Current'.devices[c] # None =>
          Current.devices[c] # None
    BY <2>1, <2>2 DEF Revoke, Store
  <2>4. hub.phase \notin {"loaded", "installing"}
    BY <1>3 DEF ServedInv
  <2> QED
    BY <1>1, <1>3, <2>3, <2>4 DEF ServedInv, Served, Configured, Pairing
<1> QED
  BY <1>2, <1>3 DEF RemoveDevice, FinishRemoval, DeleteSubentry

LEMMA ServedSetUp ==
    ASSUME Types, ServedInv, Unload \/ ReadDisk \/ SetUp \/ Install
    PROVE  ServedInv'
<1> USE DEF store, subentries, network
<1>0. hub \in HubType
  BY DEF Types
<1>1. CASE Unload
  BY <1>0, <1>1 DEF Unload, ServedInv, HubType
<1>2. CASE ReadDisk
  BY <1>0, <1>2 DEF ReadDisk, ServedInv, HubType
<1>3. CASE SetUp
  <2> DEFINE i == hub.made + 1
             removed == {d \in Displays : hub.read.devices[d] # None}
                          \ Configured
  <2>1. /\ i \in Runtimes /\ hub.read \in Store /\ hub.phase = "loaded"
        /\ entries' = entries /\ stores \in [Runtimes -> Store]
    BY <1>3, RuntimeNumbers
    DEF SetUp, Types, StoreTypes, HubType, Runtimes
  <2>2. CASE /\ removed = {} /\ stores' = [stores EXCEPT ![i] = hub.read]
             /\ hub' = Running(i)
    <3>1. Current' = hub.read /\ hub'.phase = "running"
      BY <2>1, <2>2 DEF Current, Running, HubType, Types
    <3>2. \A d \in Displays : hub.read.devices[d] # None => d \in Configured'
      BY <2>1, <2>2 DEF Configured
    <3> QED
      BY <3>1, <3>2 DEF ServedInv, Served
  <2>3. CASE /\ stores' = [stores EXCEPT ![i] = Revoke(hub.read, removed)]
             /\ hub' = [hub EXCEPT !.phase = "installing", !.made = i]
    <3>1. /\ hub'.phase = "installing" /\ hub'.runtime = hub.runtime
          /\ stores'[hub'.made] = Revoke(hub.read, removed)
      BY <1>0, <2>1, <2>3 DEF HubType
    <3>2. \A d \in Displays : Revoke(hub.read, removed).devices[d] # None =>
            d \in Configured'
      BY <2>1 DEF Revoke, Store, Configured
    <3> HIDE DEF i, removed
    <3> QED
      BY <2>1, <3>1, <3>2 DEF ServedInv, Served
  <2> QED
    BY <1>3, <2>2, <2>3 DEF SetUp, Save
<1>4. CASE Install
  <2>1. /\ hub' = Running(hub.made) /\ hub.phase = "installing"
        /\ UNCHANGED <<stores, entries>>
    BY <1>4 DEF Install
  <2>2. /\ hub'.phase = "running" /\ hub'.runtime = hub.made
        /\ hub'.unseen = hub.unseen
    BY <1>0, <2>1 DEF Running, HubType
  <2> QED
    BY <2>1, <2>2 DEF ServedInv, Served, Current, Configured
<1> QED
  BY <1>1, <1>2, <1>3, <1>4

LEMMA ServedStep == Types /\ ServedInv /\ [Next]_vars => ServedInv'
<1> SUFFICES ASSUME Types, ServedInv, [Next]_vars PROVE ServedInv'
  OBVIOUS
<1> USE DEF store, subentries, network
<1>1. CASE \/ UNCHANGED vars \/ SaveEntries
           \/ \E i \in Runtimes : Write(i)
           \/ \E request \in wire : DisplayPairs(request)
           \/ \E d \in Displays : StopListening(d) \/ Reset(d)
  <2>1. UNCHANGED <<stores, entries, hub, flow>>
    BY <1>1 DEF vars, SaveEntries, Write, DisplayPairs, StopListening, Reset
  <2> QED
    BY <2>1, ServedSame DEF Pairing
<1>2. CASE RemoveHub \/ FinishRemoveHub \/ Restart
  <2>1. CASE RemoveHub \/ FinishRemoveHub
    <3>1. hub'.phase \in {"removing", "removed"}
      BY <2>1 DEF RemoveHub, FinishRemoveHub, Types, HubType
    <3> QED
      BY <3>1 DEF ServedInv
  <2>2. CASE Restart
    <3>1. hub'.phase = "loading"
      BY <2>2 DEF Restart
    <3> QED
      BY <3>1 DEF ServedInv
  <2> QED
    BY <1>2, <2>1, <2>2
<1> QED
  BY <1>1, <1>2, ServedFlow, ServedHandler, ServedRemoval, ServedSetUp
  DEF Next

\* PROTOCOL.md, "Removing one display Subentry removes its entities and active
\* configuration": whatever removals, pairings, check-ins, reloads and restarts overlap, at rest no
\* display is served that has no subentry, except one whose subentry went
\* between the look of a setup and its end.
THEOREM RemovedAreNotServed == Spec => []RemovedIsNotServed
<1>1. Init => ServedInv
  <2>1. ASSUME Init PROVE Served(EmptyStore, Pairing) /\ Current = EmptyStore
    BY <2>1, RuntimeNumbers DEF Init, Served, EmptyStore, NoKeys, Current
  <2> QED
    BY <2>1 DEF Init, ServedInv
<1>2. ServedInv => RemovedIsNotServed
  BY DEF ServedInv, Served, Pairing, RemovedIsNotServed, Settled
<1> QED
  BY TypesInit, TypesStep, ServedStep, <1>1, <1>2, PTL DEF Spec
-----------------------------------------------------------------------------
(***************************************************************************)
(* The terms of a subentry are those its display has stored.  A flow that  *)
(* was confirmed with its terms has nothing left on the way to the display *)
(* that the display would still store: either it works with these terms,   *)
(* or it has been unpaired since, and refuses what was sent to it before.  *)
(***************************************************************************)
Agreed(f, d, terms) ==
    /\ <<d, f>> \in committed
    /\ display[d].key = f => display[d].terms = terms
    /\ display[d].key # f => \A r \in wire : ~(r.key = f /\ r.display = d)

\* Some flow was confirmed with these terms.
Origin(d, terms) ==
    \E f \in Flows : flow[f].pc \in {"saving", "ended"} /\ Agreed(f, d, terms)

OriginInv ==
    /\ \A r \in replies :
         flow[r.key].pc = "pair" /\ Agreed(r.key, r.display, r.terms)
    /\ \A f \in Flows : flow[f].pc = "saving" =>
         Agreed(f, flow[f].display, flow[f].terms)
    /\ \A d \in Displays : /\ entries[d] # None => Origin(d, entries[d])
                           /\ kept[d] # None => Origin(d, kept[d])

\* What a step does to displays and requests.
LEMMA NetworkSteps ==
    ASSUME Types, [Next]_vars
    PROVE  \/ UNCHANGED <<display, wire, committed>>
           \/ \E g \in Flows : DeviceInfo(g)
           \/ \E request \in wire : DisplayPairs(request)
           \/ \E d \in Displays : StopListening(d)
           \/ \E d : Unpair(d) /\ UNCHANGED committed
<1> USE DEF store, subentries, network
<1>1. CASE UNCHANGED vars
  BY <1>1 DEF vars
<1>2. CASE \E i \in Runtimes : Write(i)
  BY <1>2 DEF Write
<1>3. ASSUME NEW f \in Flows, NEW d, NEW terms,
             SubmitForm(f, d, terms) \/ Fail(f) \/ Confirm(f) \/ CreateEntry(f)
      PROVE  UNCHANGED <<display, wire, committed>>
  BY <1>3 DEF SubmitForm, Fail, Confirm, CreateEntry
<1>4. ASSUME NEW h \in Handlers, NEW d,
             Accept(h, d) \/ SaveAgain(h) \/ Answer(h) \/ AnswerUnpair(h)
      PROVE  \/ UNCHANGED <<display, wire, committed>>
             \/ \E e : Unpair(e) /\ UNCHANGED committed
  BY <1>4 DEF Accept, SaveAgain, Answer, AnswerUnpair
<1>5. ASSUME NEW d,
             RemoveDevice(d) \/ FinishRemoval(d) \/ DeleteSubentry(d)
      PROVE  UNCHANGED <<display, wire, committed>>
  BY <1>5 DEF RemoveDevice, FinishRemoval, DeleteSubentry
<1>6. ASSUME NEW d, Reset(d) PROVE Unpair(d) /\ UNCHANGED committed
  BY <1>6 DEF Reset
<1>7. CASE \/ Unload \/ ReadDisk \/ SetUp \/ Install
           \/ RemoveHub \/ FinishRemoveHub \/ Restart \/ SaveEntries
  BY <1>7 DEF Unload, ReadDisk, SetUp, Install, RemoveHub, FinishRemoveHub,
              Restart, SaveEntries
<1> QED
  BY <1>1, <1>2, <1>3, <1>4, <1>5, <1>6, <1>7 DEF Next

\* A confirmed flow stays so: it does not send again.
LEMMA AgreedKept ==
    ASSUME Types, [Next]_vars, NEW f \in Flows, NEW d \in Displays, NEW terms,
           flow[f].pc # "info", Agreed(f, d, terms)
    PROVE  Agreed(f, d, terms)'
<1>0. f # None /\ display \in [Displays -> DisplayType]
  BY NoneAssumption DEF Types
<1>1. CASE UNCHANGED <<display, wire, committed>>
  BY <1>1 DEF Agreed
<1>2. ASSUME NEW g \in Flows, DeviceInfo(g) PROVE Agreed(f, d, terms)'
  <2>1. /\ UNCHANGED <<display, committed>> /\ g # f
        /\ \A r \in wire' : r \in wire \/ r.key = g
    BY <1>2 DEF DeviceInfo
  <2> QED
    BY <2>1 DEF Agreed
<1>3. ASSUME NEW request \in wire, DisplayPairs(request)
      PROVE  Agreed(f, d, terms)'
  <2> DEFINE e == request.display
             now == IF display[e].key = None
                    THEN [display[e] EXCEPT !.key = request.key,
                                            !.terms = request.terms]
                    ELSE display[e]
  <2>1. /\ display' = [display EXCEPT ![e] = now]
        /\ wire' \subseteq wire /\ committed \subseteq committed'
    BY <1>3 DEF DisplayPairs
  <2>2. e \in Displays /\ display[e] \in DisplayType
    BY DEF Types, Request
  <2>3. display'[e] = now /\ (e # d => display'[d] = display[d])
    BY <1>0, <2>1, <2>2
  <2>4. CASE e = d /\ display[e].key = None
    <3>1. display'[d].key = request.key
      BY <2>2, <2>3, <2>4 DEF DisplayType
    <3>2. request.key # f
      BY <1>0, <2>4 DEF Agreed
    <3> QED
      BY <1>0, <2>1, <2>4, <3>1, <3>2 DEF Agreed
  <2>5. CASE e # d \/ display[e].key # None
    <3>1. display'[d] = display[d]
      BY <2>3, <2>5
    <3> QED
      BY <2>1, <3>1 DEF Agreed
  <2> QED
    BY <2>4, <2>5
<1>4. ASSUME NEW e \in Displays, StopListening(e) PROVE Agreed(f, d, terms)'
  <2>1. /\ UNCHANGED <<wire, committed>>
        /\ display'[d].key = display[d].key
        /\ display'[d].terms = display[d].terms
    BY <1>0, <1>4 DEF StopListening, DisplayType
  <2> QED
    BY <2>1 DEF Agreed
<1>5. ASSUME NEW e, Unpair(e), UNCHANGED committed PROVE Agreed(f, d, terms)'
  <2>1. CASE e = d
    BY <1>0, <1>5, <2>1 DEF Unpair, Unpaired, Agreed
  <2>2. CASE e # d
    BY <1>0, <1>5, <2>2 DEF Unpair, Agreed
  <2> QED
    BY <2>1, <2>2
<1> QED
  BY <1>1, <1>2, <1>3, <1>4, <1>5, NetworkSteps

\* What a step does to a flow and to the acknowledgements it may read.
LEMMA FlowSteps ==
    ASSUME Types, [Next]_vars, NEW f \in Flows
    PROVE  /\ flow[f].pc \in {"saving", "ended"} =>
                flow'[f].pc \in {"saving", "ended"}
           /\ flow'[f].pc = "saving" =>
                /\ flow[f].pc = "saving" \/ Confirm(f)
                /\ flow'[f].display = flow[f].display
                /\ flow'[f].terms = flow[f].terms
           /\ flow[f].pc = "pair" =>
                flow'[f].pc = "pair" \/ \A r \in replies' : r.key # f
<1> USE DEF store, subentries, network
<1>0. flow \in [Flows -> FlowType]
  BY DEF Types
<1>1. CASE flow' = flow
  BY <1>1
<1>2. ASSUME NEW g \in Flows, NEW d, NEW terms,
             SubmitForm(g, d, terms) \/ DeviceInfo(g)
      PROVE  /\ g # f => flow'[f] = flow[f]
             /\ g = f => /\ flow[f].pc \in {"new", "form", "info"}
                         /\ flow'[f].pc # "saving"
  BY <1>0, <1>2 DEF SubmitForm, DeviceInfo, FlowType
<1>3. ASSUME NEW g \in Flows, Fail(g)
      PROVE  /\ g # f => flow'[f] = flow[f]
             /\ g = f => /\ flow[f].pc \in {"info", "pair"}
                         /\ flow'[f].pc # "saving"
                         /\ \A r \in replies' : r.key # f
  BY <1>0, <1>3 DEF Fail, FlowType
<1>4. ASSUME NEW g \in Flows, Confirm(g)
      PROVE  /\ g # f => flow'[f] = flow[f]
             /\ g = f => /\ flow[f].pc = "pair" /\ Confirm(f)
                         /\ flow'[f].display = flow[f].display
                         /\ flow'[f].terms = flow[f].terms
                         /\ \A r \in replies' : r.key # f
  BY <1>0, <1>4 DEF Confirm, FlowType
<1>5. ASSUME NEW g \in Flows, CreateEntry(g)
      PROVE  /\ g # f => flow'[f] = flow[f]
             /\ g = f => flow[f].pc = "saving" /\ flow'[f].pc = "ended"
  BY <1>0, <1>5 DEF CreateEntry, FlowType
<1>6. CASE Restart
  <2>1. /\ flow[f].pc # "new" => flow'[f].pc = "ended"
        /\ flow[f].pc = "new" => flow'[f] = flow[f]
        /\ replies' = {}
    BY <1>0, <1>6 DEF Restart, FlowType
  <2> QED
    BY <2>1
<1>7. ASSUME \/ UNCHANGED vars \/ \E i \in Runtimes : Write(i)
             \/ \E request \in wire : DisplayPairs(request)
             \/ Unload \/ ReadDisk \/ SetUp \/ Install
             \/ RemoveHub \/ FinishRemoveHub \/ SaveEntries
      PROVE  flow' = flow
  BY <1>7 DEF vars, Write, DisplayPairs, Unload, ReadDisk, SetUp, Install,
              RemoveHub, FinishRemoveHub, SaveEntries
<1>8. ASSUME \/ \E h \in Handlers :
                  \/ \E d \in Displays : Accept(h, d)
                  \/ SaveAgain(h) \/ Answer(h) \/ AnswerUnpair(h)
             \/ \E d \in Displays :
                  \/ StopListening(d) \/ Reset(d)
                  \/ RemoveDevice(d) \/ FinishRemoval(d) \/ DeleteSubentry(d)
      PROVE  flow' = flow
  BY <1>8 DEF Accept, SaveAgain, Answer, AnswerUnpair, StopListening, Reset,
              RemoveDevice, FinishRemoval, DeleteSubentry
<1>9. CASE \E g \in Flows :
             \/ \E d \in Displays, terms \in Terms : SubmitForm(g, d, terms)
             \/ DeviceInfo(g)
  BY <1>2, <1>9
<1>10. CASE \E g \in Flows : Fail(g)
  BY <1>3, <1>10
<1>11. CASE \E g \in Flows : Confirm(g)
  BY <1>4, <1>11
<1>12. CASE \E g \in Flows : CreateEntry(g)
  BY <1>5, <1>12
<1> QED
  BY <1>1, <1>6, <1>7, <1>8, <1>9, <1>10, <1>11, <1>12 DEF Next

LEMMA OriginKept ==
    ASSUME Types, [Next]_vars, NEW d \in Displays, NEW terms, Origin(d, terms)
    PROVE  Origin(d, terms)'
BY AgreedKept, FlowSteps DEF Origin

\* An acknowledgement on a connection is of the terms the display works with.
LEMMA RepliesStep ==
    ASSUME Types, OriginInv, [Next]_vars, NEW r \in replies'
    PROVE  flow'[r.key].pc = "pair" /\ Agreed(r.key, r.display, r.terms)'
<1> USE DEF store, subentries, network
<1>1. CASE r \in replies
  <2>1. /\ r.key \in Flows /\ r.display \in Displays
        /\ flow[r.key].pc = "pair" /\ Agreed(r.key, r.display, r.terms)
    BY <1>1 DEF OriginInv, Types, Request
  <2> QED
    BY <2>1, AgreedKept, FlowSteps
<1>2. CASE r \notin replies
  <2>1. PICK request \in wire : DisplayPairs(request)
    <3>1. ASSUME \/ UNCHANGED vars \/ \E i \in Runtimes : Write(i)
                 \/ \E f \in Flows :
                      \/ \E d \in Displays, terms \in Terms :
                           SubmitForm(f, d, terms)
                      \/ DeviceInfo(f) \/ Fail(f) \/ Confirm(f)
                      \/ CreateEntry(f)
          PROVE  replies' \subseteq replies
      BY <3>1 DEF vars, Write, SubmitForm, DeviceInfo, Fail, Confirm,
                  CreateEntry
    <3>2. ASSUME \/ \E h \in Handlers :
                      \/ \E d \in Displays : Accept(h, d)
                      \/ SaveAgain(h) \/ Answer(h) \/ AnswerUnpair(h)
                 \/ \E d \in Displays :
                      \/ StopListening(d) \/ Reset(d) \/ RemoveDevice(d)
                      \/ FinishRemoval(d) \/ DeleteSubentry(d)
          PROVE  replies' \subseteq replies
      BY <3>2 DEF Accept, SaveAgain, Answer, AnswerUnpair, StopListening,
                  Reset, RemoveDevice, FinishRemoval, DeleteSubentry
    <3>3. ASSUME \/ Unload \/ ReadDisk \/ SetUp \/ Install
                 \/ RemoveHub \/ FinishRemoveHub \/ Restart \/ SaveEntries
          PROVE  replies' \subseteq replies
      BY <3>3 DEF Unload, ReadDisk, SetUp, Install, RemoveHub,
                  FinishRemoveHub, Restart, SaveEntries
    <3> QED
      BY <1>2, <3>1, <3>2, <3>3 DEF Next
  <2> DEFINE e == request.display
             now == IF display[e].key = None
                    THEN [display[e] EXCEPT !.key = request.key,
                                            !.terms = request.terms]
                    ELSE display[e]
  <2>2. /\ display' = [display EXCEPT ![e] = now] /\ flow' = flow
        /\ committed' = committed \cup {<<e, now.key>>}
        /\ flow[request.key].pc = "pair" /\ now.key = request.key
        /\ r = [key |-> now.key, display |-> e, terms |-> now.terms]
    BY <1>2, <2>1 DEF DisplayPairs
  <2>3. e \in Displays
    BY DEF Types, Request
  <2>4. display'[e] = now
    BY <2>2, <2>3 DEF Types
  <2> HIDE DEF now, e
  <2>5. /\ r.key = request.key /\ r.key = now.key
        /\ r.display = e /\ r.terms = now.terms
    BY <2>2
  <2> QED
    BY <2>2, <2>4, <2>5 DEF Agreed
<1> QED
  BY <1>1, <1>2

\* Where a subentry comes from.
LEMMA EntrySteps ==
    ASSUME Types, [Next]_vars, NEW d \in Displays
    PROVE  /\ \/ entries'[d] \in {None, entries[d], kept[d]}
              \/ \E f \in Flows :
                   /\ flow[f].pc = "saving" /\ flow'[f].pc = "ended"
                   /\ flow[f].display = d /\ entries'[d] = flow[f].terms
           /\ kept'[d] \in {None, kept[d], entries[d]}
<1> USE DEF store, subentries, network
<1>0. entries \in [Displays -> Terms \cup {None}]
  BY DEF Types
<1>1. ASSUME \/ UNCHANGED vars \/ \E i \in Runtimes : Write(i)
             \/ \E f \in Flows :
                  \/ \E e \in Displays, terms \in Terms :
                       SubmitForm(f, e, terms)
                  \/ DeviceInfo(f) \/ Fail(f) \/ Confirm(f)
             \/ \E request \in wire : DisplayPairs(request)
             \/ \E h \in Handlers :
                  \/ \E e \in Displays : Accept(h, e)
                  \/ SaveAgain(h) \/ Answer(h) \/ AnswerUnpair(h)
      PROVE  entries' = entries /\ kept' = kept
  BY <1>1 DEF vars, Write, SubmitForm, DeviceInfo, Fail, Confirm,
              DisplayPairs, Accept, SaveAgain, Answer, AnswerUnpair
<1>2. ASSUME NEW f \in Flows, CreateEntry(f)
      PROVE  /\ \/ entries'[d] = entries[d]
                \/ /\ flow[f].pc = "saving" /\ flow'[f].pc = "ended"
                   /\ flow[f].display = d /\ entries'[d] = flow[f].terms
             /\ kept' = kept
  BY <1>0, <1>2 DEF CreateEntry, SetEntry, Types, FlowType
<1>3. ASSUME NEW e \in Displays,
             \/ StopListening(e) \/ Reset(e)
             \/ RemoveDevice(e) \/ FinishRemoval(e) \/ DeleteSubentry(e)
      PROVE  entries'[d] \in {None, entries[d]} /\ kept' = kept
  BY <1>0, <1>3 DEF StopListening, Reset, RemoveDevice, FinishRemoval,
                    DeleteSubentry, SetEntry
<1>4. ASSUME Unload \/ ReadDisk \/ SetUp \/ Install \/ RemoveHub
      PROVE  entries' = entries /\ kept' = kept
  BY <1>4 DEF Unload, ReadDisk, SetUp, Install, RemoveHub
<1>5. ASSUME FinishRemoveHub \/ Restart \/ SaveEntries
      PROVE  /\ entries'[d] \in {None, entries[d], kept[d]}
             /\ kept'[d] \in {None, kept[d], entries[d]}
  BY <1>5 DEF FinishRemoveHub, Restart, SaveEntries
<1> QED
  BY <1>1, <1>2, <1>3, <1>4, <1>5 DEF Next

LEMMA OriginStep == Types /\ OriginInv /\ [Next]_vars => OriginInv'
<1> SUFFICES ASSUME Types, OriginInv, [Next]_vars PROVE OriginInv'
  OBVIOUS
<1>1. ASSUME NEW f \in Flows, flow'[f].pc = "saving"
      PROVE  Agreed(f, flow[f].display, flow[f].terms)'
             /\ flow'[f].display = flow[f].display
             /\ flow'[f].terms = flow[f].terms
  <2> DEFINE d == flow[f].display
             terms == flow[f].terms
  <2>1. /\ flow[f].pc = "saving" \/ Confirm(f)
        /\ flow'[f].display = d /\ flow'[f].terms = terms
    BY <1>1, FlowSteps
  <2>2. d \in Displays /\ flow[f].pc \in {"saving", "pair"}
    BY <2>1 DEF Confirm, Types, Begun
  <2>3. Agreed(f, d, terms)
    <3>1. CASE flow[f].pc = "saving"
      BY <3>1 DEF OriginInv
    <3>2. CASE Confirm(f)
      BY <3>2 DEF Confirm, OriginInv
    <3> QED
      BY <2>1, <3>1, <3>2
  <2>4. PICK e \in Displays : e = d
    BY <2>2
  <2>5. PICK t : t = terms
    OBVIOUS
  <2>6. Agreed(f, e, t)'
    BY <2>2, <2>3, <2>4, <2>5, AgreedKept
  <2> QED
    BY <2>1, <2>4, <2>5, <2>6
<1>2. ASSUME NEW d \in Displays
      PROVE  /\ entries'[d] # None => Origin(d, entries[d])'
             /\ kept'[d] # None => Origin(d, kept[d])'
  <2>1. \A terms : /\ terms # None /\ terms \in {entries[d], kept[d]}
                   => Origin(d, terms)'
    <3>1. ASSUME NEW terms, terms # None, terms \in {entries[d], kept[d]}
          PROVE  Origin(d, terms)'
      <4>1. Origin(d, terms)
        BY <3>1 DEF OriginInv
      <4> QED
        BY <4>1, OriginKept
    <3> QED
      BY <3>1
  <2>2. ASSUME NEW f \in Flows, flow[f].pc = "saving", flow'[f].pc = "ended",
               flow[f].display = d, NEW terms, terms = flow[f].terms
        PROVE  Origin(d, terms)'
    <3>1. Agreed(f, d, terms)
      BY <2>2 DEF OriginInv
    <3>2. Agreed(f, d, terms)'
      BY <2>2, <3>1, AgreedKept
    <3> QED
      BY <2>2, <3>2 DEF Origin
  <2>3. PICK new, saved : new = entries'[d] /\ saved = kept'[d]
    OBVIOUS
  <2>4. /\ new # None => Origin(d, new)'
        /\ saved # None => Origin(d, saved)'
    BY <2>1, <2>2, <2>3, EntrySteps
  <2> QED
    BY <2>3, <2>4 DEF Origin, Agreed
<1> QED
  BY <1>1, <1>2, RepliesStep DEF OriginInv, Agreed

\* PROTOCOL.md, the proof "binds the acknowledgement to the device,
\* transaction, normalized hub URL, and certificate policy": a display that
\* has stored one key only works with the terms its subentry shows, however
\* often pairing was retried with others, and the Hub reloaded or restarted.
THEOREM SubentryShowsTerms == Spec => []OnlyKeyAgrees
<1>1. Init => OriginInv
  BY DEF Init, NewFlow, OriginInv
<1>2. Types /\ OriginInv => OnlyKeyAgrees
  <2>1. ASSUME Types, OriginInv, NEW d \in Configured,
               \A key \in Flows : <<d, key>> \in committed =>
                 key = display[d].key
        PROVE  display[d].terms = entries[d]
    <3>1. PICK f \in Flows : Agreed(f, d, entries[d])
      BY <2>1 DEF Configured, OriginInv, Origin
    <3>2. f = display[d].key
      BY <2>1, <3>1 DEF Agreed
    <3> QED
      BY <3>1, <3>2 DEF Agreed
  <2> QED
    BY <2>1 DEF OnlyKeyAgrees
<1> QED
  BY TypesInit, TypesStep, OriginStep, <1>1, <1>2, PTL DEF Spec
=============================================================================
