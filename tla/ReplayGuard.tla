---------------------------- MODULE ReplayGuard ----------------------------
(***************************************************************************)
(* Which requests of one display the Hub accepts: the history of nonces    *)
(* that check-ins and time synchronisation share, the age of a check-in,   *)
(* and the rate limit of time synchronisation.                             *)
(*                                                                         *)
(* A handler takes the runtime, awaits the body, is one section up to the  *)
(* await of its save, and answers after it.  Requests may arrive late and  *)
(* repeatedly.  Home Assistant may restart with a save unwritten.  A       *)
(* reload makes a new runtime, with the history of the file and a new      *)
(* limiter, while handlers of the old one go on with theirs: they may      *)
(* accept, overwrite the file and answer.                                  *)
(* The lock of the store is CheckIn's subject: a write here saves the      *)
(* history as it is and lets all go on that wait for it.                   *)
(***************************************************************************)
EXTENDS Integers, Sequences, FiniteSets

CONSTANTS
    Handlers,
    NonceHistorySize,  \* 64 in the code
    Limit,             \* TIME_SYNC_RATE_LIMIT, 6 in the code
    RateWindow,        \* TIME_SYNC_RATE_WINDOW
    ReplayWindow,      \* how old a check-in may be, 24 hours in the code
    MaxTime, MaxRequests, MaxAccepted, MaxStarts

ASSUME SizeAssumption == NonceHistorySize \in Nat \ {0} /\ Limit \in Nat \ {0}
ASSUME WindowAssumption == RateWindow \in Nat
ASSUME StartsAssumption == MaxStarts \in Nat

\* The runtimes, numbered in the order in which they begin.
Runtimes == 0..MaxStarts

VARIABLES
    now,
    runtime,   \* the one that hass.data holds
    nonces,    \* record.nonces in the store of each runtime, oldest first
    disk,      \* the same in the storage file
    attempts,  \* the list of the display in the limiter of each runtime
    call,      \* per handler: its runtime and what it executes
    sent,      \* the requests that were accepted; they may arrive again
    accepted,  \* ghost: what was accepted, and whether it was answered
    admitted,  \* ghost: when the limiter of each runtime admitted a request
    exposed    \* ghost: the entries of accepted that a reload may lose

vars == <<now, runtime, nonces, disk, attempts, call, sent, accepted,
          admitted, exposed>>

Idle == [pc |-> "idle", runtime |-> 0, entry |-> 0, kind |-> "none"]

Init ==
    /\ now = 0 /\ runtime = 0
    /\ nonces = [r \in Runtimes |-> <<>>] /\ disk = <<>>
    /\ attempts = [r \in Runtimes |-> <<>>]
    /\ call = [h \in Handlers |-> Idle]
    /\ sent = {} /\ accepted = <<>>
    /\ admitted = [r \in Runtimes |-> <<>>] /\ exposed = {}

\* A handler of an older runtime is under way.
Overtaken ==
    \E h \in Handlers : call[h].pc # "idle" /\ call[h].runtime # runtime

\* What is accepted and was not written yet.
Unwritten ==
    {call[h].entry : h \in {g \in Handlers :
                              call[g].pc = "saving" /\ call[g].kind # "other"}}

(***************************************************************************)
(* security.py                                                             *)
(***************************************************************************)
KnownNonce(history, nonce) == \E i \in DOMAIN history : history[i] = nonce

RememberNonce(history, nonce) ==
    LET grown == Append(history, nonce)
        oldest == 1 + (IF Len(grown) > NonceHistorySize
                       THEN Len(grown) - NonceHistorySize ELSE 0)
    IN  SubSeq(grown, oldest, Len(grown))

\* Not from the future either: the display stamps its requests by this clock.
Fresh(request) == request.stamp >= now - ReplayWindow

\* The items that are young.  They are the end of the list, because the clock
\* of the limiter (time.monotonic) never goes back.
Recent(times) ==
    LET Young(i) == times[i] > now - RateWindow
        first == CHOOSE k \in 1..(Len(times) + 1) :
                   /\ \A i \in 1..(k - 1) : ~Young(i)
                   /\ \A i \in k..Len(times) : Young(i)
    IN  SubSeq(times, first, Len(times))

\* Mutant of Allowed: the limit may be passed by one.
AllowedOneMore(h) == Len(Recent(attempts[call[h].runtime])) <= Limit

\* DeviceRateLimiter.allow, by the limiter of the handler's runtime
Allowed(h) == Len(Recent(attempts[call[h].runtime])) < Limit

\* What may arrive: a request of before, or a new one of the display, which
\* may have been under way for a time.  Only a check-in has a timestamp.
Requests ==
    LET nonce == Cardinality(sent) + 1
        new == [nonce : {nonce}, kind : {"check_in"}, stamp : 0..now]
                 \cup [nonce : {nonce}, kind : {"time_sync"}, stamp : {0}]
    IN  IF Cardinality(sent) < MaxRequests THEN sent \cup new ELSE sent

(***************************************************************************)
(* CheckinView.post and TimeSyncView.post.                                 *)
(***************************************************************************)
\* The runtime is taken; the body is awaited.
Arrive(h) ==
    /\ call[h].pc = "idle"
    /\ call' = [call EXCEPT ![h] = [Idle EXCEPT !.pc = "reading",
                                               !.runtime = runtime]]
    /\ UNCHANGED <<now, runtime, nonces, disk, attempts, sent, accepted,
                   admitted, exposed>>

\* Up to the await of the save: the nonce is in the history.
Accept(h, request) ==
    LET r == call[h].runtime
        entry == Len(accepted) + 1
    IN  /\ call[h].pc = "reading" /\ Len(accepted) < MaxAccepted
        /\ ~KnownNonce(nonces[r], request.nonce)
        /\ nonces' = [nonces EXCEPT ![r] = RememberNonce(@, request.nonce)]
        /\ accepted' = Append(accepted,
                              [nonce |-> request.nonce, answered |-> FALSE])
        /\ call' = [call EXCEPT ![h] = [pc |-> "saving", runtime |-> r,
                                        entry |-> entry,
                                        kind |-> request.kind]]
        /\ exposed' = IF Overtaken THEN exposed \cup {entry} ELSE exposed
        /\ sent' = sent \cup {request}
        /\ UNCHANGED <<now, runtime, disk>>

CheckIn(h) ==
    /\ \E request \in Requests :
         /\ request.kind = "check_in" /\ Fresh(request)
         /\ Accept(h, request)
    /\ UNCHANGED <<attempts, admitted>>

TimeSync(h) ==
    /\ Allowed(h)
    /\ \E request \in Requests :
         /\ request.kind = "time_sync" /\ Accept(h, request)
    /\ LET r == call[h].runtime
       IN  /\ attempts' = [attempts EXCEPT ![r] = Append(Recent(@), now)]
           /\ admitted' = [admitted EXCEPT ![r] = Append(@, now)]

\* The handler ends a time synchronisation that its limiter denies.
Denied(h) ==
    /\ call[h].pc = "reading" /\ ~Allowed(h)
    /\ \E request \in Requests :
         /\ request.kind = "time_sync"
         /\ ~KnownNonce(nonces[call[h].runtime], request.nonce)
    /\ call' = [call EXCEPT ![h] = Idle]
    /\ UNCHANGED <<now, runtime, nonces, disk, sent, accepted, admitted,
                   exposed>>

\* Mutant of DenyTimeSync: a request that is denied counts as well.
DenyCounting(h) ==
    /\ Denied(h)
    /\ attempts' = [attempts EXCEPT ![call[h].runtime] =
                                     Append(Recent(@), now)]

\* A denied request is answered with 429 and its nonce stays unused.
DenyTimeSync(h) ==
    /\ Denied(h)
    /\ attempts' = [attempts EXCEPT ![call[h].runtime] = Recent(@)]

\* Something else saves the store: a check-in of another display, an entity,
\* a flow, the minute tick.
SaveOther(h) ==
    /\ call[h].pc = "reading"
    /\ call' = [call EXCEPT ![h].pc = "saving", ![h].kind = "other"]
    /\ UNCHANGED <<now, runtime, nonces, disk, attempts, sent, accepted,
                   admitted, exposed>>

\* The store of runtime r is written, for all that wait for it.  A check-in
\* saves again before its answer.
Write(r) ==
    /\ \E h \in Handlers :
         /\ call[h].runtime = r
         /\ \/ call[h].pc = "saving"
            \/ call[h].pc = "saved" /\ call[h].kind = "check_in"
    /\ disk' = nonces[r]
    /\ call' = [h \in Handlers |->
                  IF call[h].pc = "saving" /\ call[h].runtime = r
                  THEN [call[h] EXCEPT !.pc = "saved"] ELSE call[h]]
    /\ UNCHANGED <<now, runtime, nonces, attempts, sent, accepted, admitted,
                   exposed>>

\* Mutant of Answer: the response does not wait for the save.
AnswerUnsaved(h) ==
    /\ call[h].pc \in {"saving", "saved"} /\ call[h].kind # "other"
    /\ accepted' = [accepted EXCEPT ![call[h].entry].answered = TRUE]
    /\ call' = [call EXCEPT ![h] = Idle]
    /\ UNCHANGED <<now, runtime, nonces, disk, attempts, sent, admitted,
                   exposed>>

Answer(h) ==
    /\ call[h].pc = "saved" /\ call[h].kind # "other"
    /\ accepted' = [accepted EXCEPT ![call[h].entry].answered = TRUE]
    /\ call' = [call EXCEPT ![h] = Idle]
    /\ UNCHANGED <<now, runtime, nonces, disk, attempts, sent, admitted,
                   exposed>>

\* A request that is rejected, a save of something else that is done, or a
\* check-in that a listener ends with an error before its answer.
Leave(h) ==
    /\ call[h].pc \in {"reading", "saved"}
    /\ call' = [call EXCEPT ![h] = Idle]
    /\ UNCHANGED <<now, runtime, nonces, disk, attempts, sent, accepted,
                   admitted, exposed>>

(***************************************************************************)
(* async_unload_entry and async_setup_entry.                               *)
(***************************************************************************)
\* The history as it is in the file, and an empty limiter.
NewRuntime ==
    /\ runtime < MaxStarts
    /\ runtime' = runtime + 1
    /\ nonces' = [nonces EXCEPT ![runtime + 1] = disk]
    /\ UNCHANGED <<now, disk, attempts, sent, accepted, admitted>>

\* Handlers that are under way keep the runtime they took.  An entry that is
\* not in the file yet is not in the new history.
Reload ==
    /\ NewRuntime
    /\ exposed' = exposed \cup Unwritten
    /\ UNCHANGED call

\* Home Assistant stops and starts.
Restart ==
    /\ NewRuntime
    /\ call' = [h \in Handlers |-> Idle]
    /\ UNCHANGED exposed

PassTime ==
    /\ now < MaxTime
    /\ now' = now + 1
    /\ UNCHANGED <<runtime, nonces, disk, attempts, call, sent, accepted,
                   admitted, exposed>>

Next ==
    \/ \E h \in Handlers :
         \/ Arrive(h) \/ CheckIn(h) \/ TimeSync(h) \/ DenyTimeSync(h)
         \/ SaveOther(h) \/ Answer(h) \/ Leave(h)
    \/ \E r \in Runtimes : Write(r)
    \/ Reload \/ Restart \/ PassTime

Spec == Init /\ [][Next]_vars

-----------------------------------------------------------------------------
(***************************************************************************)
(* Properties.                                                             *)
(***************************************************************************)
\* PROTOCOL.md, "The last 64 nonces are retained per display, including
\* across Home Assistant restarts": a request that was answered is accepted
\* again only when as many others as the history holds were accepted since,
\* check-ins and time synchronisation counted together.  Except for what a
\* reload may lose: a request whose entry was not in the file when the new
\* runtime read it, and one that was accepted while a handler of an older
\* runtime, which may still overwrite the file, was under way.
AcceptedOncePerHistory ==
    \A first, again \in DOMAIN accepted :
      /\ first < again
      /\ accepted[first].nonce = accepted[again].nonce
      /\ accepted[first].answered /\ first \notin exposed
      => again - first > NonceHistorySize

\* The short list a limiter keeps decides as the list of all requests it
\* admitted would: the minute rolls, and nobody is denied because of
\* requests that were denied.
LimiterIsExact == \A r \in Runtimes : Recent(attempts[r]) = Recent(admitted[r])

\* ... and so one limiter admits no more than its limit in any window.
LimitOfEachLimiter ==
    \A r \in Runtimes : \A i \in DOMAIN admitted[r] :
      i > Limit => admitted[r][i] - admitted[r][i - Limit] >= RateWindow

\* PROTOCOL.md, "The rate limit is six authenticated requests per device per
\* rolling minute": whoever admitted them, no more requests than the limit
\* are in the window.  The limiter of a new runtime is empty.
RollingLimit ==
    LET Young(r) ==
          {i \in DOMAIN admitted[r] : admitted[r][i] > now - RateWindow}
    IN  Cardinality(UNION {{r} \X Young(r) : r \in Runtimes}) <= Limit
=============================================================================
