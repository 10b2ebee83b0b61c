-------------------------- MODULE ReplayGuardProofs --------------------------
(***************************************************************************)
(* A request that was answered is accepted again only when as many others  *)
(* as the history holds were accepted since, except for what a reload may  *)
(* lose (AcceptedOncePerHistory), for every size of the history, every     *)
(* number of handlers and however often Home Assistant reloads the Hub or  *)
(* restarts.                                                               *)
(*                                                                         *)
(* The history loses its oldest nonce to a newer one, a restart loses what *)
(* was not on the disk, and a handler of an old runtime writes its own     *)
(* history over the file.  What the property needs of a history is that it *)
(* has a nonce, no deeper than there were requests accepted since, or that *)
(* it had to drop it (Kept).  What is being executed or was answered is    *)
(* kept so by the history of every runtime that can still accept or write  *)
(* (Live), what was saved by the disk.                                     *)
(*                                                                         *)
(* The limiter keeps the end of the list of all that it admitted; what it  *)
(* dropped is old and stays so (LimiterInv).  It decides as the whole list *)
(* would (LimiterIsExact) and keeps every window of its own within the     *)
(* limit (LimitOfEachLimiter).                                             *)
(***************************************************************************)
EXTENDS ReplayGuard, FiniteSetTheorems, SequenceTheorems, WellFoundedInduction,
        TLAPS

-----------------------------------------------------------------------------
(***************************************************************************)
(* Types.                                                                  *)
(***************************************************************************)
Entry == [nonce : Nat, answered : BOOLEAN]

Kinds == {"check_in", "time_sync"}

Typing ==
    /\ runtime \in Runtimes
    /\ nonces \in [Runtimes -> Seq(Nat)] /\ disk \in Seq(Nat)
    /\ accepted \in Seq(Entry)
    /\ call \in [Handlers -> [pc : {"idle", "reading", "saving", "saved"},
                              runtime : 0..runtime, entry : Nat,
                              kind : Kinds \cup {"none", "other"}]]
    /\ IsFiniteSet(sent)
    /\ \A request \in sent : request.nonce \in Nat /\ request.kind \in Kinds

LEMMA RuntimeType ==
    ASSUME Typing
    PROVE  /\ MaxStarts \in Nat /\ runtime \in Nat /\ runtime <= MaxStarts
           /\ 0..runtime \subseteq Runtimes
BY StartsAssumption DEF Typing, Runtimes

\* The history with one more nonce is the end of what it was with it.
LEMMA Remembers ==
    ASSUME NEW history \in Seq(Nat), NEW nonce \in Nat
    PROVE  LET grown == Append(history, nonce)
               next == RememberNonce(history, nonce)
           IN  /\ next \in Seq(Nat)
               /\ Len(next) = IF Len(grown) > NonceHistorySize
                              THEN NonceHistorySize ELSE Len(grown)
               /\ \A back \in 0..(Len(next) - 1) :
                    next[Len(next) - back] = grown[Len(grown) - back]
<1> DEFINE grown == Append(history, nonce)
           oldest == 1 + (IF Len(grown) > NonceHistorySize
                          THEN Len(grown) - NonceHistorySize ELSE 0)
           next == SubSeq(grown, oldest, Len(grown))
<1>1. grown \in Seq(Nat) /\ Len(grown) = Len(history) + 1
  OBVIOUS
<1>2. NonceHistorySize \in Nat \ {0} /\ Len(grown) \in Nat \ {0}
  BY <1>1, SizeAssumption
<1>3. RememberNonce(history, nonce) = next
  BY DEF RememberNonce
<1> HIDE DEF grown
<1>4. oldest \in 1..Len(grown)
  BY <1>2
<1>5. oldest = IF Len(grown) > NonceHistorySize
               THEN Len(grown) - NonceHistorySize + 1 ELSE 1
  BY <1>2
<1> HIDE DEF oldest
<1>6. /\ next \in Seq(Nat) /\ Len(next) = Len(grown) - oldest + 1
      /\ \A k \in 1..(Len(grown) - oldest + 1) : next[k] = grown[oldest + k - 1]
  <2>1. \A k \in oldest..Len(grown) : grown[k] \in Nat
    BY <1>1, <1>2, <1>4
  <2> QED
    BY <1>2, <1>4, <2>1, SubSeqProperties
<1> HIDE DEF next
<1>7. Len(next) = IF Len(grown) > NonceHistorySize
                  THEN NonceHistorySize ELSE Len(grown)
  BY <1>2, <1>4, <1>5, <1>6
<1>8. ASSUME NEW back \in 0..(Len(next) - 1)
      PROVE  next[Len(next) - back] = grown[Len(grown) - back]
  <2>1. /\ Len(next) - back \in 1..(Len(grown) - oldest + 1)
        /\ oldest + (Len(next) - back) - 1 = Len(grown) - back
    BY <1>2, <1>4, <1>6
  <2> QED
    BY <1>6, <2>1
<1> QED
  BY <1>3, <1>6, <1>7, <1>8 DEF grown

-----------------------------------------------------------------------------
(***************************************************************************)
(* The invariant.                                                          *)
(***************************************************************************)
\* History has the nonce of what list has as number i, or had to drop it.
Kept(list, history, i) ==
    \/ Len(list) - i >= NonceHistorySize
    \/ \E k \in DOMAIN history :
         /\ history[k] = list[i].nonce
         /\ Len(history) - k <= Len(list) - i

\* What a handler executes was accepted.
Executed(i) ==
    \E h \in Handlers : /\ call[h].pc \in {"saving", "saved"}
                        /\ call[h].kind # "other" /\ call[h].entry = i

Saved(i) ==
    \E h \in Handlers : /\ call[h].pc = "saved"
                        /\ call[h].kind # "other" /\ call[h].entry = i

\* A handler can still accept a request or write the file with this history.
Live(r) ==
    \/ r = runtime
    \/ \E h \in Handlers : call[h].pc # "idle" /\ call[h].runtime = r

ExecutedInv == \A i : Executed(i) => i \in DOMAIN accepted

KeptInv ==
    \A i \in DOMAIN accepted \ exposed :
      /\ accepted[i].answered \/ Executed(i)
           => \A r \in Runtimes : Live(r) => Kept(accepted, nonces[r], i)
      /\ accepted[i].answered \/ Saved(i) => Kept(accepted, disk, i)

OnceInv ==
    \A first, again \in DOMAIN accepted :
      /\ first < again
      /\ accepted[first].nonce = accepted[again].nonce
      /\ accepted[first].answered \/ Executed(first)
      /\ first \notin exposed
      => again - first > NonceHistorySize

HistoryInv == ExecutedInv /\ KeptInv /\ OnceInv

\* Where a nonce at place k of n is in the next history, of length m.
LEMMA NextPlace ==
    ASSUME NEW n \in Nat, NEW k \in 1..n, NEW a \in Nat, NEW i \in 1..a,
           NEW size \in Nat, n - k <= a - i, a + 1 - i < size,
           NEW m \in Nat, m = IF n + 1 > size THEN size ELSE n + 1
    PROVE  /\ n + 1 - k \in 0..(m - 1) /\ n + 1 - (n + 1 - k) = k
           /\ m - (n + 1 - k) \in 1..m
           /\ m - (m - (n + 1 - k)) <= a + 1 - i
OBVIOUS

\* A history that keeps an entry still does when the next one comes, there or
\* in the history of another runtime.
LEMMA KeptLonger ==
    ASSUME NEW list \in Seq(Entry), NEW nonce \in Nat, NEW longer,
           longer = Append(list, [nonce |-> nonce, answered |-> FALSE]),
           NEW i \in 1..Len(list), NEW history \in Seq(Nat),
           Kept(list, history, i)
    PROVE  /\ Kept(longer, history, i)
           /\ Kept(longer, RememberNonce(history, nonce), i)
<1> DEFINE next == RememberNonce(history, nonce)
<1>0. /\ Len(list) \in Nat /\ Len(longer) = Len(list) + 1
      /\ longer[i] = list[i] /\ NonceHistorySize \in Nat \ {0}
      /\ Len(history) \in Nat /\ DOMAIN history = 1..Len(history)
  BY SizeAssumption, LenProperties
<1>1. CASE Len(list) + 1 - i >= NonceHistorySize
  <2>1. Len(longer) - i >= NonceHistorySize
    BY <1>0, <1>1
  <2> QED
    BY <2>1 DEF Kept
<1>2. CASE Len(list) + 1 - i < NonceHistorySize
  <2>0. ~(Len(list) - i >= NonceHistorySize)
    BY <1>0, <1>2
  <2>1. PICK k \in DOMAIN history :
          history[k] = list[i].nonce /\ Len(history) - k <= Len(list) - i
    BY <2>0 DEF Kept
  <2>2. Kept(longer, history, i)
    BY <1>0, <2>1 DEF Kept
  <2> DEFINE grown == Append(history, nonce)
             n == Len(history)
             m == Len(next)
             back == n + 1 - k
  <2>3. n \in Nat /\ k \in 1..n /\ n - k <= Len(list) - i
    BY <1>0, <2>1
  <2>4. Len(grown) = n + 1 /\ grown[k] = history[k]
    BY <2>3
  <2>5. /\ next \in Seq(Nat)
        /\ m = IF Len(grown) > NonceHistorySize
               THEN NonceHistorySize ELSE Len(grown)
        /\ \A b \in 0..(m - 1) : next[m - b] = grown[Len(grown) - b]
    BY Remembers
  <2>6. DOMAIN next = 1..m
    BY <2>5, LenProperties
  <2> HIDE DEF grown, n, m, next
  <2>7. m = IF n + 1 > NonceHistorySize THEN NonceHistorySize ELSE n + 1
    BY <2>4, <2>5
  <2>8. /\ back \in 0..(m - 1) /\ n + 1 - back = k
        /\ m - back \in 1..m /\ m - (m - back) <= Len(list) + 1 - i
    <3>1. m \in Nat
      BY <1>0, <2>3, <2>7
    <3> QED
      BY <1>0, <1>2, <2>3, <2>7, <3>1, NextPlace
  <2> HIDE DEF back
  <2>9. next[m - back] = longer[i].nonce
    <3>1. next[m - back] = grown[Len(grown) - back]
      BY <2>5, <2>8
    <3>2. Len(grown) - back = k
      BY <2>3, <2>4, <2>8
    <3> QED
      BY <1>0, <2>1, <2>4, <3>1, <3>2
  <2>10. Len(next) - (m - back) <= Len(longer) - i
    BY <1>0, <2>8 DEF m
  <2>11. Kept(longer, next, i)
    BY <2>6, <2>8, <2>9, <2>10 DEF Kept
  <2> QED
    BY <2>2, <2>11 DEF next
<1> QED
  BY <1>0, <1>1, <1>2

\* The history has the nonce it was just given.
LEMMA NewestKept ==
    ASSUME NEW list \in Seq(Entry), NEW nonce \in Nat, NEW longer,
           longer = Append(list, [nonce |-> nonce, answered |-> FALSE]),
           NEW history \in Seq(Nat)
    PROVE  Kept(longer, RememberNonce(history, nonce), Len(list) + 1)
<1> DEFINE grown == Append(history, nonce)
           next == RememberNonce(history, nonce)
           m == Len(next)
           new == Len(list) + 1
<1>1. /\ Len(history) \in Nat /\ Len(grown) = Len(history) + 1
      /\ grown[Len(history) + 1] = nonce
  OBVIOUS
<1>2. /\ next \in Seq(Nat)
      /\ m = IF Len(grown) > NonceHistorySize
             THEN NonceHistorySize ELSE Len(grown)
      /\ \A b \in 0..(m - 1) : next[m - b] = grown[Len(grown) - b]
  BY Remembers
<1>3. DOMAIN next = 1..m
  BY <1>2, LenProperties
<1>4. /\ new \in Nat /\ Len(longer) = new /\ longer[new].nonce = nonce
  OBVIOUS
<1> HIDE DEF grown, next, m, new
<1>5. m \in Nat \ {0}
  BY <1>1, <1>2, SizeAssumption
<1>6. next[m] = nonce
  <2>0. 0 \in 0..(m - 1)
    BY <1>5
  <2>1. next[m - 0] = grown[Len(grown) - 0]
    BY <1>2, <2>0
  <2>2. m - 0 = m
    BY <1>5
  <2>3. Len(grown) - 0 = Len(history) + 1
    BY <1>1
  <2> QED
    BY <1>1, <2>1, <2>2, <2>3
<1>7. Len(next) - m <= Len(longer) - new
  BY <1>4, <1>5 DEF m
<1>8. m \in DOMAIN next
  BY <1>3, <1>5
<1>9. next[m] = longer[new].nonce
  BY <1>4, <1>6
<1>10. Kept(longer, next, new)
  BY <1>7, <1>8, <1>9 DEF Kept
<1> QED
  BY <1>10 DEF next, new

-----------------------------------------------------------------------------
(***************************************************************************)
(* What a step does to histories and handlers.                             *)
(***************************************************************************)
\* A request is accepted: its nonce was not in the history of the handler's
\* runtime.
AcceptBy(h, nonce, kind) ==
    LET r == call[h].runtime
        entry == Len(accepted) + 1
    IN  /\ call[h].pc = "reading" /\ ~KnownNonce(nonces[r], nonce)
        /\ nonces' = [nonces EXCEPT ![r] = RememberNonce(@, nonce)]
        /\ accepted' = Append(accepted, [nonce |-> nonce, answered |-> FALSE])
        /\ call' = [call EXCEPT ![h] = [pc |-> "saving", runtime |-> r,
                                        entry |-> entry, kind |-> kind]]
        /\ exposed' = IF Overtaken THEN exposed \cup {entry} ELSE exposed
        /\ UNCHANGED <<runtime, disk>>
        /\ \E request : /\ sent' = sent \cup {request}
                        /\ request.nonce = nonce /\ request.kind = kind

AcceptStep == \E h \in Handlers, nonce \in Nat, kind \in Kinds :
                AcceptBy(h, nonce, kind)

\* A step of one handler that concerns neither histories nor entries.
QuietBy(h) ==
    /\ UNCHANGED <<runtime, nonces, disk, sent, accepted, exposed>>
    /\ \/ call' = call
       \/ call' = [call EXCEPT ![h] = Idle]
       \/ /\ call[h].pc = "idle"
          /\ call' = [call EXCEPT ![h] = [Idle EXCEPT !.pc = "reading",
                                                      !.runtime = runtime]]
       \/ /\ call[h].pc = "reading"
          /\ call' = [call EXCEPT ![h].pc = "saving", ![h].kind = "other"]

QuietStep ==
    \/ UNCHANGED <<runtime, nonces, disk, sent, accepted, exposed, call>>
    \/ \E h \in Handlers : QuietBy(h)

LEMMA RequestType ==
    ASSUME Typing, NEW request \in Requests
    PROVE  request.nonce \in Nat /\ request.kind \in Kinds
<1>1. Cardinality(sent) + 1 \in Nat
  BY FS_CardinalityType DEF Typing
<1> QED
  BY <1>1 DEF Requests, Typing, Kinds

LEMMA Steps ==
    ASSUME Typing, [Next]_vars
    PROVE  \/ AcceptStep \/ QuietStep \/ Reload \/ Restart
           \/ \E r \in Runtimes : Write(r)
           \/ \E h \in Handlers : Answer(h)
<1>1. ASSUME NEW h \in Handlers, NEW request \in Requests, Accept(h, request)
      PROVE  AcceptStep
  <2>1. request.nonce \in Nat /\ request.kind \in Kinds
    BY RequestType
  <2>2. AcceptBy(h, request.nonce, request.kind)
    BY <1>1 DEF Accept, AcceptBy
  <2> QED
    BY <2>1, <2>2 DEF AcceptStep
<1>2. ASSUME NEW h \in Handlers, CheckIn(h) \/ TimeSync(h)
      PROVE  AcceptStep
  BY <1>1, <1>2 DEF CheckIn, TimeSync
<1>3. ASSUME NEW h \in Handlers,
             Arrive(h) \/ DenyTimeSync(h) \/ SaveOther(h) \/ Leave(h)
      PROVE  QuietStep
  <2>1. QuietBy(h)
    BY <1>3 DEF Arrive, DenyTimeSync, Denied, SaveOther, Leave, QuietBy
  <2> QED
    BY <2>1 DEF QuietStep
<1>4. CASE PassTime \/ UNCHANGED vars
  BY <1>4 DEF PassTime, vars, QuietStep
<1> QED
  BY <1>2, <1>3, <1>4 DEF Next

\* Only the entry of the handler becomes answered.
LEMMA AnswerEffect ==
    ASSUME Typing, NEW h \in Handlers, Answer(h)
    PROVE  /\ accepted' \in Seq(Entry) /\ Len(accepted') = Len(accepted)
           /\ \A i \in DOMAIN accepted :
                /\ accepted'[i].nonce = accepted[i].nonce
                /\ accepted'[i].answered =>
                     accepted[i].answered \/ i = call[h].entry
<1> DEFINE e == call[h].entry
           marked == [accepted[e] EXCEPT !.answered = TRUE]
<1>1. accepted' = [accepted EXCEPT ![e] = marked]
  BY DEF Answer
<1>2. accepted \in Seq(Entry) /\ DOMAIN accepted = 1..Len(accepted)
  BY LenProperties DEF Typing
<1> HIDE DEF e
<1>3. CASE e \in 1..Len(accepted)
  <2>1. accepted[e] \in Entry
    BY <1>2, <1>3, ElementOfSeq
  <2>2. marked \in Entry /\ marked.nonce = accepted[e].nonce
    BY <2>1 DEF Entry
  <2> HIDE DEF marked
  <2>3. /\ accepted' \in Seq(Entry) /\ Len(accepted') = Len(accepted)
        /\ \A j \in 1..Len(accepted) :
             accepted'[j] = IF j = e THEN marked ELSE accepted[j]
    BY <1>1, <1>2, <1>3, <2>2, ExceptSeq
  <2> QED
    BY <1>2, <2>2, <2>3 DEF e
<1>4. CASE e \notin 1..Len(accepted)
  <2> HIDE DEF marked
  <2>1. accepted' = accepted
    BY <1>1, <1>2, <1>4, LenProperties
  <2> QED
    BY <1>2, <2>1
<1> QED
  BY <1>3, <1>4

\* The types are kept.
LEMMA NextTyping == Typing /\ [Next]_vars => Typing'
<1> SUFFICES ASSUME Typing, [Next]_vars PROVE Typing'
  OBVIOUS
<1>0. /\ MaxStarts \in Nat /\ runtime \in Nat /\ runtime <= MaxStarts
      /\ 0..runtime \subseteq Runtimes /\ 0 \in 0..runtime
  BY RuntimeType
<1>1. CASE AcceptStep
  <2>1. PICK h \in Handlers, nonce \in Nat, kind \in Kinds :
          AcceptBy(h, nonce, kind)
    BY <1>1 DEF AcceptStep
  <2>2. call[h].runtime \in 0..runtime
    BY DEF Typing
  <2>3. nonces' \in [Runtimes -> Seq(Nat)]
    <3> DEFINE r == call[h].runtime
    <3>1. nonces[r] \in Seq(Nat)
      BY <1>0, <2>2 DEF Typing
    <3>2. RememberNonce(nonces[r], nonce) \in Seq(Nat)
      BY <3>1, Remembers
    <3>3. nonces' = [nonces EXCEPT ![r] = RememberNonce(nonces[r], nonce)]
      BY <2>1 DEF AcceptBy
    <3> HIDE DEF r
    <3> QED
      BY <3>2, <3>3 DEF Typing
  <2>4. accepted' \in Seq(Entry) /\ Len(accepted) \in Nat
    BY <2>1 DEF AcceptBy, Typing, Entry
  <2>5. IsFiniteSet(sent') /\ \A request \in sent' :
          request.nonce \in Nat /\ request.kind \in Kinds
    <3>1. PICK new : /\ sent' = sent \cup {new}
                     /\ new.nonce = nonce /\ new.kind = kind
      BY <2>1 DEF AcceptBy
    <3> QED
      BY <3>1, FS_AddElement DEF Typing
  <2>6. /\ runtime' = runtime /\ disk' = disk
        /\ call' = [call EXCEPT ![h] =
                      [pc |-> "saving", runtime |-> call[h].runtime,
                       entry |-> Len(accepted) + 1, kind |-> kind]]
    BY <2>1 DEF AcceptBy
  <2>7. call' \in [Handlers -> [pc : {"idle", "reading", "saving", "saved"},
                                runtime : 0..runtime, entry : Nat,
                                kind : Kinds \cup {"none", "other"}]]
    BY <2>2, <2>4, <2>6 DEF Typing
  <2> QED
    BY <2>3, <2>4, <2>5, <2>6, <2>7 DEF Typing
<1>2. CASE QuietStep
  <2>1. ASSUME NEW h \in Handlers, QuietBy(h) PROVE Typing'
    <3>1. runtime \in 0..runtime
      BY <1>0
    <3>2. call' \in [Handlers -> [pc : {"idle", "reading", "saving", "saved"},
                                  runtime : 0..runtime, entry : Nat,
                                  kind : Kinds \cup {"none", "other"}]]
      <4>1. \A g \in Handlers :
              call[g] \in [pc : {"idle", "reading", "saving", "saved"},
                           runtime : 0..runtime, entry : Nat,
                           kind : Kinds \cup {"none", "other"}]
        BY DEF Typing
      <4>2. \E next \in [pc : {"idle", "reading", "saving", "saved"},
                          runtime : 0..runtime, entry : Nat,
                          kind : Kinds \cup {"none", "other"}] :
              call' = [call EXCEPT ![h] = next]
        <5>1. CASE call' = call
          BY <4>1, <5>1 DEF Typing
        <5>2. CASE call' = [call EXCEPT ![h] = Idle]
          BY <1>0, <5>2 DEF Idle
        <5>3. CASE call' = [call EXCEPT ![h] = [Idle EXCEPT
                                                  !.pc = "reading",
                                                  !.runtime = runtime]]
          BY <3>1, <5>3 DEF Idle
        <5>4. CASE call' = [call EXCEPT ![h].pc = "saving",
                                        ![h].kind = "other"]
          <6> DEFINE next == [call[h] EXCEPT !.pc = "saving", !.kind = "other"]
          <6>1. call' = [call EXCEPT ![h] = next]
            BY <5>4 DEF Typing
          <6>2. next \in [pc : {"idle", "reading", "saving", "saved"},
                          runtime : 0..runtime, entry : Nat,
                          kind : Kinds \cup {"none", "other"}]
            BY <4>1
          <6> QED
            BY <6>1, <6>2
        <5> QED
          BY <2>1, <5>1, <5>2, <5>3, <5>4 DEF QuietBy
      <4> QED
        BY <4>2 DEF Typing
    <3> QED
      BY <2>1, <3>2 DEF QuietBy, Typing
  <2> QED
    BY <1>2, <2>1 DEF QuietStep, Typing
<1>3. ASSUME NEW r \in Runtimes, Write(r) PROVE Typing'
  <2>1. call' \in [Handlers -> [pc : {"idle", "reading", "saving", "saved"},
                                runtime : 0..runtime, entry : Nat,
                                kind : Kinds \cup {"none", "other"}]]
    BY <1>3 DEF Write, Typing
  <2> QED
    BY <1>3, <2>1 DEF Write, Typing
<1>4. CASE Reload \/ Restart
  <2>1. /\ runtime' = runtime + 1 /\ runtime' \in Runtimes
        /\ 0..runtime \subseteq 0..runtime' /\ 0 \in 0..runtime'
    BY <1>0, <1>4 DEF Reload, Restart, NewRuntime, Runtimes
  <2>2. call' = call \/ call' = [h \in Handlers |-> Idle]
    BY <1>4 DEF Reload, Restart
  <2>3. call' \in [Handlers -> [pc : {"idle", "reading", "saving", "saved"},
                                runtime : 0..runtime', entry : Nat,
                                kind : Kinds \cup {"none", "other"}]]
    BY <2>1, <2>2 DEF Typing, Idle
  <2>4. /\ nonces' \in [Runtimes -> Seq(Nat)]
        /\ UNCHANGED <<disk, accepted, sent>>
    BY <1>4 DEF Reload, Restart, NewRuntime, Typing
  <2> QED
    BY <2>1, <2>3, <2>4 DEF Typing
<1>5. ASSUME NEW h \in Handlers, Answer(h) PROVE Typing'
  <2>1. accepted' \in Seq(Entry)
    BY <1>5, AnswerEffect
  <2>2. call' \in [Handlers -> [pc : {"idle", "reading", "saving", "saved"},
                                runtime : 0..runtime, entry : Nat,
                                kind : Kinds \cup {"none", "other"}]]
    BY <1>0, <1>5 DEF Answer, Typing, Idle
  <2> QED
    BY <1>5, <2>1, <2>2 DEF Answer, Typing
<1> QED
  BY <1>1, <1>2, <1>3, <1>4, <1>5, Steps

-----------------------------------------------------------------------------
(***************************************************************************)
(* Every step keeps the invariant.                                         *)
(***************************************************************************)
LEMMA AcceptHistoryInv ==
    ASSUME Typing, HistoryInv, AcceptStep
    PROVE  HistoryInv'
<1>0. PICK new : new = Len(accepted) + 1
  OBVIOUS
<1>1. PICK h \in Handlers, nonce \in Nat, kind \in Kinds :
        AcceptBy(h, nonce, kind)
  BY DEF AcceptStep
<1>2. PICK r \in Runtimes : r = call[h].runtime /\ Live(r)
  <2>1. call[h].runtime \in Runtimes /\ call[h].pc # "idle"
    BY <1>1, RuntimeType DEF AcceptBy, Typing
  <2> QED
    BY <2>1 DEF Live
<1>3. /\ ~KnownNonce(nonces[r], nonce)
      /\ nonces' = [nonces EXCEPT ![r] = RememberNonce(nonces[r], nonce)]
      /\ accepted' = Append(accepted, [nonce |-> nonce, answered |-> FALSE])
      /\ call' = [call EXCEPT ![h] = [pc |-> "saving", runtime |-> r,
                                      entry |-> new, kind |-> kind]]
      /\ exposed' = IF Overtaken THEN exposed \cup {new} ELSE exposed
      /\ runtime' = runtime /\ disk' = disk
  BY <1>0, <1>1, <1>2 DEF AcceptBy, Typing
<1>4. /\ Len(accepted) \in Nat /\ accepted \in Seq(Entry)
      /\ DOMAIN accepted = 1..Len(accepted)
      /\ DOMAIN accepted' = DOMAIN accepted \cup {new}
      /\ \A i \in DOMAIN accepted : accepted'[i] = accepted[i]
      /\ accepted'[new].nonce = nonce /\ ~accepted'[new].answered
      /\ new \notin DOMAIN accepted
  BY <1>0, <1>3 DEF Typing
<1>5. \A i \in 1..Len(accepted), history \in Seq(Nat) :
         Kept(accepted, history, i)
         => /\ Kept(accepted', history, i)
            /\ Kept(accepted', RememberNonce(history, nonce), i)
  <2>0. PICK list \in Seq(Entry) : list = accepted
    BY <1>4
  <2>1. PICK longer :
          /\ longer = accepted'
          /\ longer = Append(list, [nonce |-> nonce, answered |-> FALSE])
    BY <1>3, <2>0
  <2>2. \A i \in 1..Len(list), history \in Seq(Nat) :
          Kept(list, history, i)
          => /\ Kept(longer, history, i)
             /\ Kept(longer, RememberNonce(history, nonce), i)
    BY <2>1, KeptLonger
  <2> QED
    BY <2>0, <2>1, <2>2
<1>6. \A i : /\ Executed(i)' => Executed(i) \/ i = new
             /\ Saved(i)' => Saved(i)
  BY <1>3 DEF Executed, Saved, Typing
<1>7. \A s \in Runtimes : Live(s)' => Live(s)
  BY <1>2, <1>3 DEF Live, Typing
<1>8. \A s \in Runtimes :
        nonces'[s] = IF s = r THEN RememberNonce(nonces[r], nonce)
                              ELSE nonces[s]
  BY <1>2, <1>3 DEF Typing
<1>9. \A i : Saved(i) => Executed(i)
  BY DEF Saved, Executed
<1>10. ExecutedInv'
  BY <1>4, <1>6 DEF HistoryInv, ExecutedInv
<1>11. ASSUME NEW i \in DOMAIN accepted, i \notin exposed
       PROVE  /\ accepted'[i].answered \/ Executed(i)'
                   => \A s \in Runtimes :
                        Live(s)' => Kept(accepted', nonces'[s], i)
              /\ accepted'[i].answered \/ Saved(i)'
                   => Kept(accepted', disk', i)
  <2>1. i # new /\ i \in 1..Len(accepted)
    BY <1>4
  <2>2. ASSUME accepted[i].answered \/ Executed(i),
               NEW s \in Runtimes, Live(s)
        PROVE  Kept(accepted', nonces'[s], i)
    <3>1. Kept(accepted, nonces[s], i)
      BY <1>11, <2>2 DEF HistoryInv, KeptInv
    <3>2. nonces[s] \in Seq(Nat)
      BY DEF Typing
    <3>3. /\ Kept(accepted', nonces[s], i)
          /\ Kept(accepted', RememberNonce(nonces[s], nonce), i)
      BY <1>5, <2>1, <3>1, <3>2
    <3> QED
      BY <1>8, <3>3
  <2>3. ASSUME accepted[i].answered \/ Saved(i)
        PROVE  Kept(accepted', disk', i)
    <3>1. Kept(accepted, disk, i)
      BY <1>11, <2>3 DEF HistoryInv, KeptInv
    <3>2. Kept(accepted', disk, i)
      BY <1>5, <2>1, <3>1 DEF Typing
    <3> QED
      BY <1>3, <3>2
  <2>4. accepted'[i].answered <=> accepted[i].answered
    BY <1>4
  <2> QED
    BY <1>6, <1>7, <2>1, <2>2, <2>3, <2>4
<1>12. ASSUME ~Overtaken, NEW s \in Runtimes, Live(s)'
       PROVE  Kept(accepted', nonces'[s], new)
  <2>1. s = r
    BY <1>2, <1>7, <1>12 DEF Live, Overtaken
  <2>2. Kept(accepted', RememberNonce(nonces[r], nonce), new)
    BY <1>0, <1>3, <1>4, NewestKept DEF Typing
  <2> QED
    BY <1>8, <2>1, <2>2
<1>13. ~Saved(new)'
  BY <1>4, <1>6, <1>9 DEF HistoryInv, ExecutedInv
<1>14. exposed \subseteq exposed' /\ (new \notin exposed' => ~Overtaken)
  BY <1>3
<1>15. KeptInv'
  <2>1. ASSUME NEW i \in DOMAIN accepted', i \notin exposed'
        PROVE  /\ accepted'[i].answered \/ Executed(i)'
                    => \A s \in Runtimes :
                         Live(s)' => Kept(accepted', nonces'[s], i)
               /\ accepted'[i].answered \/ Saved(i)'
                    => Kept(accepted', disk', i)
    <3>1. CASE i = new
      BY <1>4, <1>12, <1>13, <1>14, <2>1, <3>1
    <3>2. CASE i # new
      <4>1. i \in DOMAIN accepted /\ i \notin exposed
        BY <1>4, <1>14, <2>1, <3>2
      <4> QED
        BY <1>11, <4>1
    <3> QED
      BY <3>1, <3>2
  <2> QED
    BY <2>1 DEF KeptInv
<1>16. ASSUME NEW first \in DOMAIN accepted, accepted[first].nonce = nonce,
              first \notin exposed,
              accepted[first].answered \/ Executed(first)
       PROVE  new - first > NonceHistorySize
  <2>1. Kept(accepted, nonces[r], first)
    BY <1>2, <1>16 DEF HistoryInv, KeptInv
  <2>2. Len(accepted) - first >= NonceHistorySize
    BY <1>3, <1>16, <2>1 DEF Kept, KnownNonce
  <2> QED
    BY <1>0, <1>4, <2>2, SizeAssumption
<1>17. ASSUME NEW first \in DOMAIN accepted', NEW again \in DOMAIN accepted',
              first < again, accepted'[first].nonce = accepted'[again].nonce,
              accepted'[first].answered \/ Executed(first)',
              first \notin exposed'
       PROVE  again - first > NonceHistorySize
  <2>1. CASE again \in DOMAIN accepted /\ first \in DOMAIN accepted
    <3>1. accepted[first].answered \/ Executed(first)
      BY <1>4, <1>6, <1>17, <2>1
    <3> QED
      BY <1>4, <1>14, <1>17, <2>1, <3>1 DEF HistoryInv, OnceInv
  <2>2. CASE again = new /\ first \in DOMAIN accepted
    BY <1>4, <1>6, <1>14, <1>16, <1>17, <2>2
  <2>3. first # new
    BY <1>0, <1>4, <1>17
  <2> QED
    BY <1>4, <1>17, <2>1, <2>2, <2>3
<1>18. OnceInv'
  BY <1>17 DEF OnceInv
<1> QED
  BY <1>10, <1>15, <1>18 DEF HistoryInv

\* Nothing new is executed, and no history becomes live.
LEMMA QuietHistoryInv ==
    ASSUME Typing, HistoryInv, QuietStep
    PROVE  HistoryInv'
<1>1. UNCHANGED <<runtime, nonces, disk, accepted, exposed>>
  BY DEF QuietStep, QuietBy
<1>2. /\ \A i : Executed(i)' => Executed(i)
      /\ \A i : Saved(i)' => Saved(i)
      /\ \A r \in Runtimes : Live(r)' => Live(r)
  <2>1. CASE call' = call
    BY <1>1, <2>1 DEF Executed, Saved, Live
  <2>2. ASSUME NEW h \in Handlers, QuietBy(h), call' # call
        PROVE  /\ \A i : Executed(i)' => Executed(i)
               /\ \A i : Saved(i)' => Saved(i)
               /\ \A r \in Runtimes : Live(r)' => Live(r)
    <3>1. ASSUME NEW next, call' = [call EXCEPT ![h] = next],
                 ~(next.pc \in {"saving", "saved"} /\ next.kind # "other"),
                 \/ next.pc = "idle" \/ next.runtime = runtime
                 \/ next.runtime = call[h].runtime /\ call[h].pc # "idle"
          PROVE  /\ \A i : Executed(i)' => Executed(i)
                 /\ \A i : Saved(i)' => Saved(i)
                 /\ \A r \in Runtimes : Live(r)' => Live(r)
      <4>1. \A g \in Handlers : call'[g] = IF g = h THEN next ELSE call[g]
        BY <3>1 DEF Typing
      <4>2. \A i : /\ Executed(i)' => Executed(i)
                   /\ Saved(i)' => Saved(i)
        BY <3>1, <4>1 DEF Executed, Saved
      <4>3. \A r \in Runtimes : Live(r)' => Live(r)
        BY <1>1, <3>1, <4>1 DEF Live
      <4> QED
        BY <4>2, <4>3
    <3>2. CASE call' = [call EXCEPT ![h] = Idle]
      BY <3>1, <3>2 DEF Idle
    <3>3. CASE call' = [call EXCEPT ![h] = [Idle EXCEPT !.pc = "reading",
                                                     !.runtime = runtime]]
      <4> DEFINE next == [Idle EXCEPT !.pc = "reading", !.runtime = runtime]
      <4>1. next.pc = "reading" /\ next.runtime = runtime
        BY DEF Idle
      <4> HIDE DEF next
      <4> QED
        BY <3>1, <3>3, <4>1 DEF next
    <3>4. CASE /\ call[h].pc = "reading"
               /\ call' = [call EXCEPT ![h].pc = "saving",
                                       ![h].kind = "other"]
      <4> DEFINE next == [call[h] EXCEPT !.pc = "saving", !.kind = "other"]
      <4>1. call' = [call EXCEPT ![h] = next]
        BY <3>4 DEF Typing
      <4>2. next.kind = "other" /\ next.runtime = call[h].runtime
        BY DEF Typing
      <4> HIDE DEF next
      <4> QED
        BY <3>1, <3>4, <4>1, <4>2
    <3> QED
      BY <2>2, <3>2, <3>3, <3>4 DEF QuietBy
  <2> QED
    BY <2>1, <2>2 DEF QuietStep
<1> QED
  BY <1>1, <1>2 DEF HistoryInv, ExecutedInv, KeptInv, OnceInv

\* What is on the disk afterwards is the history of a live runtime.
LEMMA WriteHistoryInv ==
    ASSUME Typing, HistoryInv, NEW r \in Runtimes, Write(r)
    PROVE  HistoryInv'
<1>1. disk' = nonces[r] /\ UNCHANGED <<runtime, nonces, accepted, exposed>>
  BY DEF Write
<1>2. Live(r)
  BY DEF Write, Live
<1>3. \A g \in Handlers :
        /\ call'[g].runtime = call[g].runtime
        /\ call'[g].entry = call[g].entry /\ call'[g].kind = call[g].kind
        /\ call'[g].pc = "idle" <=> call[g].pc = "idle"
        /\ call'[g].pc \in {"saving", "saved"}
             <=> call[g].pc \in {"saving", "saved"}
  BY DEF Write, Typing
<1>4. /\ \A i : Executed(i)' <=> Executed(i)
      /\ \A i : Saved(i)' => Executed(i)'
      /\ \A s \in Runtimes : Live(s)' <=> Live(s)
  <2>1. \A i : Saved(i)' => Executed(i)'
    BY DEF Saved, Executed
  <2> QED
    BY <1>1, <1>3, <2>1 DEF Executed, Live
<1>5. ExecutedInv' /\ OnceInv'
  BY <1>1, <1>4 DEF HistoryInv, ExecutedInv, OnceInv
<1>6. KeptInv'
  BY <1>1, <1>2, <1>4 DEF HistoryInv, KeptInv
<1> QED
  BY <1>5, <1>6 DEF HistoryInv

\* The new runtime has what is on the disk, which is all but what is exposed.
LEMMA NewRuntimeHistoryInv ==
    ASSUME Typing, HistoryInv, Reload \/ Restart
    PROVE  HistoryInv'
<1>0. /\ MaxStarts \in Nat /\ runtime \in Nat /\ runtime <= MaxStarts
      /\ 0..runtime \subseteq Runtimes
  BY RuntimeType
<1>1. /\ runtime' = runtime + 1 /\ runtime + 1 \in Runtimes
      /\ nonces' = [nonces EXCEPT ![runtime + 1] = disk]
      /\ UNCHANGED <<disk, accepted>>
      /\ exposed \subseteq exposed'
  BY <1>0 DEF Reload, Restart, NewRuntime, Runtimes
<1>2. \A s \in Runtimes :
        nonces'[s] = IF s = runtime + 1 THEN disk ELSE nonces[s]
  BY <1>1 DEF Typing
<1>3. \A h \in Handlers : call[h].runtime # runtime + 1
  BY <1>0 DEF Typing
<1>4. /\ \A i : Executed(i)' => Executed(i)
      /\ \A i : Saved(i)' => Saved(i)
      /\ \A s \in Runtimes : Live(s)' /\ s # runtime + 1 => Live(s)
  <2>1. CASE call' = call
    BY <1>1, <2>1 DEF Executed, Saved, Live
  <2>2. CASE call' = [h \in Handlers |-> Idle]
    BY <1>1, <2>2 DEF Executed, Saved, Live, Idle
  <2> QED
    BY <2>1, <2>2 DEF Reload, Restart
<1>5. \A i : Executed(i)' /\ i \notin exposed' => Saved(i)
  <2>1. CASE Reload
    <3>1. exposed' = exposed \cup Unwritten /\ call' = call
      BY <2>1 DEF Reload
    <3>2. \A i : Executed(i) => Saved(i) \/ i \in Unwritten
      BY DEF Executed, Saved, Unwritten
    <3> QED
      BY <1>4, <3>1, <3>2
  <2>2. CASE Restart
    BY <2>2 DEF Restart, Executed, Idle
  <2> QED
    BY <2>1, <2>2
<1>6. ExecutedInv'
  BY <1>1, <1>4 DEF HistoryInv, ExecutedInv
<1>7. OnceInv'
  BY <1>1, <1>4 DEF HistoryInv, OnceInv
<1>8. KeptInv'
  <2>1. ASSUME NEW i \in DOMAIN accepted, i \notin exposed',
               accepted[i].answered \/ Executed(i)',
               NEW s \in Runtimes, Live(s)'
        PROVE  Kept(accepted, nonces'[s], i)
    <3>1. CASE s = runtime + 1
      <4>1. accepted[i].answered \/ Saved(i)
        BY <1>5, <2>1
      <4>2. Kept(accepted, disk, i)
        BY <1>1, <2>1, <4>1 DEF HistoryInv, KeptInv
      <4> QED
        BY <1>2, <3>1, <4>2
    <3>2. CASE s # runtime + 1
      BY <1>1, <1>2, <1>4, <2>1, <3>2 DEF HistoryInv, KeptInv
    <3> QED
      BY <3>1, <3>2
  <2>2. ASSUME NEW i \in DOMAIN accepted, i \notin exposed',
               accepted[i].answered \/ Saved(i)'
        PROVE  Kept(accepted, disk, i)
    BY <1>1, <1>4, <2>2 DEF HistoryInv, KeptInv
  <2> QED
    BY <1>1, <2>1, <2>2 DEF KeptInv
<1> QED
  BY <1>6, <1>7, <1>8 DEF HistoryInv

\* What is answered was saved.
LEMMA AnswerHistoryInv ==
    ASSUME Typing, HistoryInv, NEW h \in Handlers, Answer(h)
    PROVE  HistoryInv'
<1> DEFINE entry == call[h].entry
<1>1. Saved(entry) /\ Executed(entry)
  BY DEF Answer, Saved, Executed
<1>2. /\ UNCHANGED <<runtime, nonces, disk, exposed>>
      /\ \A i : Executed(i)' => Executed(i)
      /\ \A i : Saved(i)' => Saved(i)
      /\ \A r \in Runtimes : Live(r)' => Live(r)
  BY DEF Answer, Executed, Saved, Live, Idle, Typing
<1>3. /\ Len(accepted') = Len(accepted) /\ DOMAIN accepted' = DOMAIN accepted
      /\ \A i \in DOMAIN accepted :
           /\ accepted'[i].nonce = accepted[i].nonce
           /\ accepted'[i].answered => accepted[i].answered \/ i = entry
  <2>1. /\ accepted' \in Seq(Entry) /\ Len(accepted') = Len(accepted)
        /\ accepted \in Seq(Entry)
    BY AnswerEffect DEF Typing
  <2>2. DOMAIN accepted' = DOMAIN accepted
    BY <2>1, LenProperties
  <2> QED
    BY <2>1, <2>2, AnswerEffect
<1> HIDE DEF entry
<1>4. \A i \in DOMAIN accepted : \A history :
        Kept(accepted, history, i) => Kept(accepted', history, i)
  BY <1>3 DEF Kept
<1>5. ExecutedInv'
  BY <1>2, <1>3 DEF HistoryInv, ExecutedInv
<1>6. \A i \in DOMAIN accepted :
        /\ accepted'[i].answered \/ Executed(i)'
             => accepted[i].answered \/ Executed(i)
        /\ accepted'[i].answered \/ Saved(i)'
             => accepted[i].answered \/ Saved(i)
  BY <1>1, <1>2, <1>3
<1>7. KeptInv'
  <2>1. ASSUME NEW i \in DOMAIN accepted, i \notin exposed
        PROVE  /\ accepted'[i].answered \/ Executed(i)'
                    => \A r \in Runtimes :
                         Live(r)' => Kept(accepted', nonces[r], i)
               /\ accepted'[i].answered \/ Saved(i)'
                    => Kept(accepted', disk, i)
    BY <1>2, <1>4, <1>6, <2>1 DEF HistoryInv, KeptInv
  <2> QED
    BY <1>2, <1>3, <2>1 DEF KeptInv
<1>8. OnceInv'
  BY <1>2, <1>3, <1>6 DEF HistoryInv, OnceInv
<1> QED
  BY <1>5, <1>7, <1>8 DEF HistoryInv

LEMMA NextHistoryInv == Typing /\ HistoryInv /\ [Next]_vars => HistoryInv'
BY Steps, AcceptHistoryInv, QuietHistoryInv, WriteHistoryInv,
   NewRuntimeHistoryInv, AnswerHistoryInv

-----------------------------------------------------------------------------
(***************************************************************************)
(* The theorems.                                                           *)
(***************************************************************************)
LEMMA InitHistoryInv == Init => Typing /\ HistoryInv
<1> SUFFICES ASSUME Init PROVE Typing /\ HistoryInv
  OBVIOUS
<1>1. Typing
  BY FS_EmptySet, StartsAssumption DEF Init, Typing, Idle, Runtimes
<1>2. HistoryInv
  <2>1. DOMAIN accepted = {} /\ \A i : ~Executed(i)
    BY DEF Init, Executed, Idle
  <2> QED
    BY <2>1 DEF HistoryInv, ExecutedInv, KeptInv, OnceInv
<1> QED
  BY <1>1, <1>2

\* The invariant holds in every reachable state.
THEOREM HistoryInvariant == Spec => [](Typing /\ HistoryInv)
BY InitHistoryInv, NextTyping, NextHistoryInv, PTL DEF Spec

\* A request that was answered is accepted again only when as many others as
\* the history holds were accepted since, across any number of restarts and
\* reloads, except for what a reload may lose: what was not in the file when
\* the new runtime read it, and what was accepted while a handler of an older
\* runtime was under way.
THEOREM AcceptedOnce == Spec => []AcceptedOncePerHistory
<1>1. HistoryInv => AcceptedOncePerHistory
  BY DEF HistoryInv, OnceInv, AcceptedOncePerHistory
<1> QED
  BY <1>1, HistoryInvariant, PTL

(***************************************************************************)
(* The limiter.                                                            *)
(***************************************************************************)
\* The list without its first items.
Without(part, whole, dropped) ==
    /\ Len(part) = Len(whole) - dropped
    /\ \A i \in 1..Len(part) : part[i] = whole[dropped + i]

\* The first item of the list that is young.
FirstYoung(times, k) ==
    /\ \A i \in 1..(k - 1) : ~(times[i] > now - RateWindow)
    /\ \A i \in k..Len(times) : times[i] > now - RateWindow

Ascending(times) ==
    \A i, j \in 1..Len(times) : i <= j => times[i] <= times[j]

\* At a time: the short list is the list of all that was admitted, without
\* items that are old and stay so.
ShortOf(time, short, all) ==
    /\ short \in Seq(Nat) /\ all \in Seq(Nat)
    /\ Ascending(all) /\ \A i \in 1..Len(all) : all[i] <= time
    /\ \E dropped \in 0..Len(all) :
         /\ Without(short, all, dropped)
         /\ \A i \in 1..dropped : all[i] <= time - RateWindow

Limited(all) ==
    \A i \in DOMAIN all : i > Limit => all[i] - all[i - Limit] >= RateWindow

LimiterInv ==
    /\ now \in Nat
    /\ attempts \in [Runtimes -> Seq(Nat)] /\ admitted \in [Runtimes -> Seq(Nat)]
    /\ \A r \in Runtimes : /\ ShortOf(now, attempts[r], admitted[r])
                           /\ Limited(admitted[r])

\* The order of the natural numbers, as a set of pairs.
LEMMA LessIsWellFounded ==
    \E R : /\ IsWellFoundedOn(R, Nat)
           /\ \A x, y \in Nat : y < x => <<y, x>> \in R
<1> DEFINE R == OpToRel(<, Nat)
<1>1. IsWellFoundedOn(R, Nat)
  BY NatLessThanWellFounded
<1>2. \A x, y \in Nat : y < x => <<y, x>> \in R
  BY DEF OpToRel
<1> HIDE DEF R
<1> QED
  BY <1>1, <1>2

\* A set of natural numbers has a least one.
LEMMA LeastNumber ==
    ASSUME NEW T, T \subseteq Nat, T # {}
    PROVE  \E x \in T : \A y \in T : x <= y
<1>1. PICK R : /\ IsWellFoundedOn(R, Nat)
               /\ \A x, y \in Nat : y < x => <<y, x>> \in R
  BY LessIsWellFounded
<1>2. PICK x \in T : \A y \in T : ~(<<y, x>> \in R)
  BY <1>1, WFMin
<1>3. \A y \in T : ~(y < x) /\ y \in Nat /\ x \in Nat
  BY <1>1, <1>2
<1> QED
  BY <1>2, <1>3

\* An ascending list is split into the old and the young.
LEMMA Splits ==
    ASSUME now \in Nat, NEW times \in Seq(Nat), Ascending(times)
    PROVE  \E k \in 1..(Len(times) + 1) : FirstYoung(times, k)
<1> DEFINE T == {i \in 1..Len(times) : times[i] > now - RateWindow}
<1>1. RateWindow \in Nat /\ Len(times) \in Nat
      /\ \A i \in 1..Len(times) : times[i] \in Nat
  BY WindowAssumption
<1>2. CASE T = {}
  <2>1. FirstYoung(times, Len(times) + 1)
    BY <1>1, <1>2 DEF FirstYoung
  <2> QED
    BY <1>1, <2>1
<1>3. CASE T # {}
  <2>1. T \subseteq Nat
    OBVIOUS
  <2> HIDE DEF T
  <2>2. PICK k \in T : \A i \in T : k <= i
    BY <1>3, <2>1, LeastNumber
  <2>3. k \in 1..Len(times) /\ times[k] > now - RateWindow
    BY <2>2 DEF T
  <2>4. ASSUME NEW i \in 1..(k - 1) PROVE ~(times[i] > now - RateWindow)
    BY <1>1, <2>2, <2>3 DEF T
  <2>5. ASSUME NEW i \in k..Len(times) PROVE times[i] > now - RateWindow
    <3>1. i \in 1..Len(times) /\ k <= i
      BY <1>1, <2>3
    <3>2. times[k] <= times[i]
      BY <2>3, <3>1 DEF Ascending
    <3> QED
      BY <1>1, <2>3, <3>1, <3>2
  <2>6. k \in 1..(Len(times) + 1)
    BY <1>1, <2>3
  <2>7. FirstYoung(times, k)
    BY <2>4, <2>5 DEF FirstYoung
  <2> QED
    BY <2>6, <2>7
<1> QED
  BY <1>2, <1>3

\* Recent drops the old.
LEMMA RecentDrops ==
    ASSUME NEW times \in Seq(Nat), NEW k \in 1..(Len(times) + 1),
           FirstYoung(times, k)
    PROVE  Recent(times) \in Seq(Nat) /\ Without(Recent(times), times, k - 1)
<1> DEFINE first == CHOOSE l \in 1..(Len(times) + 1) : FirstYoung(times, l)
<1>1. first \in 1..(Len(times) + 1) /\ FirstYoung(times, first)
  <2>1. \E l \in 1..(Len(times) + 1) : FirstYoung(times, l)
    OBVIOUS
  <2> HIDE DEF FirstYoung
  <2> QED
    BY <2>1
<1>2. Recent(times) = SubSeq(times, first, Len(times))
  BY DEF Recent, FirstYoung
<1> HIDE DEF first
<1>3. Len(times) \in Nat /\ first \in Int /\ k \in Int
  BY <1>1
<1>4. first = k
  <2>1. CASE first < k
    <3>1. first \in 1..(k - 1) /\ first \in first..Len(times)
      BY <1>1, <1>3, <2>1
    <3> QED
      BY <1>1, <3>1 DEF FirstYoung
  <2>2. CASE k < first
    <3>1. k \in 1..(first - 1) /\ k \in k..Len(times)
      BY <1>1, <1>3, <2>2
    <3> QED
      BY <1>1, <3>1 DEF FirstYoung
  <2> QED
    BY <1>3, <2>1, <2>2
<1>5. \A i \in k..Len(times) : times[i] \in Nat
  OBVIOUS
<1>6. /\ Recent(times) \in Seq(Nat)
      /\ Len(Recent(times)) = Len(times) - (k - 1)
      /\ \A i \in 1..(Len(times) - k + 1) :
           Recent(times)[i] = times[k + i - 1]
  BY <1>2, <1>3, <1>4, <1>5, SubSeqProperties
<1>7. ASSUME NEW i \in 1..Len(Recent(times))
      PROVE  Recent(times)[i] = times[(k - 1) + i]
  <2>1. i \in 1..(Len(times) - k + 1) /\ k + i - 1 = (k - 1) + i
    BY <1>3, <1>6
  <2> QED
    BY <1>6, <2>1
<1> QED
  BY <1>6, <1>7 DEF Without

\* The short list has the young of the list of all that was admitted.
LEMMA RecentAttempts ==
    ASSUME now \in Nat, NEW short, NEW all, ShortOf(now, short, all),
           NEW k \in 1..(Len(all) + 1), FirstYoung(all, k)
    PROVE  /\ Recent(short) \in Seq(Nat)
           /\ Without(Recent(short), all, k - 1)
<1>1. PICK dropped \in 0..Len(all) :
        /\ Without(short, all, dropped)
        /\ \A i \in 1..dropped : all[i] <= now - RateWindow
  BY DEF ShortOf
<1>2. /\ now \in Nat /\ RateWindow \in Nat /\ short \in Seq(Nat)
      /\ Len(all) \in Nat /\ Len(short) \in Nat
      /\ \A i \in 1..Len(all) : all[i] \in Nat
  BY WindowAssumption DEF ShortOf
<1>3. dropped < k
  <2> SUFFICES ASSUME k <= dropped PROVE FALSE
    BY <1>1, <1>2
  <2>1. k \in 1..dropped /\ k \in k..Len(all) /\ k \in 1..Len(all)
    BY <1>1, <1>2
  <2>2. all[k] <= now - RateWindow /\ all[k] > now - RateWindow
    BY <1>1, <2>1 DEF FirstYoung
  <2> QED
    BY <1>2, <2>1, <2>2
<1>4. /\ k - dropped \in 1..(Len(short) + 1)
      /\ Len(short) = Len(all) - dropped
  BY <1>1, <1>2, <1>3 DEF Without
<1>5. FirstYoung(short, k - dropped)
  <2>1. ASSUME NEW i \in 1..Len(short)
        PROVE  short[i] = all[dropped + i]
    BY <1>1 DEF Without
  <2>2. ASSUME NEW i \in 1..((k - dropped) - 1)
        PROVE  ~(short[i] > now - RateWindow)
    <3>1. i \in 1..Len(short) /\ dropped + i \in 1..(k - 1)
      BY <1>1, <1>2, <1>3, <1>4
    <3> QED
      BY <2>1, <3>1 DEF FirstYoung
  <2>3. ASSUME NEW i \in (k - dropped)..Len(short)
        PROVE  short[i] > now - RateWindow
    <3>1. i \in 1..Len(short) /\ dropped + i \in k..Len(all)
      BY <1>1, <1>2, <1>3, <1>4
    <3> QED
      BY <2>1, <3>1 DEF FirstYoung
  <2> QED
    BY <2>2, <2>3 DEF FirstYoung
<1>6. /\ Recent(short) \in Seq(Nat)
      /\ Without(Recent(short), short, (k - dropped) - 1)
  BY <1>2, <1>4, <1>5, RecentDrops
<1>7. Len(Recent(short)) = Len(all) - (k - 1)
  BY <1>2, <1>3, <1>4, <1>6 DEF Without
<1>8. ASSUME NEW i \in 1..Len(Recent(short))
      PROVE  Recent(short)[i] = all[(k - 1) + i]
  <2>1. Recent(short)[i] = short[((k - dropped) - 1) + i]
    BY <1>6 DEF Without
  <2>2. /\ ((k - dropped) - 1) + i \in 1..Len(short)
        /\ dropped + (((k - dropped) - 1) + i) = (k - 1) + i
    BY <1>1, <1>2, <1>3, <1>4, <1>7
  <2>3. short[((k - dropped) - 1) + i]
          = all[dropped + (((k - dropped) - 1) + i)]
    BY <1>1, <2>2 DEF Without
  <2> QED
    BY <2>1, <2>2, <2>3
<1> QED
  BY <1>6, <1>7, <1>8 DEF Without

\* The list that Recent leaves is the end of what was admitted, and what is
\* missing is old.
LEMMA RecentEnd ==
    ASSUME now \in Nat, NEW short, NEW all, ShortOf(now, short, all)
    PROVE  \E k \in 1..(Len(all) + 1) :
             /\ Recent(short) \in Seq(Nat)
             /\ Without(Recent(short), all, k - 1)
             /\ \A i \in 1..(k - 1) : all[i] <= now - RateWindow
<1>1. PICK k \in 1..(Len(all) + 1) : FirstYoung(all, k)
  BY Splits DEF ShortOf
<1>2. /\ Recent(short) \in Seq(Nat)
      /\ Without(Recent(short), all, k - 1)
  BY <1>1, RecentAttempts
<1>3. ASSUME NEW i \in 1..(k - 1) PROVE all[i] <= now - RateWindow
  <2>1. ~(all[i] > now - RateWindow)
    BY <1>1 DEF FirstYoung
  <2>2. i \in 1..Len(all) /\ Len(all) \in Nat
    BY DEF ShortOf
  <2>3. /\ all[i] \in Nat /\ now \in Nat /\ RateWindow \in Nat
    BY <2>2, WindowAssumption DEF ShortOf
  <2> QED
    BY <2>1, <2>3
<1> QED
  BY <1>2, <1>3

\* An admitted request is the newest, and fewer before it than the limit are
\* within the window.
LEMMA OneMore ==
    ASSUME now \in Nat, NEW short, NEW all, ShortOf(now, short, all),
           Limited(all), Len(Recent(short)) < Limit
    PROVE  /\ ShortOf(now, Append(Recent(short), now), Append(all, now))
           /\ Limited(Append(all, now))
<1> DEFINE n == Len(all)
           recent == Recent(short)
           newShort == Append(recent, now)
           newAll == Append(all, now)
<1>0. /\ now \in Nat /\ short \in Seq(Nat) /\ all \in Seq(Nat)
      /\ n \in Nat /\ RateWindow \in Nat /\ Limit \in Nat \ {0}
      /\ Ascending(all) /\ \A i \in 1..n : all[i] <= now
      /\ \A i \in 1..n : all[i] \in Nat
      /\ DOMAIN all = 1..n
  BY SizeAssumption, WindowAssumption, LenProperties DEF ShortOf
<1>1. PICK k \in 1..(n + 1) :
        /\ recent \in Seq(Nat) /\ Without(recent, all, k - 1)
        /\ \A i \in 1..(k - 1) : all[i] <= now - RateWindow
  BY RecentEnd
<1>2. Len(recent) < Limit
  OBVIOUS
<1> HIDE DEF recent
<1>3. /\ newShort \in Seq(Nat) /\ Len(newShort) = Len(recent) + 1
      /\ \A i \in 1..Len(recent) : newShort[i] = recent[i]
      /\ newShort[Len(recent) + 1] = now
  BY <1>0, <1>1, <1>2
<1>4. /\ newAll \in Seq(Nat) /\ Len(newAll) = n + 1
      /\ \A i \in 1..n : newAll[i] = all[i]
      /\ newAll[n + 1] = now
  BY <1>0, <1>2
<1>5. /\ Len(recent) \in Nat /\ Len(recent) = n - (k - 1)
      /\ \A i \in 1..Len(recent) : recent[i] = all[(k - 1) + i]
  BY <1>1 DEF Without
<1>6. DOMAIN newAll = 1..(n + 1)
  BY <1>4, LenProperties
<1> HIDE DEF n, newShort, newAll
<1>7. Ascending(newAll) /\ \A i \in 1..(n + 1) : newAll[i] <= now
  <2>1. \A i \in 1..(n + 1) : i \in 1..n \/ i = n + 1
    BY <1>0
  <2>2. ASSUME NEW i \in 1..(n + 1)
        PROVE  newAll[i] <= now /\ newAll[i] \in Nat
    <3>1. CASE i \in 1..n
      <4>1. newAll[i] = all[i] /\ all[i] <= now /\ all[i] \in Nat
        BY <1>0, <1>4, <3>1
      <4> QED
        BY <4>1
    <3>2. CASE i = n + 1
      BY <1>0, <1>4, <3>2
    <3> QED
      BY <2>1, <3>1, <3>2
  <2>3. ASSUME NEW i \in 1..(n + 1), NEW j \in 1..(n + 1), i <= j
        PROVE  newAll[i] <= newAll[j]
    <3>1. CASE j \in 1..n
      <4>1. i \in 1..n /\ n = Len(all)
        BY <1>0, <2>3, <3>1 DEF n
      <4> QED
        BY <1>0, <1>4, <2>3, <3>1, <4>1 DEF Ascending
    <3>2. CASE j = n + 1
      BY <1>4, <2>2, <3>2
    <3> QED
      BY <2>1, <3>1, <3>2
  <2> QED
    BY <1>4, <2>2, <2>3 DEF Ascending
<1>8. Without(newShort, newAll, k - 1)
  <2>1. Len(newShort) = Len(newAll) - (k - 1)
    BY <1>0, <1>3, <1>4, <1>5
  <2>2. ASSUME NEW i \in 1..(Len(recent) + 1)
        PROVE  newShort[i] = newAll[(k - 1) + i]
    <3>1. CASE i = Len(recent) + 1
      <4>1. (k - 1) + i = n + 1
        BY <1>0, <1>5, <3>1
      <4> QED
        BY <1>3, <1>4, <3>1, <4>1
    <3>2. CASE i # Len(recent) + 1
      <4>1. i \in 1..Len(recent) /\ (k - 1) + i \in 1..n
        BY <1>0, <1>5, <3>2
      <4> QED
        BY <1>3, <1>4, <1>5, <4>1
    <3> QED
      BY <3>1, <3>2
  <2> QED
    BY <1>3, <2>1, <2>2 DEF Without
<1>9. /\ k - 1 \in 0..(n + 1)
      /\ \A i \in 1..(k - 1) : newAll[i] <= now - RateWindow
  <2>1. k - 1 \in 0..(n + 1)
    BY <1>0, <1>1
  <2>2. ASSUME NEW i \in 1..(k - 1) PROVE newAll[i] <= now - RateWindow
    <3>1. i \in 1..n
      BY <1>0, <1>1
    <3>2. newAll[i] = all[i] /\ all[i] <= now - RateWindow
      BY <1>1, <1>4, <3>1
    <3> QED
      BY <3>2
  <2> QED
    BY <2>1, <2>2
<1>10. \A i \in 1..(n + 1) :
         i > Limit => newAll[i] - newAll[i - Limit] >= RateWindow
  <2> SUFFICES ASSUME NEW i \in 1..(n + 1), i > Limit
               PROVE  newAll[i] - newAll[i - Limit] >= RateWindow
    OBVIOUS
  <2>1. i - Limit \in 1..n
    BY <1>0
  <2>2. CASE i = n + 1
    <3>1. i - Limit \in 1..(k - 1)
      BY <1>0, <1>2, <1>5, <2>1, <2>2
    <3>2. all[i - Limit] <= now - RateWindow
      BY <1>1, <3>1
    <3> QED
      BY <1>0, <1>4, <2>1, <2>2, <3>2
  <2>3. CASE i # n + 1
    <3>1. i \in 1..n
      BY <1>0, <2>3
    <3> QED
      BY <1>0, <1>4, <2>1, <3>1 DEF Limited
  <2> QED
    BY <2>2, <2>3
<1>11. Limited(newAll)
  BY <1>6, <1>10 DEF Limited
<1>12. \E dropped \in 0..Len(newAll) :
         /\ Without(newShort, newAll, dropped)
         /\ \A i \in 1..dropped : newAll[i] <= now - RateWindow
  BY <1>4, <1>8, <1>9
<1>13. ShortOf(now, newShort, newAll)
  BY <1>3, <1>4, <1>7, <1>12 DEF ShortOf
<1> QED
  BY <1>11, <1>13 DEF newShort, newAll, recent

\* What is old stays so.
LEMMA ShortOfLater ==
    ASSUME NEW time \in Nat, NEW short, NEW all, ShortOf(time, short, all)
    PROVE  ShortOf(time + 1, short, all)
<1>1. PICK dropped \in 0..Len(all) :
        /\ Without(short, all, dropped)
        /\ \A i \in 1..dropped : all[i] <= time - RateWindow
  BY DEF ShortOf
<1>2. /\ RateWindow \in Nat /\ Len(all) \in Nat
      /\ \A i \in 1..Len(all) : all[i] \in Nat /\ all[i] <= time
  BY WindowAssumption DEF ShortOf
<1>3. PICK later : later = time + 1
  OBVIOUS
<1>4. ASSUME NEW i \in 1..dropped PROVE all[i] <= later - RateWindow
  <2>1. i \in 1..Len(all)
    BY <1>2
  <2> QED
    BY <1>1, <1>2, <1>3, <2>1
<1>5. \A i \in 1..Len(all) : all[i] <= later
  BY <1>2, <1>3
<1>6. \E cut \in 0..Len(all) : /\ Without(short, all, cut)
                               /\ \A i \in 1..cut : all[i] <= later - RateWindow
  BY <1>1, <1>4
<1>7. short \in Seq(Nat) /\ all \in Seq(Nat) /\ Ascending(all)
  BY DEF ShortOf
<1>8. ShortOf(later, short, all)
  BY <1>5, <1>6, <1>7 DEF ShortOf
<1> QED
  BY <1>3, <1>8

\* One list becomes longer, the others stay.
LEMMA TimeSyncLimiterInv ==
    ASSUME LimiterInv, NEW h \in Handlers, TimeSync(h)
    PROVE  LimiterInv'
<1> DEFINE r == call[h].runtime
<1>1. /\ now' = now /\ Len(Recent(attempts[r])) < Limit
      /\ attempts' = [attempts EXCEPT ![r] = Append(Recent(attempts[r]), now)]
      /\ admitted' = [admitted EXCEPT ![r] = Append(admitted[r], now)]
  BY DEF TimeSync, Accept, Allowed, LimiterInv
<1> HIDE DEF r
<1>2. ASSUME r \in Runtimes
      PROVE  LET short == Append(Recent(attempts[r]), now)
                 all == Append(admitted[r], now)
             IN  /\ ShortOf(now, short, all) /\ Limited(all)
                 /\ short \in Seq(Nat) /\ all \in Seq(Nat)
  <2>1. /\ now \in Nat /\ ShortOf(now, attempts[r], admitted[r])
        /\ Limited(admitted[r])
    BY <1>2 DEF LimiterInv
  <2>2. PICK past, all : past = attempts[r] /\ all = admitted[r]
    OBVIOUS
  <2>3. /\ ShortOf(now, Append(Recent(past), now), Append(all, now))
        /\ Limited(Append(all, now))
    BY <1>1, <2>1, <2>2, OneMore
  <2> QED
    BY <2>2, <2>3 DEF ShortOf
<1>3. \A s \in Runtimes :
        /\ attempts'[s] = IF s = r THEN Append(Recent(attempts[r]), now)
                                  ELSE attempts[s]
        /\ admitted'[s] = IF s = r THEN Append(admitted[r], now)
                                  ELSE admitted[s]
  BY <1>1 DEF LimiterInv
<1>4. /\ attempts' \in [Runtimes -> Seq(Nat)]
      /\ admitted' \in [Runtimes -> Seq(Nat)]
  <2>1. CASE r \in Runtimes
    BY <1>1, <1>2, <2>1 DEF LimiterInv
  <2>2. CASE r \notin Runtimes
    BY <1>1, <2>2 DEF LimiterInv
  <2> QED
    BY <2>1, <2>2
<1>5. \A s \in Runtimes : /\ ShortOf(now, attempts'[s], admitted'[s])
                          /\ Limited(admitted'[s])
  BY <1>2, <1>3 DEF LimiterInv
<1> QED
  BY <1>1, <1>4, <1>5 DEF LimiterInv

\* The list of a limiter that denies becomes shorter.
LEMMA DenyLimiterInv ==
    ASSUME LimiterInv, NEW h \in Handlers, DenyTimeSync(h)
    PROVE  LimiterInv'
<1> DEFINE r == call[h].runtime
<1>1. /\ UNCHANGED <<now, admitted>>
      /\ attempts' = [attempts EXCEPT ![r] = Recent(attempts[r])]
  BY DEF DenyTimeSync, Denied, LimiterInv
<1> HIDE DEF r
<1>2. ASSUME r \in Runtimes
      PROVE  /\ Recent(attempts[r]) \in Seq(Nat)
             /\ ShortOf(now, Recent(attempts[r]), admitted[r])
  <2>1. PICK past, all : past = attempts[r] /\ all = admitted[r]
    OBVIOUS
  <2>2. now \in Nat /\ ShortOf(now, past, all)
    BY <1>2, <2>1 DEF LimiterInv
  <2>3. PICK k \in 1..(Len(all) + 1) :
          /\ Recent(past) \in Seq(Nat) /\ Without(Recent(past), all, k - 1)
          /\ \A i \in 1..(k - 1) : all[i] <= now - RateWindow
    BY <2>2, RecentEnd
  <2>4. k - 1 \in 0..Len(all)
    BY <2>2 DEF ShortOf
  <2>5. ShortOf(now, Recent(past), all)
    BY <2>2, <2>3, <2>4 DEF ShortOf
  <2> QED
    BY <2>1, <2>3, <2>5
<1>3. \A s \in Runtimes :
        attempts'[s] = IF s = r THEN Recent(attempts[r]) ELSE attempts[s]
  BY <1>1 DEF LimiterInv
<1>4. attempts' \in [Runtimes -> Seq(Nat)]
  <2>1. CASE r \in Runtimes
    BY <1>1, <1>2, <2>1 DEF LimiterInv
  <2>2. CASE r \notin Runtimes
    BY <1>1, <2>2 DEF LimiterInv
  <2> QED
    BY <2>1, <2>2
<1>5. \A s \in Runtimes : ShortOf(now, attempts'[s], admitted[s])
  BY <1>2, <1>3 DEF LimiterInv
<1> QED
  BY <1>1, <1>4, <1>5 DEF LimiterInv

\* Every step keeps the invariant.
LEMMA NextLimiterInv == LimiterInv /\ [Next]_vars => LimiterInv'
<1> SUFFICES ASSUME LimiterInv, [Next]_vars PROVE LimiterInv'
  OBVIOUS
<1>1. CASE PassTime
  <2>1. now' = now + 1 /\ UNCHANGED <<attempts, admitted>>
    BY <1>1 DEF PassTime
  <2>2. \A r \in Runtimes : ShortOf(now', attempts[r], admitted[r])
    <3> SUFFICES ASSUME NEW r \in Runtimes
                 PROVE  ShortOf(now + 1, attempts[r], admitted[r])
      BY <2>1
    <3>1. PICK time, past, all :
            time = now /\ past = attempts[r] /\ all = admitted[r]
      OBVIOUS
    <3>2. ShortOf(time + 1, past, all)
      BY <3>1, ShortOfLater DEF LimiterInv
    <3> QED
      BY <3>1, <3>2
  <2>3. now' \in Nat
    BY <2>1 DEF LimiterInv
  <2> QED
    BY <2>1, <2>2, <2>3 DEF LimiterInv
<1>2. CASE UNCHANGED <<now, attempts, admitted>>
  BY <1>2 DEF LimiterInv
<1>3. CASE \/ \E h \in Handlers : \/ Arrive(h) \/ CheckIn(h) \/ SaveOther(h)
                                  \/ Answer(h) \/ Leave(h)
           \/ \E r \in Runtimes : Write(r)
           \/ Reload \/ Restart \/ UNCHANGED vars
  BY <1>2, <1>3 DEF Arrive, CheckIn, Accept, SaveOther, Answer, Leave, Write,
                    Reload, Restart, NewRuntime, vars
<1> QED
  BY <1>1, <1>3, TimeSyncLimiterInv, DenyLimiterInv DEF Next

LEMMA InitLimiterInv == Init => LimiterInv
<1> SUFFICES ASSUME Init PROVE LimiterInv
  OBVIOUS
<1>1. /\ now = 0
      /\ \A r \in Runtimes : attempts[r] = <<>> /\ admitted[r] = <<>>
      /\ attempts \in [Runtimes -> Seq(Nat)] /\ admitted \in [Runtimes -> Seq(Nat)]
  BY DEF Init
<1>2. ASSUME NEW short, NEW all, short = <<>>, all = <<>>
      PROVE  ShortOf(0, short, all) /\ Limited(all)
  <2>1. /\ short \in Seq(Nat) /\ all \in Seq(Nat)
        /\ Len(short) = 0 /\ Len(all) = 0 /\ DOMAIN all = {}
    BY <1>2
  <2>2. Without(short, all, 0) /\ Ascending(all)
    BY <2>1 DEF Without, Ascending
  <2> QED
    BY <2>1, <2>2 DEF ShortOf, Limited
<1>3. \A r \in Runtimes : /\ ShortOf(0, attempts[r], admitted[r])
                          /\ Limited(admitted[r])
  BY <1>1, <1>2
<1> QED
  BY <1>1, <1>3 DEF LimiterInv

\* The invariant of the limiters holds in every reachable state.
THEOREM LimiterInvariant == Spec => []LimiterInv
BY InitLimiterInv, NextLimiterInv, PTL DEF Spec

\* The short list a limiter keeps decides as the list of all requests it
\* admitted would.
THEOREM LimiterDecidesExactly == Spec => []LimiterIsExact
<1>1. LimiterInv => LimiterIsExact
  <2> SUFFICES ASSUME LimiterInv, NEW r \in Runtimes
               PROVE  Recent(attempts[r]) = Recent(admitted[r])
    BY DEF LimiterIsExact
  <2>1. PICK short, all : short = attempts[r] /\ all = admitted[r]
    OBVIOUS
  <2>2. now \in Nat /\ ShortOf(now, short, all)
    BY <2>1 DEF LimiterInv
  <2>3. PICK k \in 1..(Len(all) + 1) : FirstYoung(all, k)
    BY <2>2, Splits DEF ShortOf
  <2>4. /\ Recent(short) \in Seq(Nat) /\ Without(Recent(short), all, k - 1)
    BY <2>2, <2>3, RecentAttempts
  <2>5. /\ Recent(all) \in Seq(Nat) /\ Without(Recent(all), all, k - 1)
    BY <2>2, <2>3, RecentDrops DEF ShortOf
  <2>6. PICK s \in Seq(Nat), t \in Seq(Nat) :
          s = Recent(short) /\ t = Recent(all)
    BY <2>4, <2>5
  <2>7. Len(s) = Len(t) /\ \A i \in 1..Len(s) : s[i] = t[i]
    BY <2>4, <2>5, <2>6 DEF Without
  <2>8. s = t
    BY <2>7, SeqEqual
  <2> QED
    BY <2>1, <2>6, <2>8
<1> QED
  BY <1>1, LimiterInvariant, PTL

\* The requests that one limiter admits, those of one runtime, are within the
\* limit in any rolling window.
THEOREM EachLimiterKeepsItsLimit == Spec => []LimitOfEachLimiter
<1>1. LimiterInv => LimitOfEachLimiter
  BY DEF LimiterInv, Limited, LimitOfEachLimiter
<1> QED
  BY <1>1, LimiterInvariant, PTL
=============================================================================
