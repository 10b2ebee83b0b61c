---------------------------- MODULE WakePlanProofs ----------------------------
(***************************************************************************)
(* The wake plan, for every schedule, time zone, correction and number of  *)
(* events: which boundary a check-in is given (HalfOfTheRealCycle), that   *)
(* it is never a near one (NoSecondRefresh), that a display gets every     *)
(* boundary once (BoundariesInOrder), and that it is available until it    *)
(* wakes (AvailableUntilItWakes).                                          *)
(***************************************************************************)
EXTENDS WakePlan, WellFoundedInduction, TLAPS

-----------------------------------------------------------------------------
(***************************************************************************)
(* The first of a set of minutes.                                          *)
(***************************************************************************)
\* The order of the natural numbers, as a set of pairs.
LEMMA LessIsWellFounded ==
    \E R : /\ IsWellFoundedOn(R, Nat)
           /\ \A x, y \in Nat : y < x => <<y, x>> \in R
<1> DEFINE R == OpToRel(<, Nat)
<1>1. IsWellFoundedOn(R, Nat)
  BY NatLessThanWellFounded
<1>2. \A x, y \in Nat : y < x => <<y, x>> \in R
  BY DEF OpToRel
<1> HIDE DEF R
<1> QED
  BY <1>1, <1>2

LEMMA LeastNumber ==
    ASSUME NEW T, T \subseteq Nat, T # {}
    PROVE  \E x \in T : \A y \in T : x <= y
<1>1. PICK R : /\ IsWellFoundedOn(R, Nat)
               /\ \A x, y \in Nat : y < x => <<y, x>> \in R
  BY LessIsWellFounded
<1>2. PICK x \in T : \A y \in T : ~(<<y, x>> \in R)
  BY <1>1, WFMin
<1>3. \A y \in T : ~(y < x) /\ y \in Nat /\ x \in Nat
  BY <1>1, <1>2
<1> QED
  BY <1>2, <1>3

\* The first of a set of minutes from a on.
LEMMA FirstMinute ==
    ASSUME NEW a \in Int, NEW T, \A t \in T : t \in Int /\ a <= t, T # {}
    PROVE  \E m \in T : \A e \in a..(m - 1) : e \notin T
<1> DEFINE D == {t - a : t \in T}
<1>1. D \subseteq Nat /\ D # {}
  OBVIOUS
<1> HIDE DEF D
<1>2. PICK d \in D : \A e \in D : d <= e
  BY <1>1, LeastNumber
<1>3. PICK m \in T : d = m - a
  BY DEF D
<1>4. ASSUME NEW e \in a..(m - 1), e \in T PROVE FALSE
  <2>1. e - a \in D
    BY <1>4 DEF D
  <2> QED
    BY <1>2, <1>3, <1>4, <2>1
<1> QED
  BY <1>4

-----------------------------------------------------------------------------
(***************************************************************************)
(* Boundaries.                                                             *)
(***************************************************************************)
Schedule == [Hours -> IntervalOptions]

\* Each side of the transition has a boundary in every hour.
LEMMA BoundaryAhead ==
    ASSUME NEW z \in Zones, NEW schedule \in Schedule, NEW minute \in Int
    PROVE  \E m \in minute..(minute + 119) : IsBoundary(m, z, schedule)
<1>0. z.at \in Int /\ z.before \in Int /\ z.after \in Int
  BY ZoneAssumption
<1>1. ASSUME NEW m \in Int, LocalMinute(m, z) % 60 = 0
      PROVE  IsBoundary(m, z, schedule)
  <2>1. LocalMinute(m, z) \in Int
    BY <1>0 DEF LocalMinute
  <2>2. (LocalMinute(m, z) \div 60) % 24 \in Hours
    BY <2>1 DEF Hours
  <2>3. schedule[(LocalMinute(m, z) \div 60) % 24] \in IntervalOptions
    BY <2>2 DEF Schedule
  <2>4. \A i \in IntervalOptions : 0 % i = 0
    BY DEF IntervalOptions
  <2> QED
    BY <1>1, <2>3, <2>4 DEF IsBoundary
<1>2. \A x \in Int : \E k \in 0..59 : (x + k) % 60 = 0
  <2> SUFFICES ASSUME NEW x \in Int PROVE \E k \in 0..59 : (x + k) % 60 = 0
    OBVIOUS
  <2> DEFINE k == 59 - ((x + 59) % 60)
  <2>1. k \in 0..59 /\ (x + k) % 60 = 0
    OBVIOUS
  <2> QED
    BY <2>1
<1>3. CASE minute >= z.at
  <2> DEFINE x == minute + z.after
  <2>0. x \in Int
    BY <1>0
  <2> HIDE DEF x
  <2>1. PICK k \in 0..59 : (x + k) % 60 = 0
    BY <1>2, <2>0
  <2>2. LocalMinute(minute + k, z) = x + k
    BY <1>0, <1>3 DEF LocalMinute, x
  <2> QED
    BY <1>1, <2>1, <2>2
<1>4. CASE minute + 59 < z.at
  <2> DEFINE x == minute + z.before
  <2>0. x \in Int
    BY <1>0
  <2> HIDE DEF x
  <2>1. PICK k \in 0..59 : (x + k) % 60 = 0
    BY <1>2, <2>0
  <2>2. LocalMinute(minute + k, z) = x + k
    BY <1>0, <1>4 DEF LocalMinute, x
  <2> QED
    BY <1>1, <2>1, <2>2
<1>5. CASE minute < z.at /\ z.at <= minute + 59
  <2> DEFINE x == z.at + z.after
  <2>0. x \in Int
    BY <1>0
  <2> HIDE DEF x
  <2>1. PICK k \in 0..59 : (x + k) % 60 = 0
    BY <1>2, <2>0
  <2>2. LocalMinute(z.at + k, z) = x + k
    BY <1>0 DEF LocalMinute, x
  <2>3. z.at + k \in minute..(minute + 119)
    BY <1>0, <1>5
  <2> QED
    BY <1>1, <2>1, <2>2, <2>3
<1> QED
  BY <1>0, <1>3, <1>4, <1>5

\* Boundaries are whole multiples of five minutes.
LEMMA BoundaryIsMultiple ==
    ASSUME NEW z \in Zones, NEW schedule \in Schedule, NEW m \in Int,
           IsBoundary(m, z, schedule)
    PROVE  m % 5 = 0
<1>0. /\ z.before \in Int /\ z.after \in Int /\ z.at \in Int
      /\ z.before % 5 = 0 /\ z.after % 5 = 0
  BY ZoneAssumption
<1>1. LocalMinute(m, z) \in Int
  BY <1>0 DEF LocalMinute
<1>2. (LocalMinute(m, z) \div 60) % 24 \in Hours
  BY <1>1 DEF Hours
<1>3. PICK interval \in IntervalOptions :
        (LocalMinute(m, z) % 60) % interval = 0
  BY <1>2 DEF Schedule, IsBoundary
<1>4. LocalMinute(m, z) % 5 = 0
  BY <1>1, <1>3 DEF IntervalOptions
<1>5. \A x, y \in Int : y % 5 = 0 /\ (x + y) % 5 = 0 => x % 5 = 0
  OBVIOUS
<1>6. \/ LocalMinute(m, z) = m + z.before
      \/ LocalMinute(m, z) = m + z.after
  BY DEF LocalMinute
<1> HIDE DEF LocalMinute
<1> QED
  BY <1>0, <1>4, <1>5, <1>6

\* p is the last boundary up to a minute.
LastBoundary(p, minute, z, schedule) ==
    /\ p \in Int /\ p <= minute /\ IsBoundary(p, z, schedule)
    /\ \A q \in (p + 1)..minute : ~IsBoundary(q, z, schedule)

\* There is one, and the search back from the minute finds it.
LEMMA PreviousIsLast ==
    ASSUME NEW z \in Zones, NEW schedule \in Schedule, NEW minute \in Int
    PROVE  LastBoundary(PreviousBoundary(minute, z, schedule), minute, z,
                        schedule)
<1> DEFINE T == {back \in 0..SearchMinutes : IsBoundary(minute - back, z, schedule)}
           Chosen(back) == /\ IsBoundary(minute - back, z, schedule)
                           /\ \A less \in 0..(back - 1) :
                                ~IsBoundary(minute - less, z, schedule)
           found == CHOOSE back \in 0..SearchMinutes : Chosen(back)
<1>1. T # {} /\ \A t \in T : t \in Int /\ 0 <= t
  <2>1. PICK m \in (minute - 119)..((minute - 119) + 119) :
          IsBoundary(m, z, schedule)
    BY BoundaryAhead
  <2>2. minute - m \in 0..SearchMinutes /\ minute - (minute - m) = m
    BY <2>1 DEF SearchMinutes
  <2> QED
    BY <2>1, <2>2
<1> HIDE DEF T
<1>2. PICK back \in T : \A e \in 0..(back - 1) : e \notin T
  <2>1. 0 \in Int
    OBVIOUS
  <2> QED
    BY <1>1, <2>1, FirstMinute, Zenon
<1>3. back \in 0..SearchMinutes /\ Chosen(back)
  BY <1>2 DEF SearchMinutes, T
<1>4. found \in 0..SearchMinutes /\ Chosen(found)
  <2> HIDE DEF Chosen
  <2> QED
    BY <1>3
<1>5. PreviousBoundary(minute, z, schedule) = minute - found
  BY DEF PreviousBoundary
<1> HIDE DEF found
<1>6. ASSUME NEW q \in (minute - found + 1)..minute
      PROVE  ~IsBoundary(q, z, schedule)
  <2>1. minute - q \in 0..(found - 1) /\ minute - (minute - q) = q
    BY <1>4 DEF SearchMinutes
  <2> QED
    BY <1>4, <2>1
<1> QED
  BY <1>4, <1>5, <1>6 DEF LastBoundary, SearchMinutes

\* There is only one.
LEMMA LastIsPrevious ==
    ASSUME NEW z \in Zones, NEW schedule \in Schedule, NEW minute \in Int,
           NEW p, LastBoundary(p, minute, z, schedule)
    PROVE  PreviousBoundary(minute, z, schedule) = p
BY PreviousIsLast DEF LastBoundary

\* n is the first boundary after a minute.
FirstBoundary(n, minute, z, schedule) ==
    /\ n \in Int /\ minute < n /\ IsBoundary(n, z, schedule)
    /\ \A q \in (minute + 1)..(n - 1) : ~IsBoundary(q, z, schedule)

LEMMA FollowingIsFirst ==
    ASSUME zone \in Zones, NEW schedule \in Schedule, NEW minute \in Int
    PROVE  FirstBoundary(FollowingBoundary(minute, schedule), minute, zone,
                         schedule)
<1> DEFINE S == (minute + 1)..(minute + SearchMinutes)
           T == {m \in S : IsBoundary(m, zone, schedule)}
           Chosen(next) == /\ Boundary(next, schedule)
                           /\ \A between \in (minute + 1)..(next - 1) :
                                ~Boundary(between, schedule)
           found == CHOOSE next \in S : Chosen(next)
<1>0. minute + 1 \in Int /\ S \subseteq Int
  OBVIOUS
<1>1. T # {} /\ \A t \in T : t \in Int /\ minute + 1 <= t
  <2>1. PICK m \in (minute + 1)..((minute + 1) + 119) :
          IsBoundary(m, zone, schedule)
    BY <1>0, BoundaryAhead
  <2>2. m \in S
    BY <2>1 DEF SearchMinutes
  <2> QED
    BY <2>1, <2>2
<1> HIDE DEF T
<1>2. PICK n \in T : \A e \in (minute + 1)..(n - 1) : e \notin T
  BY <1>0, <1>1, FirstMinute, Zenon
<1>3. n \in S /\ Chosen(n)
  <2>1. n \in S /\ IsBoundary(n, zone, schedule)
    BY <1>2 DEF T
  <2>2. ASSUME NEW e \in (minute + 1)..(n - 1)
        PROVE  ~IsBoundary(e, zone, schedule)
    <3>1. e \in S
      BY <2>1, <2>2 DEF SearchMinutes
    <3> QED
      BY <1>2, <3>1 DEF T
  <2> QED
    BY <2>1, <2>2 DEF Boundary
<1> HIDE DEF Chosen, S
<1>4. found \in S /\ Chosen(found)
  BY <1>3
<1>5. FollowingBoundary(minute, schedule) = found
  BY DEF FollowingBoundary, Chosen, S
<1> HIDE DEF found
<1> QED
  BY <1>4, <1>5 DEF FirstBoundary, Boundary, Chosen, S, SearchMinutes

LEMMA FirstIsFollowing ==
    ASSUME zone \in Zones, NEW schedule \in Schedule, NEW minute \in Int,
           NEW n, FirstBoundary(n, minute, zone, schedule)
    PROVE  FollowingBoundary(minute, schedule) = n
BY FollowingIsFirst DEF FirstBoundary

-----------------------------------------------------------------------------
(***************************************************************************)
(* The boundary a check-in is given.                                       *)
(***************************************************************************)
\* A boundary that is more than half of its cycle away.
Ahead(m, now_, z, schedule) ==
    /\ IsBoundary(m, z, schedule)
    /\ 2 * (60 * m - now_) > 60 * (m - PreviousBoundary(m - 1, z, schedule))

\* n is the first one after the minute of the check-in.
FirstAhead(n, now_, z, schedule) ==
    /\ n \in Int /\ now_ \div 60 < n /\ Ahead(n, now_, z, schedule)
    /\ \A e \in (now_ \div 60 + 1)..(n - 1) : ~Ahead(e, now_, z, schedule)

LEMMA MinuteOf ==
    ASSUME NEW t \in Int
    PROVE  /\ t \div 60 \in Int
           /\ 60 * (t \div 60) <= t /\ t < 60 * (t \div 60) + 60
OBVIOUS

\* The search finds it within four hours.
LEMMA ScheduledIsFirst ==
    ASSUME NEW z \in Zones, NEW schedule \in Schedule, NEW t \in Int
    PROVE  FirstAhead(ScheduledBoundary(t, z, schedule), t, z, schedule)
<1> DEFINE first == (t \div 60) + 1
           S == first..(first + SearchMinutes)
           T == {m \in S : Ahead(m, t, z, schedule)}
           Chosen(m) == /\ Ahead(m, t, z, schedule)
                        /\ \A e \in first..(m - 1) : ~Ahead(e, t, z, schedule)
           found == CHOOSE m \in S : Chosen(m)
<1>0. first \in Int /\ t < 60 * first
  BY MinuteOf
<1>1. ScheduledBoundary(t, z, schedule) = found
  BY DEF ScheduledBoundary, Ahead
<1>2. t \div 60 = first - 1
  BY MinuteOf
<1> HIDE DEF first, found
<1>3. T # {} /\ \A m \in T : m \in Int /\ first <= m
  <2>1. PICK m \in first..(first + 119) : IsBoundary(m, z, schedule)
    BY <1>0, BoundaryAhead
  <2>2. m + 1 \in Int /\ m \in Int
    BY <1>0
  <2>3. PICK n \in (m + 1)..((m + 1) + 119) : IsBoundary(n, z, schedule)
    BY <2>2, BoundaryAhead
  <2>4. n - 1 \in Int /\ n \in Int /\ n \in S
    BY <1>0, <2>1, <2>3 DEF SearchMinutes
  <2> DEFINE p == PreviousBoundary(n - 1, z, schedule)
  <2>5. LastBoundary(p, n - 1, z, schedule)
    BY <2>4, PreviousIsLast
  <2> HIDE DEF p
  <2>6. p \in Int /\ m <= p /\ p < n
    <3>1. p \in Int /\ p <= n - 1
          /\ \A q \in (p + 1)..(n - 1) : ~IsBoundary(q, z, schedule)
      BY <2>5 DEF LastBoundary
    <3>2. ~(m \in (p + 1)..(n - 1))
      BY <2>1, <3>1
    <3> QED
      BY <2>2, <2>3, <2>4, <3>1, <3>2
  <2>7. 2 * (60 * n - t) > 60 * (n - p)
    BY <1>0, <2>1, <2>2, <2>4, <2>6
  <2>8. n \in T
    BY <2>3, <2>4, <2>7 DEF Ahead, p
  <2>9. \A k \in S : k \in Int /\ first <= k
    BY <1>0 DEF SearchMinutes
  <2> QED
    BY <2>8, <2>9
<1> HIDE DEF T
<1>4. PICK n \in T : \A e \in first..(n - 1) : e \notin T
  BY <1>0, <1>3, FirstMinute, Zenon
<1>5. n \in S /\ Chosen(n)
  <2>1. n \in S /\ Ahead(n, t, z, schedule)
    BY <1>4 DEF T
  <2>2. ASSUME NEW e \in first..(n - 1)
        PROVE  ~Ahead(e, t, z, schedule)
    <3>1. e \in S
      BY <1>0, <2>1, <2>2 DEF SearchMinutes
    <3> QED
      BY <1>4, <3>1 DEF T
  <2> QED
    BY <2>1, <2>2
<1> HIDE DEF Chosen, S
<1>6. found \in S /\ Chosen(found)
  BY <1>5 DEF found
<1>7. found \in Int /\ t \div 60 < found
  BY <1>0, <1>2, <1>6 DEF S, SearchMinutes
<1>8. first = t \div 60 + 1
  BY DEF first
<1> QED
  BY <1>1, <1>6, <1>7, <1>8 DEF FirstAhead, Chosen

LEMMA FirstIsScheduled ==
    ASSUME NEW z \in Zones, NEW schedule \in Schedule, NEW t \in Int,
           NEW n, FirstAhead(n, t, z, schedule)
    PROVE  ScheduledBoundary(t, z, schedule) = n
<1> DEFINE m == ScheduledBoundary(t, z, schedule)
           minute == t \div 60
<1>1. FirstAhead(m, t, z, schedule)
  BY ScheduledIsFirst
<1>2. minute \in Int
  BY MinuteOf
<1> HIDE DEF m
<1>3. /\ m \in Int /\ minute < m /\ Ahead(m, t, z, schedule)
      /\ \A e \in (minute + 1)..(m - 1) : ~Ahead(e, t, z, schedule)
  BY <1>1 DEF FirstAhead
<1>4. /\ n \in Int /\ minute < n /\ Ahead(n, t, z, schedule)
      /\ \A e \in (minute + 1)..(n - 1) : ~Ahead(e, t, z, schedule)
  BY DEF FirstAhead
<1> HIDE DEF minute
<1>5. m = n
  BY <1>2, <1>3, <1>4
<1> QED
  BY <1>5 DEF m

\* The boundary before the first one after p is p itself.
LEMMA CycleBegins ==
    ASSUME NEW z \in Zones, NEW schedule \in Schedule, NEW p \in Int,
           IsBoundary(p, z, schedule), NEW n, FirstBoundary(n, p, z, schedule)
    PROVE  PreviousBoundary(n - 1, z, schedule) = p
<1>1. n - 1 \in Int /\ LastBoundary(p, n - 1, z, schedule)
  BY DEF FirstBoundary, LastBoundary
<1> QED
  BY <1>1, LastIsPrevious

\* The rule of the halves: in the first half of a cycle the check-in keeps
\* the upcoming boundary, in the second it is given the one after.
LEMMA HalfCycle ==
    ASSUME zone \in Zones, NEW schedule \in Schedule, NEW t \in Int
    PROVE  LET previous == PreviousBoundary(t \div 60, zone, schedule)
               upcoming == FollowingBoundary(previous, schedule)
           IN  ScheduledBoundary(t, zone, schedule) =
                 IF 2 * (t - 60 * previous) < 60 * (upcoming - previous)
                 THEN upcoming ELSE FollowingBoundary(upcoming, schedule)
<1> DEFINE minute == t \div 60
           p == PreviousBoundary(minute, zone, schedule)
           u == FollowingBoundary(p, schedule)
           n == FollowingBoundary(u, schedule)
           First(m) == FirstAhead(m, t, zone, schedule)
           half == 2 * (t - 60 * p) < 60 * (u - p)
<1>0. minute \in Int /\ 60 * minute <= t /\ t < 60 * minute + 60
  BY MinuteOf
<1>1. LastBoundary(p, minute, zone, schedule)
  BY <1>0, PreviousIsLast
<1> HIDE DEF p
<1>2. FirstBoundary(u, p, zone, schedule)
  BY <1>1, FollowingIsFirst DEF LastBoundary
<1> HIDE DEF u
<1>3. FirstBoundary(n, u, zone, schedule)
  BY <1>2, FollowingIsFirst DEF FirstBoundary
<1> HIDE DEF n
<1>4. /\ PreviousBoundary(u - 1, zone, schedule) = p
      /\ PreviousBoundary(n - 1, zone, schedule) = u
  BY <1>1, <1>2, <1>3, CycleBegins DEF LastBoundary, FirstBoundary
<1>5. p \in Int /\ u \in Int /\ n \in Int /\ p <= minute /\ p < u /\ u < n
  BY <1>1, <1>2, <1>3 DEF LastBoundary, FirstBoundary
<1>6. \A e \in (minute + 1)..(u - 1) : ~Ahead(e, t, zone, schedule)
  BY <1>0, <1>2, <1>5 DEF FirstBoundary, Ahead
<1>7. minute < u
  BY <1>0, <1>1, <1>2, <1>5 DEF LastBoundary, FirstBoundary
<1>8. Ahead(u, t, zone, schedule) <=> half
  <2>1. Ahead(u, t, zone, schedule) <=> 2 * (60 * u - t) > 60 * (u - p)
    BY <1>2, <1>4 DEF Ahead, FirstBoundary
  <2> QED
    BY <1>5, <2>1
<1> HIDE DEF half
<1>9. CASE half
  <2>1. First(u)
    BY <1>5, <1>6, <1>7, <1>8, <1>9 DEF FirstAhead, minute
  <2>2. ScheduledBoundary(t, zone, schedule) = u
    BY <2>1, FirstIsScheduled
  <2> QED
    BY <1>9, <2>2 DEF half, u, p, n
<1>10. CASE ~half
  <2>1. Ahead(n, t, zone, schedule)
    <3>1. 2 * (60 * n - t) > 60 * (n - u)
      BY <1>0, <1>5, <1>7
    <3> QED
      BY <1>3, <1>4, <3>1 DEF Ahead, FirstBoundary
  <2>2. \A e \in (minute + 1)..(n - 1) : ~Ahead(e, t, zone, schedule)
    <3>1. \A e \in (u + 1)..(n - 1) : ~Ahead(e, t, zone, schedule)
      BY <1>3 DEF FirstBoundary, Ahead
    <3>2. \A e \in (minute + 1)..(n - 1) :
            e \in (minute + 1)..(u - 1) \/ e = u \/ e \in (u + 1)..(n - 1)
      BY <1>0, <1>5
    <3> QED
      BY <1>6, <1>8, <1>10, <3>1, <3>2
  <2>3. minute < n
    BY <1>0, <1>5, <1>7
  <2>4. First(n)
    BY <1>5, <2>1, <2>2, <2>3 DEF FirstAhead, minute
  <2>5. ScheduledBoundary(t, zone, schedule) = n
    BY <2>4, FirstIsScheduled
  <2> QED
    BY <1>10, <2>5 DEF half, u, p, n
<1> QED
  BY <1>9, <1>10

\* Boundaries are five minutes apart, or more.
LEMMA CycleIsLong ==
    ASSUME NEW z \in Zones, NEW schedule \in Schedule, NEW m \in Int,
           IsBoundary(m, z, schedule)
    PROVE  LET p == PreviousBoundary(m - 1, z, schedule)
           IN  p \in Int /\ p + 5 <= m
<1> DEFINE p == PreviousBoundary(m - 1, z, schedule)
<1>1. m - 1 \in Int /\ LastBoundary(p, m - 1, z, schedule)
  BY PreviousIsLast
<1> HIDE DEF p
<1>2. p \in Int /\ p < m /\ IsBoundary(p, z, schedule)
  BY <1>1 DEF LastBoundary
<1>3. p % 5 = 0 /\ m % 5 = 0
  BY <1>2, BoundaryIsMultiple
<1>4. p + 5 <= m
  BY <1>2, <1>3
<1> QED
  BY <1>2, <1>4 DEF p

\* So a boundary that is given is more than 150 seconds away.
LEMMA ScheduledIsFar ==
    ASSUME NEW z \in Zones, NEW schedule \in Schedule, NEW t \in Int
    PROVE  LET m == ScheduledBoundary(t, z, schedule)
           IN  m \in Int /\ IsBoundary(m, z, schedule) /\ 60 * m - t > 150
<1> DEFINE m == ScheduledBoundary(t, z, schedule)
           p == PreviousBoundary(m - 1, z, schedule)
<1>1. FirstAhead(m, t, z, schedule)
  BY ScheduledIsFirst
<1> HIDE DEF m
<1>2. m \in Int /\ IsBoundary(m, z, schedule) /\ 2 * (60 * m - t) > 60 * (m - p)
  BY <1>1 DEF FirstAhead, Ahead
<1>3. p \in Int /\ p + 5 <= m
  BY <1>2, CycleIsLong
<1> HIDE DEF p
<1>4. 60 * m - t > 150
  BY <1>2, <1>3
<1> QED
  BY <1>2, <1>4 DEF m

\* A check-in near its boundary is given the following one.
LEMMA NearBoundary ==
    ASSUME zone \in Zones, NEW schedule \in Schedule,
           NEW b \in Int, IsBoundary(b, zone, schedule),
           NEW t \in Int, t - 60 * b \in -149..149
    PROVE  ScheduledBoundary(t, zone, schedule) = FollowingBoundary(b, schedule)
<1> DEFINE minute == t \div 60
           n == FollowingBoundary(b, schedule)
<1>0. minute \in Int /\ 60 * minute <= t /\ t < 60 * minute + 60
  BY MinuteOf
<1>1. FirstBoundary(n, b, zone, schedule)
  BY FollowingIsFirst
<1> HIDE DEF n
<1>2. n \in Int /\ b < n /\ IsBoundary(n, zone, schedule)
      /\ \A q \in (b + 1)..(n - 1) : ~IsBoundary(q, zone, schedule)
  BY <1>1 DEF FirstBoundary
<1>3. PreviousBoundary(n - 1, zone, schedule) = b
  BY <1>1, CycleBegins
<1>4. b + 5 <= n
  BY <1>2, <1>3, CycleIsLong
<1>5. Ahead(n, t, zone, schedule) /\ minute < n
  <2>1. 2 * (60 * n - t) > 60 * (n - b) /\ minute < n
    BY <1>0, <1>2, <1>4
  <2> QED
    BY <1>2, <1>3, <2>1 DEF Ahead
<1>6. ~Ahead(b, t, zone, schedule)
  <2> DEFINE p == PreviousBoundary(b - 1, zone, schedule)
  <2>1. p \in Int /\ p + 5 <= b
    BY CycleIsLong
  <2> HIDE DEF p
  <2>2. ~(2 * (60 * b - t) > 60 * (b - p))
    BY <2>1
  <2> QED
    BY <2>2 DEF Ahead, p
<1>7. ASSUME NEW e \in (minute + 1)..(n - 1), e < b
      PROVE  ~IsBoundary(e, zone, schedule)
  <2>1. e \in Int /\ (e = b - 1 \/ e = b - 2)
    BY <1>0, <1>2, <1>7
  <2>2. b % 5 = 0
    BY BoundaryIsMultiple
  <2>3. e % 5 # 0
    BY <2>1, <2>2
  <2> QED
    BY <2>1, <2>3, BoundaryIsMultiple
<1>8. ASSUME NEW e \in (minute + 1)..(n - 1)
      PROVE  ~Ahead(e, t, zone, schedule)
  <2>1. CASE e < b
    BY <1>7, <2>1 DEF Ahead
  <2>2. CASE e = b
    BY <1>6, <2>2
  <2>3. CASE e > b
    <3>1. e \in (b + 1)..(n - 1)
      BY <1>0, <1>2, <2>3
    <3> QED
      BY <1>2, <3>1 DEF Ahead
  <2> QED
    BY <1>0, <1>2, <2>1, <2>2, <2>3
<1>9. FirstAhead(n, t, zone, schedule)
  BY <1>2, <1>5, <1>8 DEF FirstAhead, minute
<1> QED
  BY <1>9, FirstIsScheduled DEF n

-----------------------------------------------------------------------------
(***************************************************************************)
(* Types: the settings in memory are normalized, those on the disk become  *)
(* so when they are loaded.                                                *)
(***************************************************************************)
Corrected == {NormalizeWakeTimeCorrection(entered) : entered \in Corrections}

Settings == [schedule : Schedule, correction : Corrected, interval : 5..300,
             suspended : BOOLEAN, next : Int]

Stored == [schedule : StoredSchedules \cup Schedule,
           correction : Corrections \cup Corrected, interval : 5..300,
           suspended : BOOLEAN, next : Int]

Plan == [at : Int, sleep : Int, boundary : Int,
         schedule : Schedule \cup {<<>>}, suspended : BOOLEAN]

Typing ==
    /\ now \in Int /\ zone \in Zones
    /\ rec \in Settings /\ disk \in Stored
    /\ exchange \in [pc : {"none", "saving", "saved"}, plan : Plan]
    /\ device \in [awake : BOOLEAN, wakes : Int, plan : Plan]

\* What the normalisations return, and that they keep what is normalized.
LEMMA Normalized ==
    /\ \A raw : NormalizeWakeSchedule(raw) \in Schedule
    /\ \A schedule \in Schedule : NormalizeWakeSchedule(schedule) = schedule
    /\ \A raw : NormalizeSuspendedRefreshInterval(raw) \in 5..300
    /\ \A interval \in 5..300 :
         NormalizeSuspendedRefreshInterval(interval) = interval
    /\ Corrected \subseteq -60..60
    /\ \A correction \in Corrected :
         NormalizeWakeTimeCorrection(correction) = correction
<1>1. \A raw : NormalizeWakeSchedule(raw) \in Schedule
  BY DEF NormalizeWakeSchedule, Schedule, IntervalOptions, DefaultInterval
<1>2. \A schedule \in Schedule : NormalizeWakeSchedule(schedule) = schedule
  BY DEF NormalizeWakeSchedule, Schedule
<1>3. /\ \A raw : NormalizeSuspendedRefreshInterval(raw) \in 5..300
      /\ \A interval \in 5..300 :
           NormalizeSuspendedRefreshInterval(interval) = interval
  BY DEF NormalizeSuspendedRefreshInterval, DefaultSuspendedInterval
<1>4. Corrected \subseteq -60..60
  BY DEF Corrected, NormalizeWakeTimeCorrection
<1>5. \A correction \in Corrected :
        NormalizeWakeTimeCorrection(correction) = correction
  BY <1>4 DEF NormalizeWakeTimeCorrection
<1> QED
  BY <1>1, <1>2, <1>3, <1>4, <1>5

\* Loading keeps the planned wake.
LEMMA LoadedSettings ==
    ASSUME NEW stored \in Stored
    PROVE  /\ FromStorage(stored) \in Settings
           /\ FromStorage(stored).next = stored.next
<1>1. NormalizeWakeTimeCorrection(stored.correction) \in Corrected
  <2>1. CASE stored.correction \in Corrections
    BY <2>1 DEF Corrected
  <2>2. CASE stored.correction \in Corrected
    BY <2>2, Normalized
  <2> QED
    BY <2>1, <2>2 DEF Stored
<1>2. /\ NormalizeWakeSchedule(stored.schedule) \in Schedule
      /\ NormalizeSuspendedRefreshInterval(stored.interval) \in 5..300
  BY Normalized
<1> HIDE DEF NormalizeWakeSchedule, NormalizeSuspendedRefreshInterval
<1> QED
  BY <1>1, <1>2 DEF FromStorage, Stored, Settings

\* What is in memory can be stored.
LEMMA SettingsAreStored == Settings \subseteq Stored
BY DEF Settings, Stored

-----------------------------------------------------------------------------
(***************************************************************************)
(* The plans.                                                              *)
(***************************************************************************)
\* A plan the Hub made: for the boundary that is due, and not too soon.
Sound(plan) ==
    /\ plan.schedule \in Schedule
    /\ plan.sleep > 90
    /\ ~plan.suspended =>
         /\ plan.boundary = ScheduledBoundary(plan.at, zone, plan.schedule)
         /\ \E correction \in Corrected :
              plan.at + plan.sleep = 60 * plan.boundary + correction

\* The plan of a check-in under way is that of the record, and is on the disk
\* once it is saved.
ExchangeInv ==
    exchange.pc # "none" =>
      /\ device.awake
      /\ exchange.plan.at = now /\ Sound(exchange.plan)
      /\ rec.next = now + exchange.plan.sleep
      /\ exchange.pc = "saved" => disk.next = rec.next

\* The display sleeps as it was told: record and disk expect it then, but for
\* the latency of the response; and it wakes then, but for its drift.
DeviceInv ==
    LET told == device.plan.at + device.plan.sleep
    IN  device.plan # NoPlan =>
          /\ Sound(device.plan)
          /\ \E latency \in Latencies :
               /\ ~device.awake => /\ rec.next = told /\ disk.next = told
                                  /\ device.wakes = told + latency
               /\ device.awake => \E drift \in Drifts :
                                    now = told + latency + drift

WakeInv == Typing /\ ExchangeInv /\ DeviceInv

\* The plan that a check-in is given.
LEMMA ProcessPlans ==
    ASSUME Typing, Process
    PROVE  LET plan == exchange'.plan
           IN  /\ exchange'.pc = "saving" /\ plan \in Plan
               /\ plan.at = now /\ Sound(plan)
               /\ plan.schedule = rec.schedule
               /\ plan.suspended = rec.suspended
               /\ rec'.next = now + plan.sleep /\ rec' \in Settings
<1> DEFINE wakes == IF rec.suspended
                    THEN SuspendedRefreshNextWake(now, rec.interval,
                                                  rec.correction)
                    ELSE NextWake(now, zone, rec.schedule, rec.correction)
           m == ScheduledBoundary(now, zone, rec.schedule)
           plan == exchange'.plan
<1>0. /\ now \in Int /\ zone \in Zones /\ rec.schedule \in Schedule
      /\ rec.interval \in 5..300 /\ rec.correction \in Corrected
      /\ rec.correction \in -60..60 /\ rec.suspended \in BOOLEAN
  BY Normalized DEF Typing, Settings
<1>1. m \in Int /\ 60 * m - now > 150
  BY <1>0, ScheduledIsFar
<1>2. /\ rec' = [rec EXCEPT !.next = wakes]
      /\ exchange' = [pc |-> "saving",
                     plan |-> [at |-> now, sleep |-> wakes - now,
                               boundary |-> (wakes - rec.correction) \div 60,
                               schedule |-> rec.schedule,
                               suspended |-> rec.suspended]]
  BY DEF Process
<1>3. /\ rec.suspended => wakes = now + 60 * rec.interval + rec.correction
      /\ ~rec.suspended => wakes = 60 * m + rec.correction
  BY <1>0, Normalized DEF SuspendedRefreshNextWake, NextWake
<1> HIDE DEF m, wakes
<1>4. wakes \in Int /\ wakes - now > 90
  <2> DEFINE interval == rec.interval
             correction == rec.correction
  <2>1. /\ interval \in Int /\ 5 <= interval
        /\ correction \in Int /\ -60 <= correction
    BY <1>0
  <2> HIDE DEF interval, correction
  <2>2. CASE wakes = now + 60 * interval + correction
    BY <1>0, <2>1, <2>2
  <2>3. CASE wakes = 60 * m + correction
    BY <1>0, <1>1, <2>1, <2>3
  <2> QED
    BY <1>3, <2>2, <2>3 DEF interval, correction
<1>5. (wakes - rec.correction) \div 60 \in Int
  BY <1>0, <1>4
<1>6. ~rec.suspended => (wakes - rec.correction) \div 60 = m
  BY <1>0, <1>1, <1>3
<1>7. /\ plan.at = now /\ plan.sleep = wakes - now
      /\ plan.schedule = rec.schedule /\ plan.suspended = rec.suspended
      /\ ~rec.suspended => plan.boundary = m
      /\ exchange'.pc = "saving"
  BY <1>2, <1>6
<1>8. plan \in Plan
  BY <1>0, <1>2, <1>4, <1>5 DEF Plan
<1>9. rec' \in Settings /\ rec'.next = wakes
  BY <1>2, <1>4 DEF Typing, Settings
<1>10. now + (wakes - now) = wakes
  BY <1>0, <1>4
<1> HIDE DEF plan
<1>11. Sound(plan)
  <2>1. plan.sleep > 90 /\ plan.at + plan.sleep = wakes
    BY <1>4, <1>7, <1>10
  <2> QED
    BY <1>0, <1>3, <1>7, <2>1 DEF Sound, m
<1> QED
  BY <1>7, <1>8, <1>9, <1>10, <1>11 DEF plan

-----------------------------------------------------------------------------
(***************************************************************************)
(* The invariant is kept.                                                  *)
(***************************************************************************)
LEMMA NoPlanType == NoPlan \in Plan
BY DEF NoPlan, Plan

\* The changes of the user keep the planned wake.
LEMMA ChangeEffect ==
    ASSUME Typing, SetSuspended \/ SetSuspendedInterval \/ Reconfigure
    PROVE  /\ rec' \in Settings /\ rec'.next = rec.next
           /\ UNCHANGED <<now, zone, disk, exchange, device>>
<1>0. rec \in Settings
  BY DEF Typing
<1>1. CASE SetSuspended
  BY <1>0, <1>1 DEF SetSuspended, Change, Settings
<1>2. CASE SetSuspendedInterval
  <2>1. PICK interval \in 5..300 :
          /\ rec' = [rec EXCEPT !.interval = interval]
          /\ UNCHANGED <<now, zone, disk, exchange, device>>
    <3>1. PICK value \in Intervals :
            Change([rec EXCEPT !.interval =
                      NormalizeSuspendedRefreshInterval(value)])
      BY <1>2 DEF SetSuspendedInterval
    <3> QED
      BY <3>1, Normalized DEF Change
  <2> QED
    BY <1>0, <2>1 DEF Settings
<1>3. CASE Reconfigure
  <2>1. PICK schedule \in Schedule, correction \in Corrected :
          /\ rec' = [rec EXCEPT !.schedule = schedule,
                               !.correction = correction]
          /\ UNCHANGED <<now, zone, disk, exchange, device>>
    <3>1. PICK schedule \in ChosenSchedules, correction \in Corrections :
            Change([rec EXCEPT !.schedule = NormalizeWakeSchedule(schedule),
                               !.correction =
                                 NormalizeWakeTimeCorrection(correction)])
      BY <1>3 DEF Reconfigure
    <3>2. /\ NormalizeWakeSchedule(schedule) \in Schedule
          /\ NormalizeWakeTimeCorrection(correction) \in Corrected
      BY Normalized DEF Corrected
    <3> QED
      BY <3>1, <3>2 DEF Change
  <2> QED
    BY <1>0, <2>1 DEF Settings
<1> QED
  BY <1>1, <1>2, <1>3

\* The invariant holds initially.
LEMMA InitWakeInv == Init => WakeInv
<1> SUFFICES ASSUME Init PROVE WakeInv
  OBVIOUS
<1>1. disk \in Stored
  BY DEF Init, Stored, DefaultSuspendedInterval
<1>2. rec \in Settings
  BY <1>1, LoadedSettings DEF Init
<1>3. Typing
  BY <1>1, <1>2, StartAssumption, NoPlanType DEF Init, Typing, NoExchange
<1>4. ExchangeInv /\ DeviceInv
  BY DEF Init, ExchangeInv, DeviceInv, NoExchange
<1> QED
  BY <1>3, <1>4 DEF WakeInv

\* A check-in that fails leaves no plan.
LEMMA RetryKeeps ==
    ASSUME Typing, device' = Retry, exchange' = NoExchange, now' = now,
           zone' = zone, rec' \in Settings, disk' = disk
    PROVE  WakeInv'
<1>1. Retry \in [awake : BOOLEAN, wakes : Int, plan : Plan]
  BY NoPlanType DEF Typing, Retry, RetrySeconds
<1>2. Typing'
  BY <1>1, NoPlanType DEF Typing, NoExchange
<1>3. ExchangeInv' /\ DeviceInv'
  BY DEF ExchangeInv, DeviceInv, NoExchange, Retry
<1> QED
  BY <1>2, <1>3 DEF WakeInv

\* Every step keeps the invariant.
LEMMA NextWakeInv == WakeInv /\ [Next]_vars => WakeInv'
<1> SUFFICES ASSUME WakeInv, [Next]_vars PROVE WakeInv'
  OBVIOUS
<1>0. Typing /\ ExchangeInv /\ DeviceInv
  BY DEF WakeInv
<1>00. /\ exchange \in [pc : {"none", "saving", "saved"}, plan : Plan]
       /\ device \in [awake : BOOLEAN, wakes : Int, plan : Plan]
       /\ rec \in Settings /\ disk \in Stored /\ now \in Int
  BY <1>0 DEF Typing
<1>1. ASSUME NEW drift \in Drifts, Wake(drift) PROVE WakeInv'
  <2>1. /\ ~device.awake /\ now' = device.wakes + drift
        /\ device' = [device EXCEPT !.awake = TRUE]
        /\ zone' = zone /\ rec' = rec /\ disk' = disk /\ exchange' = exchange
    BY <1>1 DEF Wake
  <2>2. /\ device'.awake /\ device'.plan = device.plan
        /\ device'.wakes = device.wakes
    BY <1>00, <2>1
  <2>3. Typing'
    <3>1. now' \in Int
      BY <1>00, <2>1, DriftAssumption
    <3> QED
      BY <1>0, <2>1, <3>1 DEF Typing
  <2>4. ExchangeInv'
    BY <1>0, <2>1 DEF ExchangeInv
  <2>5. DeviceInv'
    BY <1>0, <2>1, <2>2 DEF DeviceInv, Sound
  <2> QED
    BY <2>3, <2>4, <2>5 DEF WakeInv
<1>2. CASE Fail
  BY <1>0, <1>2, RetryKeeps DEF Fail, Typing
<1>3. CASE Restart
  <2>1. /\ rec' = FromStorage(disk) /\ exchange' = NoExchange
        /\ device' = IF device.awake THEN Retry ELSE device
        /\ now' = now /\ zone' = zone /\ disk' = disk
    BY <1>3 DEF Restart
  <2>2. rec' \in Settings /\ rec'.next = disk.next
    BY <1>00, <2>1, LoadedSettings
  <2>3. CASE device.awake
    BY <1>0, <2>1, <2>2, <2>3, RetryKeeps
  <2>4. CASE ~device.awake
    <3>1. Typing'
      BY <1>0, <2>1, <2>2, <2>4, NoPlanType DEF Typing, NoExchange
    <3>2. ExchangeInv'
      BY <2>1 DEF ExchangeInv, NoExchange
    <3>3. DeviceInv'
      BY <1>0, <2>1, <2>2, <2>4 DEF DeviceInv, Sound
    <3> QED
      BY <3>1, <3>2, <3>3 DEF WakeInv
  <2> QED
    BY <2>3, <2>4
<1>4. CASE Process
  <2>1. /\ exchange'.pc = "saving" /\ exchange'.plan \in Plan
        /\ exchange'.plan.at = now /\ Sound(exchange'.plan)
        /\ rec'.next = now + exchange'.plan.sleep /\ rec' \in Settings
    BY <1>0, <1>4, ProcessPlans
  <2>2. /\ device.awake /\ now' = now /\ zone' = zone /\ disk' = disk
        /\ device' = device
        /\ exchange' = [pc |-> exchange'.pc, plan |-> exchange'.plan]
    BY <1>4 DEF Process
  <2>3. Typing'
    BY <1>0, <2>1, <2>2 DEF Typing
  <2>4. Sound(exchange.plan)'
    BY <2>1, <2>2 DEF Sound
  <2>5. ExchangeInv'
    BY <2>1, <2>2, <2>4 DEF ExchangeInv
  <2>6. DeviceInv'
    BY <1>0, <2>2 DEF DeviceInv, Sound
  <2> QED
    BY <2>3, <2>5, <2>6 DEF WakeInv
<1>5. CASE Write
  <2>1. /\ disk' = rec /\ now' = now /\ zone' = zone /\ rec' = rec
        /\ device' = device
        /\ exchange' = [exchange EXCEPT !.pc =
                          IF @ = "saving" THEN "saved" ELSE @]
    BY <1>5 DEF Write
  <2>2. /\ exchange'.plan = exchange.plan
        /\ exchange'.pc = "none" => exchange.pc = "none"
        /\ exchange'.pc # "none" => exchange.pc # "none"
        /\ exchange' \in [pc : {"none", "saving", "saved"}, plan : Plan]
    BY <1>00, <2>1
  <2>3. Typing'
    BY <1>0, <2>1, <2>2, SettingsAreStored DEF Typing
  <2>4. ExchangeInv'
    BY <1>0, <2>1, <2>2 DEF ExchangeInv, Sound
  <2>5. DeviceInv'
    BY <1>0, <2>1 DEF DeviceInv, Sound
  <2> QED
    BY <2>3, <2>4, <2>5 DEF WakeInv
<1>6. ASSUME NEW latency \in Latencies, Answer(latency) PROVE WakeInv'
  <2>1. /\ exchange.pc = "saved" /\ now' = now + latency
        /\ device' = [awake |-> FALSE, wakes |-> now' + exchange.plan.sleep,
                     plan |-> exchange.plan]
        /\ exchange' = NoExchange
        /\ zone' = zone /\ rec' = rec /\ disk' = disk
    BY <1>6 DEF Answer
  <2>2. latency \in Int /\ exchange.plan.sleep \in Int /\ exchange.plan \in Plan
    BY <1>00, DriftAssumption DEF Plan
  <2>3. /\ now' \in Int /\ device'.wakes \in Int
        /\ device'.wakes = (now + exchange.plan.sleep) + latency
    BY <1>00, <2>1, <2>2
  <2>4. Typing'
    BY <1>0, <2>1, <2>2, <2>3, NoPlanType DEF Typing, NoExchange
  <2>5. ExchangeInv'
    BY <2>1 DEF ExchangeInv, NoExchange
  <2>6. /\ exchange.plan.at = now /\ Sound(exchange.plan)
        /\ rec.next = now + exchange.plan.sleep /\ disk.next = rec.next
    BY <1>0, <2>1 DEF ExchangeInv
  <2>7. PICK plan : plan = exchange.plan
    OBVIOUS
  <2>8. Sound(plan)'
    BY <2>1, <2>6, <2>7 DEF Sound
  <2>9. /\ device'.plan = plan /\ plan.at = now
        /\ rec'.next = plan.at + plan.sleep /\ disk'.next = rec'.next
        /\ device'.wakes = rec'.next + latency
    BY <2>1, <2>3, <2>6, <2>7
  <2>10. DeviceInv'
    BY <2>1, <2>8, <2>9 DEF DeviceInv
  <2> QED
    BY <2>4, <2>5, <2>10 DEF WakeInv
<1>7. CASE SetSuspended \/ SetSuspendedInterval \/ Reconfigure
  <2>1. /\ rec' \in Settings /\ rec'.next = rec.next
        /\ now' = now /\ zone' = zone /\ disk' = disk
        /\ exchange' = exchange /\ device' = device
    BY <1>0, <1>7, ChangeEffect
  <2>2. Typing'
    BY <1>0, <2>1 DEF Typing
  <2>3. ExchangeInv' /\ DeviceInv'
    BY <1>0, <2>1 DEF ExchangeInv, DeviceInv, Sound
  <2> QED
    BY <2>2, <2>3 DEF WakeInv
<1>8. CASE UNCHANGED vars
  BY <1>0, <1>8 DEF vars, WakeInv, Typing, ExchangeInv, DeviceInv, Sound
<1> QED
  BY <1>1, <1>2, <1>3, <1>4, <1>5, <1>6, <1>7, <1>8 DEF Next

-----------------------------------------------------------------------------
(***************************************************************************)
(* The theorems.                                                           *)
(***************************************************************************)
\* The invariant holds in every reachable state.
THEOREM WakeInvariant == Spec => []WakeInv
BY InitWakeInv, NextWakeInv, PTL DEF Spec

\* A check-in is given the boundary that the rule of the halves names.
THEOREM HalfOfEveryCycle == Spec => []HalfOfTheRealCycle
<1>1. WakeInv => HalfOfTheRealCycle
  <2> SUFFICES ASSUME WakeInv, exchange.pc # "none", ~exchange.plan.suspended
               PROVE  HalfOfTheRealCycle
    BY DEF HalfOfTheRealCycle
  <2> DEFINE plan == exchange.plan
  <2>1. /\ zone \in Zones /\ plan.schedule \in Schedule /\ plan.at \in Int
        /\ plan.boundary = ScheduledBoundary(plan.at, zone, plan.schedule)
    BY DEF WakeInv, Typing, ExchangeInv, Sound
  <2> HIDE DEF plan
  <2> QED
    BY <2>1, HalfCycle DEF HalfOfTheRealCycle, plan
<1> QED
  BY <1>1, WakeInvariant, PTL

\* No check-in sends the display to sleep for 90 seconds or less.
THEOREM NoRefreshTwice == Spec => []NoSecondRefresh
<1>1. WakeInv => NoSecondRefresh
  BY DEF WakeInv, ExchangeInv, Sound, NoSecondRefresh
<1> QED
  BY <1>1, WakeInvariant, PTL

\* A display is available until it wakes.
THEOREM StaysAvailable == Spec => []AvailableUntilItWakes
<1>1. WakeInv => AvailableUntilItWakes
  <2> SUFFICES ASSUME WakeInv, ~device.awake, device.plan # NoPlan,
                      NEW drift \in Drifts
               PROVE  device.wakes + drift <= rec.next + Tolerance
    BY DEF AvailableUntilItWakes
  <2>1. PICK latency \in Latencies : device.wakes = rec.next + latency
    BY DEF WakeInv, DeviceInv
  <2>2. /\ drift + latency <= Tolerance /\ drift \in Int /\ latency \in Int
        /\ rec.next \in Int
    BY DriftAssumption DEF WakeInv, Typing, Settings
  <2> QED
    BY <2>1, <2>2 DEF Tolerance
<1> QED
  BY <1>1, WakeInvariant, PTL

\* A display that wakes on its plan is given the following boundary.
THEOREM EveryBoundaryInOrder == Spec => BoundariesInOrder
<1> DEFINE old == device.plan
           new == exchange'.plan
           InOrder ==
             /\ exchange.pc = "none" /\ exchange'.pc = "saving"
             /\ old # NoPlan /\ ~old.suspended /\ ~new.suspended
             /\ old.schedule = new.schedule
             => new.boundary = FollowingBoundary(old.boundary, old.schedule)
<1>1. WakeInv /\ Next => InOrder
  <2> SUFFICES ASSUME WakeInv, Next,
                      exchange.pc = "none", exchange'.pc = "saving",
                      old # NoPlan, ~old.suspended, ~new.suspended,
                      old.schedule = new.schedule
               PROVE  new.boundary
                        = FollowingBoundary(old.boundary, old.schedule)
    OBVIOUS
  <2>1. Process
    <3>1. exchange' # exchange /\ exchange' # NoExchange
      BY DEF NoExchange
    <3>2. ASSUME NEW drift \in Drifts PROVE ~Wake(drift)
      BY <3>1 DEF Wake
    <3>3. ~Fail /\ ~Restart
      BY <3>1 DEF Fail, Restart
    <3>4. ASSUME NEW latency \in Latencies PROVE ~Answer(latency)
      BY <3>1 DEF Answer
    <3>5. ~Write
      <4> SUFFICES ASSUME Write PROVE FALSE
        OBVIOUS
      <4>1. exchange \in [pc : {"none", "saving", "saved"}, plan : Plan]
        BY DEF WakeInv, Typing
      <4>2. exchange' = [exchange EXCEPT !.pc =
                           IF @ = "saving" THEN "saved" ELSE @]
        BY DEF Write
      <4> QED
        BY <4>1, <4>2
    <3>6. ~SetSuspended /\ ~SetSuspendedInterval /\ ~Reconfigure
      BY <3>1 DEF SetSuspended, SetSuspendedInterval, Reconfigure, Change
    <3> QED
      BY <3>2, <3>3, <3>4, <3>5, <3>6 DEF Next
  <2>2. /\ new.at = now /\ Sound(new) /\ device.awake /\ zone \in Zones
        /\ now \in Int /\ old \in Plan
    BY <2>1, ProcessPlans DEF Process, WakeInv, Typing
  <2>3. Sound(old) /\ \E latency \in Latencies, drift \in Drifts :
          now = (old.at + old.sleep) + latency + drift
    BY <2>2 DEF WakeInv, DeviceInv
  <2> HIDE DEF old, new
  <2>4. PICK latency \in Latencies, drift \in Drifts, correction \in Corrected :
          /\ now = (old.at + old.sleep) + latency + drift
          /\ old.at + old.sleep = 60 * old.boundary + correction
    BY <2>3 DEF Sound
  <2>5. /\ drift + latency + correction \in -149..149
        /\ drift \in Int /\ latency \in Int /\ correction \in Int
    BY DriftAssumption, Normalized DEF Corrected
  <2>6. /\ old.boundary \in Int
        /\ IsBoundary(old.boundary, zone, old.schedule)
        /\ old.schedule \in Schedule
    BY <2>2, <2>3, ScheduledIsFar DEF Sound, Plan
  <2>7. now - 60 * old.boundary \in -149..149
    BY <2>4, <2>5, <2>6
  <2>8. ScheduledBoundary(now, zone, old.schedule)
          = FollowingBoundary(old.boundary, old.schedule)
    BY <2>2, <2>6, <2>7, NearBoundary
  <2> QED
    BY <2>2, <2>8 DEF Sound
<1>2. WakeInv /\ [Next]_vars => [InOrder]_vars
  BY <1>1
<1> HIDE DEF InOrder
<1>3. Spec => [][InOrder]_vars
  BY <1>2, WakeInvariant, PTL DEF Spec
<1> QED
  BY <1>3 DEF BoundariesInOrder, InOrder
=============================================================================
