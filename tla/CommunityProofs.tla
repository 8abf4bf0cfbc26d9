---------------------------- MODULE CommunityProofs ----------------------------
(***************************************************************************)
(* The safety properties of what the bot keeps for its members, for every  *)
(* value of their constants: the announced events, the map of scan areas,  *)
(* the history of the spawns, the trap channel and the marks of who is a   *)
(* member.  Each section has the inductive invariant of one specification, *)
(* a lemma for each step that it survives it, and the theorem.             *)
(***************************************************************************)
EXTENDS MCCommunity, FunctionTheorems, FiniteSetTheorems, SequenceTheorems,
        WellFoundedInduction, TLAPS

-------------------------------------------------------------------------------
\* A set of naturals has a least element ...
LEMMA HasLeast ==
    ASSUME NEW T, T \subseteq Nat, T # {}
    PROVE  \E x \in T : \A y \in T : x <= y
<1> DEFINE R == OpToRel(<, Nat)
<1>1. IsWellFoundedOn(R, Nat)
    BY NatLessThanWellFounded
<1>2. PICK x \in T : \A y \in T : ~(<<y, x>> \in R)
    <2> HIDE DEF R
    <2>1. QED
        BY <1>1, WFMin
<1>3. \A y \in T : ~(y < x)
    BY <1>2 DEF OpToRel
<1> HIDE DEF R
<1>4. \A y \in T : x <= y
    BY <1>3
<1>5. QED
    BY <1>4

\* ... and one with a bound has a greatest.
LEMMA HasNewest ==
    ASSUME NEW N \in Nat, NEW S, S \subseteq 0..N, S # {}
    PROVE  \E x \in S : \A y \in S : y <= x
<1> DEFINE T == {N - x : x \in S}
<1>1. T \subseteq Nat
    <2>1. \A x \in S : N - x \in Nat
        OBVIOUS
    <2>2. QED
        BY <2>1
<1>2. T # {}
    OBVIOUS
<1>3. PICK t \in T : \A y \in T : t <= y
    BY <1>1, <1>2, HasLeast
<1>4. PICK x \in S : t = N - x
    BY <1>3
<1>5. \A y \in S : N - x <= N - y
    BY <1>3, <1>4
<1>6. QED
    BY <1>5

-------------------------------------------------------------------------------
USE EventNoticesAssumption DEF EventNoticesAssumption

\* EventNotices.  The rows, the marks and what is being posted.
EventTypes ==
    /\ now \in Nat
    /\ feed \in Calendars /\ row \in Calendars
    /\ startMark \subseteq Events /\ endMark \subseteq Events
    /\ excluded \subseteq Events
    /\ started \subseteq Events /\ ended \subseteq Events /\ acking \subseteq Events
    /\ kind \in {"start", "end"}
    /\ startTold \in [Events -> Nat] /\ endTold \in [Events -> Nat]
    /\ checked \in BOOLEAN
    /\ troubles \in [Troubles -> Nat]

Acked(k) == {e \in acking : kind = k}

\* What waits for its mark was posted.
AckedWasTold ==
    /\ \A e \in Acked("start") : startTold[e] > 0
    /\ \A e \in Acked("end") : endTold[e] > 0

\* As long as the feed stands still, so do the rows, and a mark is a row's.
Steady ==
    Spared("move") => row = feed /\ startMark \subseteq Stored /\ endMark \subseteq Stored

\* Only the earliest copy is announced, and again only after a fault.
StartsOnce ==
    Spared("move") =>
        /\ \A g \in Events : g \in started \/ startTold[g] > 0 => g \in Stored /\ Earliest(g)
        /\ \A g \in started : g \notin startMark \union Acked("start")
        /\ \A g \in startMark \union Acked("start") : startTold[g] <= troubles["fault"] + 1
        /\ \A g \in Events \ (startMark \union Acked("start")) :
              startTold[g] <= troubles["fault"]

\* The same of the latest copy and the end, where a mark is for all that end together.
EndsOnce ==
    Spared("move") =>
        /\ \A g \in Events :
              g \in ended \/ endTold[g] > 0 => g \in Stored /\ Latest(g)
        /\ \A g \in ended : g \notin endMark
        /\ \A f, g \in ended \union Acked("end") : SameName(f, g) => f = g
        /\ ended \intersect Acked("end") = {}
        /\ \A g \in endMark \union Acked("end") : endTold[g] <= troubles["fault"] + 1
        /\ \A g \in Events \ (endMark \union Acked("end")) : endTold[g] <= troubles["fault"]
        /\ \A f \in endMark :
              \E g \in Events : SameName(f, g) /\ row[g].end = row[f].end /\ endTold[g] > 0

\* A bot that is up tells of what began: at the latest when the moment is over.
BegunIsTold ==
    (\A k \in {"move", "down", "toggle"} : Spared(k)) =>
        /\ excluded = {}
        /\ \A e \in Stored :
              row[e].start < now => \E g \in Event(e) : startTold[g] > 0
        /\ checked => \A e \in Stored :
              row[e].start <= now => \E g \in Event(e) : g \in started \/ startTold[g] > 0

CalendarInv ==
    EventTypes /\ AckedWasTold /\ MarkedWasTold /\ Steady /\ StartsOnce /\ EndsOnce /\ BegunIsTold

-------------------------------------------------------------------------------
\* What a calendar says of a row.
LEMMA RowsAre ==
    ASSUME row \in Calendars
    PROVE  /\ row \in [Events -> [start : Nat, end : Nat]]
           /\ \A e \in Events : row[e].start \in 0..Horizon /\ row[e].end \in 0..Horizon
           /\ \A e \in Stored : row[e].start < row[e].end
           /\ \A e, f \in Stored : SameName(e, f) /\ e # f => row[e].start # row[f].start
<1>1. row \in [Events -> Spans \union {Unlisted}] /\ Keyed(row)
    BY DEF Calendars
<1>2. Spans \union {Unlisted} \subseteq [start : Nat, end : Nat]
    BY DEF Spans, Unlisted
<1>3. row \in [Events -> [start : Nat, end : Nat]]
    BY <1>1, <1>2
<1>4. \A e \in Events : row[e].start \in 0..Horizon /\ row[e].end \in 0..Horizon
    BY <1>1 DEF Spans, Unlisted
<1>5. \A e \in Stored : row[e].start < row[e].end
    BY <1>1 DEF Spans, Stored
<1>6. \A e, f \in Stored : SameName(e, f) /\ e # f => row[e].start # row[f].start
    BY <1>1 DEF Stored, SameName, Keyed
<1>7. QED
    BY <1>3, <1>4, <1>5, <1>6

\* Names are shared both ways, and so are overlaps.
LEMMA TwinsAre ==
    ASSUME row \in Calendars, NEW e \in Stored, NEW f \in Stored
    PROVE  /\ SameName(e, f) <=> SameName(f, e)
           /\ f \in Twins(e) <=> e \in Twins(f)
           /\ f \in Twins(e) => f # e /\ SameName(e, f) /\ row[f].start # row[e].start
<1>1. SameName(e, f) <=> SameName(f, e)
    BY DEF SameName
<1>2. f \in Twins(e) <=> e \in Twins(f)
    BY <1>1 DEF Twins
<1>3. f \in Twins(e) => f # e /\ SameName(e, f)
    BY DEF Twins
<1>4. QED
    BY <1>1, <1>2, <1>3, RowsAre

\* An event is the smallest set with e that has its twins.
LEMMA EventIs ==
    ASSUME row \in Calendars, NEW e \in Events
    PROVE  /\ e \in Event(e) /\ Event(e) \subseteq Events /\ Closed(Event(e))
           /\ \A S \in SUBSET Events : e \in S /\ Closed(S) => Event(e) \subseteq S
<1>1. e \in Event(e) /\ Event(e) \subseteq Events
    BY DEF Event
<1>2. \A S \in SUBSET Events : e \in S /\ Closed(S) => Event(e) \subseteq S
    BY DEF Event
<1>3. ASSUME NEW f \in Event(e), NEW g \in Twins(f)
      PROVE  g \in Event(e)
    <2>1. g \in Events
        BY DEF Twins, Stored
    <2>2. ASSUME NEW S \in SUBSET Events, e \in S, Closed(S)
          PROVE  g \in S
        <3>1. f \in S
            BY <1>2, <2>2
        <3>2. QED
            BY <2>2, <3>1, <1>3 DEF Closed
    <2>3. QED
        BY <2>1, <2>2 DEF Event
<1>4. Closed(Event(e))
    BY <1>3 DEF Closed
<1>5. QED
    BY <1>1, <1>2, <1>4

\* An event is all of a name, and what is in it has no larger one.
LEMMA EventHas ==
    ASSUME row \in Calendars, NEW e \in Stored, NEW f \in Event(e)
    PROVE  /\ f \in Stored /\ SameName(e, f)
           /\ Event(f) \subseteq Event(e)
           /\ Twins(f) \subseteq Event(e)
<1> e \in Events
    BY DEF Stored
<1>1. f \in Stored /\ SameName(e, f)
    <2> DEFINE S == {x \in Stored : SameName(e, x)}
    <2>1. S \in SUBSET Events /\ e \in S
        BY DEF Stored, SameName
    <2>2. Closed(S)
        BY DEF Closed, Twins, SameName
    <2>3. QED
        BY <2>1, <2>2, EventIs
<1>2. f \in Events
    BY <1>1 DEF Stored
<1>3. Event(f) \subseteq Event(e)
    BY <1>2, EventIs
<1>4. Twins(f) \subseteq Event(e)
    BY EventIs DEF Closed
<1>5. QED
    BY <1>1, <1>3, <1>4

\* Whatever is in an event has the same one.
LEMMA EventBack ==
    ASSUME row \in Calendars, NEW e \in Stored, NEW f \in Event(e)
    PROVE  e \in Event(f)
<1> e \in Events
    BY DEF Stored
<1> DEFINE S == {x \in Stored : e \in Event(x)}
<1>1. S \in SUBSET Events /\ e \in S
    BY EventIs DEF Stored
<1>2. ASSUME NEW x \in S, NEW y \in Twins(x)
      PROVE  y \in S
    <2>1. y \in Stored /\ y \in Events
        BY DEF Twins, Stored
    <2>2. x \in Twins(y)
        BY <2>1, TwinsAre
    <2>3. x \in Event(y)
        BY <2>1, <2>2, EventIs DEF Closed
    <2>4. Event(x) \subseteq Event(y)
        BY <2>1, <2>3, EventHas
    <2>5. QED
        BY <2>1, <2>4
<1>3. Closed(S)
    BY <1>2 DEF Closed
<1>4. QED
    BY <1>1, <1>3, EventIs

\* Everything else in the event of an earliest copy starts later.
LEMMA EarliestIsFirst ==
    ASSUME row \in Calendars, NEW g \in Stored, Earliest(g), NEW f \in Event(g), f # g
    PROVE  row[g].start < row[f].start
<1> g \in Events
    BY DEF Stored
<1> DEFINE S == {x \in Stored : SameName(g, x) /\ (x = g \/ row[g].start < row[x].start)}
<1>1. S \in SUBSET Events /\ g \in S
    BY DEF Stored, SameName
<1>2. ASSUME NEW x \in S, NEW y \in Twins(x)
      PROVE  y \in S
    <2>1. /\ y \in Stored /\ x \in Stored /\ y \in Events /\ x \in Events
          /\ SameName(x, y)
          /\ row[y].start < row[x].end /\ row[x].start < row[y].end
        BY DEF Twins, Stored
    <2>2. SameName(g, y)
        BY <2>1 DEF SameName
    <2>3. /\ row[y].start \in Nat /\ row[y].end \in Nat /\ row[x].start \in Nat
          /\ row[g].start \in Nat /\ row[g].end \in Nat
          /\ row[g].start < row[g].end
        BY <2>1, RowsAre
    <2>4. ASSUME y # g, ~(row[g].start < row[y].start)
          PROVE  FALSE
        <3>1. row[y].start < row[g].start
            BY <2>1, <2>2, <2>3, <2>4, RowsAre
        <3>2. row[g].start <= row[x].start
            BY <2>3
        <3>3. y \in Twins(g)
            BY <2>1, <2>2, <2>3, <3>1, <3>2 DEF Twins
        <3>4. QED
            BY <3>1, <3>3 DEF Earliest, Sooner
    <2>5. QED
        BY <2>1, <2>2, <2>4
<1>3. Closed(S)
    BY <1>2 DEF Closed
<1>4. f \in S
    BY <1>1, <1>3, EventIs
<1>5. QED
    BY <1>4

\* Everything else in the event of a latest copy ends before it, or with it after an
\* earlier start.
LEMMA LatestIsLast ==
    ASSUME row \in Calendars, NEW g \in Stored, Latest(g), NEW f \in Event(g), f # g
    PROVE  Later(row[g], row[f])
<1> g \in Events
    BY DEF Stored
<1> DEFINE S == {x \in Stored : SameName(g, x) /\ (x = g \/ Later(row[g], row[x]))}
<1>1. S \in SUBSET Events /\ g \in S
    BY DEF Stored, SameName
<1>2. ASSUME NEW x \in S, NEW y \in Twins(x)
      PROVE  y \in S
    <2>1. /\ y \in Stored /\ x \in Stored /\ y \in Events /\ x \in Events
          /\ SameName(x, y)
          /\ row[y].start < row[x].end /\ row[x].start < row[y].end
        BY DEF Twins, Stored
    <2>2. SameName(g, y)
        BY <2>1 DEF SameName
    <2>3. /\ row[y].start \in Nat /\ row[y].end \in Nat
          /\ row[x].start \in Nat /\ row[x].end \in Nat
          /\ row[g].start \in Nat /\ row[g].end \in Nat
          /\ row[g].start < row[g].end
        BY <2>1, RowsAre
    <2>4. ASSUME y # g, ~Later(row[g], row[y])
          PROVE  FALSE
        <3>1. row[y].start # row[g].start
            BY <2>1, <2>2, <2>4, RowsAre
        <3>2. Later(row[y], row[g])
            BY <2>3, <2>4, <3>1 DEF Later
        <3>3. row[x].end <= row[g].end /\ row[g].end <= row[y].end
            BY <2>3, <3>2 DEF Later
        <3>4. y \in Twins(g)
            BY <2>1, <2>2, <2>3, <3>1, <3>3 DEF Twins
        <3>5. QED
            BY <3>2, <3>4 DEF Latest
    <2>5. QED
        BY <2>1, <2>2, <2>4
<1>3. Closed(S)
    BY <1>2 DEF Closed
<1>4. f \in S
    BY <1>1, <1>3, EventIs
<1>5. QED
    BY <1>4

\* An event has one earliest and one latest copy at most.
LEMMA OneOfEach ==
    ASSUME row \in Calendars, NEW e \in Stored, NEW f \in Event(e), NEW g \in Event(e)
    PROVE  /\ Earliest(f) /\ Earliest(g) => f = g
           /\ Latest(f) /\ Latest(g) => f = g
<1>1. f \in Stored /\ g \in Stored
    BY EventHas
<1>2. e \in Event(f) /\ e \in Event(g)
    BY EventBack
<1>3. g \in Event(f) /\ f \in Event(g)
    BY <1>1, <1>2, EventHas
<1>4. /\ row[f].start \in Nat /\ row[f].end \in Nat
      /\ row[g].start \in Nat /\ row[g].end \in Nat
    BY <1>1, RowsAre DEF Stored
<1>5. ASSUME Earliest(f), Earliest(g), f # g
      PROVE  FALSE
    <2>1. row[g].start < row[f].start
        BY <1>1, <1>3, <1>5, EarliestIsFirst
    <2>2. row[f].start < row[g].start
        BY <1>1, <1>3, <1>5, EarliestIsFirst
    <2>3. QED
        BY <1>4, <2>1, <2>2
<1>6. ASSUME Latest(f), Latest(g), f # g
      PROVE  FALSE
    <2>1. Later(row[g], row[f])
        BY <1>1, <1>3, <1>6, LatestIsLast
    <2>2. Later(row[f], row[g])
        BY <1>1, <1>3, <1>6, LatestIsLast
    <2>3. QED
        BY <1>4, <2>1, <2>2 DEF Later
<1>7. QED
    BY <1>5, <1>6

\* An event has an earliest copy, which starts no later than any.
LEMMA HasEarliest ==
    ASSUME row \in Calendars, NEW e \in Stored
    PROVE  \E f \in Event(e) : Earliest(f) /\ row[f].start <= row[e].start
<1> e \in Events
    BY DEF Stored
<1> DEFINE T == {row[x].start : x \in Event(e)}
<1>1. \A x \in Event(e) : x \in Stored /\ x \in Events /\ row[x].start \in Nat /\ row[x].end \in Nat
    BY EventHas, RowsAre DEF Stored
<1>2. T \in SUBSET Nat /\ T # {}
    BY <1>1, EventIs
<1>3. PICK t \in T : \A u \in T : t <= u
    <2> HIDE DEF T
    <2>1. QED
        BY <1>2, HasLeast
<1>4. PICK f \in Event(e) : row[f].start = t
    BY <1>3
<1>5. \A x \in Event(e) : row[f].start <= row[x].start
    BY <1>3, <1>4
<1>6. ASSUME NEW x \in Twins(f), Sooner(row[x], row[f])
      PROVE  FALSE
    <2>1. x \in Event(e) /\ x \in Stored
        BY EventHas DEF Twins
    <2>2. row[x].start # row[f].start
        BY <1>1, <2>1, TwinsAre
    <2>3. row[f].start <= row[x].start
        BY <1>5, <2>1
    <2>4. QED
        BY <1>1, <1>6, <2>1, <2>2, <2>3 DEF Sooner
<1>7. row[f].start <= row[e].start
    BY <1>5, EventIs
<1>8. QED
    BY <1>6, <1>7 DEF Earliest

\* An event has a latest copy.
LEMMA HasLatest ==
    ASSUME row \in Calendars, NEW e \in Stored
    PROVE  \E f \in Event(e) : Latest(f)
<1> e \in Events
    BY DEF Stored
<1> DEFINE T == {row[x].end : x \in Event(e)}
<1>1. \A x \in Event(e) : /\ x \in Stored /\ x \in Events
                          /\ row[x].start \in 0..Horizon /\ row[x].end \in 0..Horizon
    BY EventHas, RowsAre DEF Stored
<1>2. T \subseteq 0..Horizon /\ T # {}
    BY <1>1, EventIs
<1>3. PICK t \in T : \A u \in T : u <= t
    <2> HIDE DEF T
    <2>1. QED
        BY <1>2, HasNewest
<1>4. PICK h \in Event(e) : row[h].end = t
    BY <1>3
<1> DEFINE L == {x \in Event(e) : row[x].end = t}
           U == {row[x].start : x \in L}
<1>5. U \subseteq 0..Horizon /\ U # {}
    BY <1>1, <1>4
<1>6. PICK s \in U : \A u \in U : u <= s
    <2> HIDE DEF U
    <2>1. QED
        BY <1>5, HasNewest
<1>7. PICK f \in L : row[f].start = s
    BY <1>6
<1>8. /\ \A x \in Event(e) : row[x].end <= row[f].end
      /\ \A x \in L : row[x].start <= row[f].start
    BY <1>3, <1>6, <1>7
<1>9. ASSUME NEW x \in Twins(f), Later(row[x], row[f])
      PROVE  FALSE
    <2>1. x \in Event(e)
        BY <1>7, EventHas DEF Twins
    <2>2. row[x].end <= row[f].end
        BY <1>8, <2>1
    <2>3. row[x].end = row[f].end /\ row[x].start > row[f].start
        BY <1>1, <1>7, <1>9, <2>1, <2>2 DEF Later
    <2>4. row[x].start <= row[f].start
        BY <1>7, <1>8, <2>1, <2>3
    <2>5. QED
        BY <1>1, <1>7, <2>1, <2>3, <2>4
<1>10. QED
    BY <1>7, <1>9 DEF Latest

\* One that was posted so often has so many posts.
LEMMA PostsOfOne ==
    ASSUME NEW g, NEW m \in Nat
    PROVE  Cardinality({g} \X (1..m)) \in Nat /\ Cardinality({g} \X (1..m)) <= m
<1> DEFINE P == {g} \X (1..m)
           F == [i \in 1..m |-> <<g, i>>]
<1>1. F \in [1..m -> P]
    OBVIOUS
<1>2. ASSUME NEW p \in P
      PROVE  \E i \in 1..m : F[i] = p
    <2>1. p[2] \in 1..m /\ p = <<g, p[2]>>
        OBVIOUS
    <2>2. F[p[2]] = p
        BY <2>1
    <2>3. QED
        BY <2>1, <2>2
<1> HIDE DEF P, F
<1>3. F \in Surjection(1..m, P)
    BY <1>1, <1>2 DEF Surjection
<1>4. IsFiniteSet(1..m) /\ Cardinality(1..m) = m
    BY FS_Interval
<1>5. IsFiniteSet(P) /\ Cardinality(P) <= m
    BY <1>3, <1>4, FS_Surjection
<1>6. QED
    BY <1>5, FS_CardinalityType DEF P

\* A set in which one alone was told counts what that one was.
LEMMA TotalIs ==
    ASSUME NEW told \in [Events -> Nat], NEW S \in SUBSET Events, NEW n \in Nat,
           \A f, g \in S : told[f] > 0 /\ told[g] > 0 => f = g,
           \A g \in S : told[g] <= n
    PROVE  Total(told, S) <= n
<1>1. CASE \A g \in S : told[g] = 0
    <2>1. \A g \in S : 1..told[g] = {}
        BY <1>1
    <2>2. Posts(told, S) = {}
        BY <2>1 DEF Posts
    <2>3. QED
        BY <2>2, FS_EmptySet DEF Total
<1>2. CASE \E g \in S : told[g] # 0
    <2>1. PICK g \in S : told[g] > 0
        BY <1>2
    <2>2. \A f \in S : f # g => 1..told[f] = {}
        BY <2>1
    <2>3. Posts(told, S) = {g} \X (1..told[g])
        BY <2>2 DEF Posts
    <2>4. told[g] \in Nat /\ told[g] <= n
        OBVIOUS
    <2>5. Total(told, S) = Cardinality({g} \X (1..told[g]))
        BY <2>3 DEF Total
    <2>6. Total(told, S) \in Nat /\ Total(told, S) <= told[g]
        BY <2>4, <2>5, PostsOfOne
    <2>7. QED
        BY <2>4, <2>6
<1>3. QED
    BY <1>1, <1>2

\* A trouble of one kind is counted, and none is forgotten.
LEMMA TroubleIs ==
    ASSUME EventTypes, NEW k \in Troubles, Trouble(k)
    PROVE  /\ troubles' \in [Troubles -> Nat]
           /\ troubles'[k] = troubles[k] + 1
           /\ \A j \in Troubles : j # k => troubles'[j] = troubles[j]
           /\ \A j \in Troubles : Spared(j)' => Spared(j)
           /\ ~Spared(k)'
<1>1. troubles' = [troubles EXCEPT ![k] = @ + 1]
    BY DEF Trouble
<1>2. troubles \in [Troubles -> Nat]
    BY DEF EventTypes
<1>3. troubles' \in [Troubles -> Nat] /\ troubles'[k] = troubles[k] + 1
    BY <1>1, <1>2
<1>4. \A j \in Troubles : j # k => troubles'[j] = troubles[j]
    BY <1>1, <1>2
<1>5. \A j \in Troubles : Spared(j)' => Spared(j)
    BY <1>2, <1>3, <1>4 DEF Spared
<1>6. QED
    BY <1>2, <1>3, <1>4, <1>5 DEF Spared

\* What depends on the rows alone stands as long as they do.
LEMMA RowsFrame ==
    ASSUME row' = row
    PROVE  /\ Stored' = Stored
           /\ \A e \in Events : (Earliest(e)' <=> Earliest(e)) /\ (Latest(e)' <=> Latest(e))
           /\ \A e \in Events : Event(e)' = Event(e)
<1>1. Stored' = Stored
    BY DEF Stored
<1>2. \A e : Twins(e)' = Twins(e)
    BY <1>1 DEF Twins
<1>3. \A e \in Events : (Earliest(e)' <=> Earliest(e)) /\ (Latest(e)' <=> Latest(e))
    BY <1>2 DEF Earliest, Latest
<1>4. \A S : Closed(S)' <=> Closed(S)
    BY <1>2 DEF Closed
<1>5. \A e \in Events : Event(e)' = Event(e)
    BY <1>4 DEF Event
<1>6. QED
    BY <1>1, <1>3, <1>5

\* A selection is among what may be selected, one of each name, and none is left out.
LEMMA OneIs ==
    ASSUME NEW S, NEW T \in OnePerName(S)
    PROVE  /\ T \subseteq S
           /\ \A e, f \in T : SameName(e, f) => e = f
           /\ \A e \in S : \E f \in T : SameName(e, f)
BY DEF OnePerName

-------------------------------------------------------------------------------
\* A check selects what has no mark: an earliest that began, or one beside it that did.
LEMMA CheckKeeps ==
    ASSUME CalendarInv, Check
    PROVE  CalendarInv'
<1> USE DEF CalendarInv
<1>1. /\ started = {} /\ ended = {} /\ acking = {}
      /\ started' \in OnePerName(Began) /\ ended' \in OnePerName(Ceased)
      /\ checked' = TRUE
      /\ now' = now /\ feed' = feed /\ row' = row
      /\ startMark' = startMark /\ endMark' = endMark
      /\ excluded' = excluded /\ acking' = acking /\ kind' = kind
      /\ startTold' = startTold /\ endTold' = endTold /\ troubles' = troubles
    BY DEF Check, Idle, table, posts
<1>2. /\ started' \subseteq Began
      /\ \A e, f \in started' : SameName(e, f) => e = f
      /\ \A e \in Began : \E f \in started' : SameName(e, f)
    BY <1>1, OneIs
<1>3. /\ ended' \subseteq Ceased
      /\ \A e, f \in ended' : SameName(e, f) => e = f
    BY <1>1, OneIs
<1>4. EventTypes'
    BY <1>1, <1>2, <1>3 DEF EventTypes, Began, Ceased
<1>5. Acked("start")' = {} /\ Acked("end")' = {} /\ Acked("start") = {} /\ Acked("end") = {}
    BY <1>1 DEF Acked
<1>6. AckedWasTold'
    BY <1>5 DEF AckedWasTold
<1>7. MarkedWasTold'
    BY <1>1 DEF MarkedWasTold, SameName
<1>8. /\ Stored' = Stored
      /\ \A e \in Events : (Earliest(e)' <=> Earliest(e)) /\ (Latest(e)' <=> Latest(e))
      /\ \A e \in Events : Event(e)' = Event(e)
    BY <1>1, RowsFrame
<1>9. Steady'
    BY <1>1, <1>8 DEF Steady, Spared
<1>10. StartsOnce'
    <2>1. SUFFICES ASSUME Spared("move")
                   PROVE  StartsOnce'
        BY <1>1 DEF StartsOnce, Spared
    <2>2. \A g \in started' : /\ g \in Events /\ g \in Stored /\ Earliest(g)
                              /\ g \notin startMark
        BY <1>2 DEF Began, Active
    <2>3. \A g \in Events : g \in started' \/ startTold'[g] > 0 => g \in Stored' /\ Earliest(g)'
        BY <1>1, <1>8, <2>1, <2>2 DEF StartsOnce
    <2>4. QED
        BY <1>1, <1>5, <2>1, <2>2, <2>3 DEF StartsOnce
<1>11. EndsOnce'
    <2>1. SUFFICES ASSUME Spared("move")
                   PROVE  EndsOnce'
        BY <1>1 DEF EndsOnce, Spared
    <2>2. \A g \in ended' : /\ g \in Events /\ g \in Stored /\ Latest(g)
                            /\ g \notin endMark
        BY <1>3 DEF Ceased, Over
    <2>3. \A g \in Events : g \in ended' \/ endTold'[g] > 0 => g \in Stored' /\ Latest(g)'
        BY <1>1, <1>8, <2>1, <2>2 DEF EndsOnce
    <2>4. \A f \in endMark : \E g \in Events :
             SameName(f, g) /\ row'[g].end = row'[f].end /\ endTold'[g] > 0
        BY <1>1, <2>1 DEF EndsOnce
    <2>5. /\ \A g \in endMark' \union Acked("end")' : endTold'[g] <= troubles'["fault"] + 1
          /\ \A g \in Events \ (endMark' \union Acked("end")') :
                endTold'[g] <= troubles'["fault"]
        BY <1>1, <1>5, <2>1 DEF EndsOnce
    <2>6. \A f, g \in ended' \union Acked("end")' : SameName(f, g) => f = g
        BY <1>3, <1>5
    <2>7. QED
        BY <1>1, <1>5, <2>2, <2>3, <2>4, <2>5, <2>6 DEF EndsOnce, SameName
<1>12. BegunIsTold'
    <2>1. SUFFICES ASSUME \A k \in {"move", "down", "toggle"} : Spared(k)
                   PROVE  BegunIsTold'
        BY <1>1 DEF BegunIsTold, Spared
    <2>2. /\ excluded = {}
          /\ \A e \in Stored : row[e].start < now => \E g \in Event(e) : startTold[g] > 0
        BY <2>1 DEF BegunIsTold
    <2>3. row \in Calendars /\ now \in Nat
        BY DEF EventTypes
    <2>4. ASSUME NEW e \in Stored, row[e].start <= now
          PROVE  \E g \in Event(e) : g \in started' \/ startTold[g] > 0
        <3>1. PICK f \in Event(e) : Earliest(f) /\ row[f].start <= row[e].start
            BY <2>3, HasEarliest
        <3>2. f \in Stored /\ f \in Events /\ e \in Events /\ Event(f) \subseteq Event(e)
            BY <2>3, EventHas DEF Stored
        <3>3. /\ row[f].start \in Nat /\ row[f].end \in Nat /\ row[e].start \in Nat
              /\ row[f].start < row[f].end
            BY <2>3, <3>2, RowsAre
        <3>4. CASE row[f].start < now
            <4>1. \E g \in Event(f) : startTold[g] > 0
                BY <2>2, <3>2, <3>4
            <4>2. QED
                BY <3>2, <4>1
        <3>5. CASE f \in startMark
            <4>1. startTold[f] > 0
                BY <3>5 DEF MarkedWasTold
            <4>2. QED
                BY <4>1
        <3>6. CASE ~(row[f].start < now) /\ f \notin startMark
            <4>1. row[f].start = now /\ now < row[f].end
                BY <2>3, <2>4, <3>1, <3>3, <3>6
            <4>2. f \in Began
                BY <2>2, <2>3, <3>1, <3>2, <3>6, <4>1 DEF Began, Active
            <4>3. PICK g \in started' : SameName(f, g)
                BY <1>2, <4>2
            <4>4. g \in Stored /\ g \in Events /\ row[g].start <= now /\ now < row[g].end
                BY <1>2 DEF Began, Active
            <4>5. CASE g = f
                BY <4>5
            <4>6. CASE g # f
                <5>1. row[g].start # row[f].start
                    BY <2>3, <3>2, <4>3, <4>4, <4>6, RowsAre
                <5>2. row[g].start \in Nat /\ row[g].end \in Nat
                    BY <2>3, <4>4, RowsAre
                <5>3. row[g].start < row[f].end /\ row[f].start < row[g].end
                    BY <2>3, <3>3, <4>1, <4>4, <5>2
                <5>4. g \in Twins(f)
                    BY <4>3, <4>4, <5>1, <5>3 DEF Twins
                <5>5. g \in Event(e)
                    BY <2>3, <5>4, EventHas
                <5>6. QED
                    BY <5>5
            <4>7. QED
                BY <4>5, <4>6
        <3>7. QED
            BY <3>4, <3>5, <3>6
    <2>5. \A e \in Stored : e \in Events
        BY DEF Stored
    <2>6. QED
        BY <1>1, <1>8, <2>2, <2>4, <2>5 DEF BegunIsTold
<1>13. QED
    BY <1>4, <1>6, <1>7, <1>9, <1>10, <1>11, <1>12

\* A post names each of the batch once more.
LEMMA PostedIs ==
    ASSUME NEW told \in [Events -> Nat], NEW B \in SUBSET Events
    PROVE  /\ Posted(told, B) \in [Events -> Nat]
           /\ \A e \in B : Posted(told, B)[e] = told[e] + 1
           /\ \A e \in Events \ B : Posted(told, B)[e] = told[e]
           /\ \A e \in Events : told[e] > 0 => Posted(told, B)[e] > 0
BY DEF Posted

\* A batch of ends goes out: what was not told, or told in vain, is told once more.
LEMMA SendEndsKeeps ==
    ASSUME CalendarInv, acking = {}, NEW B \in SUBSET ended,
           acking' = B, ended' = ended \ B, endTold' = Posted(endTold, B), kind' = "end",
           UNCHANGED <<now, feed, table, excluded, started, startTold, checked, troubles>>
    PROVE  CalendarInv'
<1> USE DEF CalendarInv
<1>1. /\ now' = now /\ feed' = feed /\ row' = row
      /\ startMark' = startMark /\ endMark' = endMark
      /\ excluded' = excluded /\ started' = started
      /\ startTold' = startTold /\ checked' = checked /\ troubles' = troubles
    BY DEF table
<1>2. B \in SUBSET Events /\ endTold \in [Events -> Nat] /\ troubles["fault"] \in Nat
    BY DEF EventTypes, Troubles
<1>3. /\ endTold' \in [Events -> Nat]
      /\ \A e \in B : endTold'[e] = endTold[e] + 1
      /\ \A e \in Events \ B : endTold'[e] = endTold[e]
      /\ \A e \in Events : endTold[e] > 0 => endTold'[e] > 0
    BY <1>2, PostedIs
<1>4. /\ Acked("start") = {} /\ Acked("start")' = {}
      /\ Acked("end") = {} /\ Acked("end")' = B
    BY DEF Acked
<1>5. EventTypes'
    BY <1>1, <1>2, <1>3 DEF EventTypes
<1>6. AckedWasTold'
    BY <1>2, <1>3, <1>4 DEF AckedWasTold
<1>7. MarkedWasTold'
    BY <1>1, <1>3 DEF MarkedWasTold, SameName
<1>8. /\ Stored' = Stored
      /\ \A e \in Events : (Earliest(e)' <=> Earliest(e)) /\ (Latest(e)' <=> Latest(e))
      /\ \A e \in Events : Event(e)' = Event(e)
    BY <1>1, RowsFrame
<1>9. Steady'
    BY <1>1, <1>8 DEF Steady, Spared
<1>10. StartsOnce'
    BY <1>1, <1>4, <1>8 DEF StartsOnce, Spared
<1>11. EndsOnce'
    <2>1. SUFFICES ASSUME Spared("move")
                   PROVE  EndsOnce'
        BY <1>1 DEF EndsOnce, Spared
    <2>2. /\ \A g \in Events : g \in ended \/ endTold[g] > 0 => g \in Stored /\ Latest(g)
          /\ \A g \in ended : g \notin endMark
          /\ \A f, g \in ended : SameName(f, g) => f = g
          /\ \A g \in endMark : endTold[g] <= troubles["fault"] + 1
          /\ \A g \in Events \ endMark : endTold[g] <= troubles["fault"]
          /\ \A f \in endMark :
                \E g \in Events : SameName(f, g) /\ row[g].end = row[f].end /\ endTold[g] > 0
        BY <1>4, <2>1 DEF EndsOnce
    <2>3. \A g \in Events : g \in ended' \/ endTold'[g] > 0 => g \in Stored' /\ Latest(g)'
        BY <1>2, <1>3, <1>8, <2>2
    <2>4. \A f, g \in ended' \union Acked("end")' : SameName(f, g)' => f = g
        BY <1>4, <2>2 DEF SameName
    <2>5. \A g \in endMark' \union Acked("end")' : endTold'[g] <= troubles'["fault"] + 1
        <3>1. \A g \in endMark : endTold'[g] <= troubles["fault"] + 1
            <4>1. endMark \subseteq Events \ B
                BY <2>2 DEF EventTypes
            <4>2. QED
                BY <1>3, <2>2, <4>1
        <3>2. \A g \in B : endTold'[g] <= troubles["fault"] + 1
            <4>1. B \subseteq Events \ endMark
                BY <1>2, <2>2
            <4>2. QED
                BY <1>2, <1>3, <2>2, <4>1
        <3>3. QED
            BY <1>1, <1>4, <3>1, <3>2
    <2>6. \A g \in Events \ (endMark' \union Acked("end")') : endTold'[g] <= troubles'["fault"]
        BY <1>1, <1>3, <1>4, <2>2
    <2>7. \A f \in endMark' : \E g \in Events :
             SameName(f, g)' /\ row'[g].end = row'[f].end /\ endTold'[g] > 0
        BY <1>1, <1>3, <2>2 DEF SameName
    <2>8. /\ \A g \in ended' : g \notin endMark'
          /\ ended' \intersect Acked("end")' = {}
        BY <1>1, <1>4, <2>2
    <2>9. QED
        BY <2>3, <2>4, <2>5, <2>6, <2>7, <2>8 DEF EndsOnce
<1>12. BegunIsTold'
    BY <1>1, <1>8 DEF BegunIsTold, Spared, Stored
<1>13. QED
    BY <1>5, <1>6, <1>7, <1>9, <1>10, <1>11, <1>12

\* A batch of announcements goes out.
LEMMA SendStartsKeeps ==
    ASSUME CalendarInv, acking = {}, ended = {}, NEW B \in SUBSET started,
           acking' = B, started' = started \ B, startTold' = Posted(startTold, B),
           kind' = "start",
           UNCHANGED <<now, feed, table, excluded, ended, endTold, checked, troubles>>
    PROVE  CalendarInv'
<1> USE DEF CalendarInv
<1>1. /\ now' = now /\ feed' = feed /\ row' = row
      /\ startMark' = startMark /\ endMark' = endMark
      /\ excluded' = excluded /\ ended' = ended
      /\ endTold' = endTold /\ checked' = checked /\ troubles' = troubles
    BY DEF table
<1>2. B \in SUBSET Events /\ startTold \in [Events -> Nat] /\ troubles["fault"] \in Nat
    BY DEF EventTypes, Troubles
<1>3. /\ startTold' \in [Events -> Nat]
      /\ \A e \in B : startTold'[e] = startTold[e] + 1
      /\ \A e \in Events \ B : startTold'[e] = startTold[e]
      /\ \A e \in Events : startTold[e] > 0 => startTold'[e] > 0
    BY <1>2, PostedIs
<1>4. /\ Acked("end") = {} /\ Acked("end")' = {}
      /\ Acked("start") = {} /\ Acked("start")' = B
    BY DEF Acked
<1>5. EventTypes'
    BY <1>1, <1>2, <1>3 DEF EventTypes
<1>6. AckedWasTold'
    BY <1>2, <1>3, <1>4 DEF AckedWasTold
<1>7. MarkedWasTold'
    BY <1>1, <1>3 DEF MarkedWasTold, SameName, EventTypes
<1>8. /\ Stored' = Stored
      /\ \A e \in Events : (Earliest(e)' <=> Earliest(e)) /\ (Latest(e)' <=> Latest(e))
      /\ \A e \in Events : Event(e)' = Event(e)
    BY <1>1, RowsFrame
<1>9. Steady'
    BY <1>1, <1>8 DEF Steady, Spared
<1>10. EndsOnce'
    BY <1>1, <1>4, <1>8 DEF EndsOnce, Spared, SameName
<1>11. StartsOnce'
    <2>1. SUFFICES ASSUME Spared("move")
                   PROVE  StartsOnce'
        BY <1>1 DEF StartsOnce, Spared
    <2>2. /\ \A g \in Events : g \in started \/ startTold[g] > 0 => g \in Stored /\ Earliest(g)
          /\ \A g \in started : g \notin startMark
          /\ \A g \in startMark : startTold[g] <= troubles["fault"] + 1
          /\ \A g \in Events \ startMark : startTold[g] <= troubles["fault"]
        BY <1>4, <2>1 DEF StartsOnce
    <2>3. \A g \in Events :
             g \in started' \/ startTold'[g] > 0 => g \in Stored' /\ Earliest(g)'
        BY <1>2, <1>3, <1>8, <2>2
    <2>4. \A g \in startMark' \union Acked("start")' : startTold'[g] <= troubles'["fault"] + 1
        <3>1. \A g \in startMark : startTold'[g] <= troubles["fault"] + 1
            <4>1. startMark \subseteq Events \ B
                BY <2>2 DEF EventTypes
            <4>2. QED
                BY <1>3, <2>2, <4>1
        <3>2. \A g \in B : startTold'[g] <= troubles["fault"] + 1
            <4>1. B \subseteq Events \ startMark
                BY <1>2, <2>2
            <4>2. QED
                BY <1>2, <1>3, <2>2, <4>1
        <3>3. QED
            BY <1>1, <1>4, <3>1, <3>2
    <2>5. \A g \in Events \ (startMark' \union Acked("start")') :
             startTold'[g] <= troubles'["fault"]
        BY <1>1, <1>3, <1>4, <2>2
    <2>6. \A g \in started' : g \notin startMark' \union Acked("start")'
        BY <1>1, <1>4, <2>2
    <2>7. QED
        BY <2>3, <2>4, <2>5, <2>6 DEF StartsOnce
<1>12. BegunIsTold'
    <2>1. SUFFICES ASSUME \A k \in {"move", "down", "toggle"} : Spared(k)
                   PROVE  BegunIsTold'
        BY <1>1 DEF BegunIsTold, Spared
    <2>2. /\ excluded = {}
          /\ \A e \in Stored :
                row[e].start < now => \E g \in Event(e) : startTold[g] > 0
          /\ checked => \A e \in Stored :
                row[e].start <= now => \E g \in Event(e) : g \in started \/ startTold[g] > 0
        BY <2>1 DEF BegunIsTold
    <2>3. \A e \in Stored : \A g \in Event(e) : g \in Events
        BY DEF Event
    <2>4. \A g \in Events : /\ startTold[g] > 0 => startTold'[g] > 0
                            /\ g \in started => g \in started' \/ startTold'[g] > 0
        BY <1>2, <1>3
    <2>5. \A e \in Stored : e \in Events
        BY DEF Stored
    <2>6. QED
        BY <1>1, <1>8, <2>2, <2>3, <2>4, <2>5 DEF BegunIsTold
<1>13. QED
    BY <1>5, <1>6, <1>7, <1>9, <1>10, <1>11, <1>12

\* Ended events go out before those that began.
LEMMA SendKeeps ==
    ASSUME CalendarInv, Send
    PROVE  CalendarInv'
<1>1. CASE /\ \E B \in SUBSET ended \ {{}} :
                 acking' = B /\ ended' = ended \ B /\ endTold' = Posted(endTold, B)
           /\ kind' = "end"
           /\ UNCHANGED <<started, startTold>>
    BY <1>1, SendEndsKeeps DEF Send
<1>2. CASE /\ ended = {}
           /\ \E B \in SUBSET started \ {{}} :
                 acking' = B /\ started' = started \ B /\ startTold' = Posted(startTold, B)
           /\ kind' = "start"
           /\ UNCHANGED <<ended, endTold>>
    BY <1>2, SendStartsKeeps DEF Send
<1>3. QED
    BY <1>1, <1>2 DEF Send

\* What is given up is told no more and marked no more; posts that were not marked count
\* as a fault.
LEMMA GivesUpKeeps ==
    ASSUME CalendarInv, NEW k \in {"refusal", "fault"}, Trouble(k),
           k = "refusal" => acking = {},
           Abandon, checked' = FALSE,
           UNCHANGED <<now, feed, table, excluded, posts>>
    PROVE  CalendarInv'
<1> USE DEF CalendarInv
<1>1. /\ now' = now /\ feed' = feed /\ row' = row
      /\ startMark' = startMark /\ endMark' = endMark
      /\ excluded' = excluded /\ startTold' = startTold /\ endTold' = endTold
      /\ started' = {} /\ ended' = {} /\ acking' = {} /\ kind' = kind
      /\ checked' = FALSE
    BY DEF table, posts, Abandon
<1>2. /\ k \in Troubles /\ "move" \in Troubles /\ "fault" \in Troubles
      /\ "down" \in Troubles /\ "toggle" \in Troubles /\ "refusal" \in Troubles
    BY DEF Troubles
<1>3. /\ troubles' \in [Troubles -> Nat]
      /\ troubles'[k] = troubles[k] + 1
      /\ \A j \in Troubles : j # k => troubles'[j] = troubles[j]
      /\ \A j \in Troubles : Spared(j)' => Spared(j)
    BY <1>2, TroubleIs
<1>4. troubles["fault"] \in Nat /\ startTold \in [Events -> Nat] /\ endTold \in [Events -> Nat]
    BY <1>2 DEF EventTypes
<1>5. Acked("start")' = {} /\ Acked("end")' = {}
    BY <1>1 DEF Acked
<1>6. EventTypes'
    BY <1>1, <1>3 DEF EventTypes
<1>7. AckedWasTold'
    BY <1>5 DEF AckedWasTold
<1>8. MarkedWasTold'
    BY <1>1 DEF MarkedWasTold, SameName
<1>9. /\ Stored' = Stored
      /\ \A e \in Events : (Earliest(e)' <=> Earliest(e)) /\ (Latest(e)' <=> Latest(e))
      /\ \A e \in Events : Event(e)' = Event(e)
    BY <1>1, RowsFrame
<1>10. Spared("move")' => Spared("move")
    BY <1>2, <1>3
<1>11. Steady'
    BY <1>1, <1>9, <1>10 DEF Steady
<1>12. troubles'["fault"] \in Nat
    BY <1>2, <1>3
<1>13. ASSUME k = "fault"
       PROVE  StartsOnce' /\ EndsOnce'
    <2>1. troubles'["fault"] = troubles["fault"] + 1
        BY <1>3, <1>13
    <2>2. StartsOnce'
        <3>1. SUFFICES ASSUME Spared("move")
                       PROVE  StartsOnce'
            BY <1>10 DEF StartsOnce
        <3>2. \A g \in Events : startTold[g] <= troubles["fault"] + 1
            BY <1>4, <3>1 DEF StartsOnce
        <3>3. \A g \in Events : /\ startTold'[g] <= troubles'["fault"]
                                /\ startTold'[g] <= troubles'["fault"] + 1
            BY <1>1, <1>4, <2>1, <3>2
        <3>4. \A g \in Events : startTold'[g] > 0 => g \in Stored' /\ Earliest(g)'
            BY <1>1, <1>9, <3>1 DEF StartsOnce
        <3>5. startMark' \subseteq Events
            BY <1>6 DEF EventTypes
        <3>6. QED
            BY <1>1, <1>5, <3>3, <3>4, <3>5 DEF StartsOnce
    <2>3. EndsOnce'
        <3>1. SUFFICES ASSUME Spared("move")
                       PROVE  EndsOnce'
            BY <1>10 DEF EndsOnce
        <3>2. \A g \in Events : endTold[g] <= troubles["fault"] + 1
            BY <1>4, <3>1 DEF EndsOnce
        <3>3. \A g \in Events : /\ endTold'[g] <= troubles'["fault"]
                                /\ endTold'[g] <= troubles'["fault"] + 1
            BY <1>1, <1>4, <2>1, <3>2
        <3>4. \A g \in Events : endTold'[g] > 0 => g \in Stored' /\ Latest(g)'
            BY <1>1, <1>9, <3>1 DEF EndsOnce
        <3>5. endMark' \subseteq Events
            BY <1>6 DEF EventTypes
        <3>6. \A f \in endMark' : \E g \in Events :
                 SameName(f, g)' /\ row'[g].end = row'[f].end /\ endTold'[g] > 0
            BY <1>1, <3>1 DEF EndsOnce, SameName
        <3>7. QED
            BY <1>1, <1>5, <3>3, <3>4, <3>5, <3>6 DEF EndsOnce
    <2>4. QED
        BY <2>2, <2>3
<1>14. ASSUME k = "refusal"
       PROVE  StartsOnce' /\ EndsOnce'
    <2>1. troubles'["fault"] = troubles["fault"]
        BY <1>2, <1>3, <1>14
    <2>2. Acked("start") = {} /\ Acked("end") = {}
        BY <1>14 DEF Acked
    <2>3. StartsOnce'
        BY <1>1, <1>5, <1>9, <1>10, <2>1, <2>2 DEF StartsOnce
    <2>4. EndsOnce'
        BY <1>1, <1>5, <1>9, <1>10, <2>1, <2>2 DEF EndsOnce, SameName
    <2>5. QED
        BY <2>3, <2>4
<1>15. BegunIsTold'
    <2>1. (\A j \in {"move", "down", "toggle"} : Spared(j)') =>
             \A j \in {"move", "down", "toggle"} : Spared(j)
        BY <1>2, <1>3
    <2>2. QED
        BY <1>1, <1>9, <2>1 DEF BegunIsTold, Stored
<1>16. QED
    BY <1>6, <1>7, <1>8, <1>11, <1>13, <1>14, <1>15

\* The mark of an announcement is its row's; that of an end is for all that end together.
LEMMA AckKeeps ==
    ASSUME CalendarInv, Ack
    PROVE  CalendarInv'
<1> USE DEF CalendarInv
<1>1. PICK e \in acking :
         /\ acking' = acking \ {e}
         /\ IF kind = "start"
            THEN startMark' = startMark \union {e} /\ UNCHANGED endMark
            ELSE /\ endMark' = endMark \union
                       {f \in Stored : SameName(e, f) /\ row[f].end = row[e].end}
                 /\ UNCHANGED startMark
    BY DEF Ack
<1>2. /\ now' = now /\ feed' = feed /\ row' = row /\ kind' = kind
      /\ excluded' = excluded /\ startTold' = startTold /\ endTold' = endTold
      /\ started' = started /\ ended' = ended
      /\ checked' = checked /\ troubles' = troubles
    BY DEF Ack, posts
<1>3. e \in Events /\ acking' \subseteq acking /\ acking \subseteq Events
    BY <1>1 DEF EventTypes
<1>4. Stored \subseteq Events
    BY DEF Stored
<1>5. startMark' \subseteq Events /\ endMark' \subseteq Events
    BY <1>1, <1>3, <1>4 DEF EventTypes
<1>6. EventTypes'
    BY <1>2, <1>3, <1>5 DEF EventTypes
<1>7. AckedWasTold'
    BY <1>2, <1>3 DEF AckedWasTold, Acked
<1>8. /\ Stored' = Stored
      /\ \A f \in Events : (Earliest(f)' <=> Earliest(f)) /\ (Latest(f)' <=> Latest(f))
      /\ \A f \in Events : Event(f)' = Event(f)
    BY <1>2, RowsFrame
<1>9. BegunIsTold'
    BY <1>2, <1>8 DEF BegunIsTold, Spared, Stored
<1>10. CASE kind = "start"
    <2>1. /\ startMark' = startMark \union {e} /\ endMark' = endMark
          /\ Acked("start")' \union {e} = Acked("start") /\ e \in Acked("start")
          /\ Acked("end") = {} /\ Acked("end")' = {}
        BY <1>1, <1>2, <1>10 DEF Acked
    <2>2. startTold[e] > 0
        BY <2>1 DEF AckedWasTold
    <2>3. MarkedWasTold'
        BY <1>2, <2>1, <2>2 DEF MarkedWasTold, SameName
    <2>4. ASSUME Spared("move")
          PROVE  e \in Stored
        BY <1>3, <2>2, <2>4 DEF StartsOnce
    <2>5. Steady'
        BY <1>2, <1>8, <2>1, <2>4 DEF Steady, Spared
    <2>6. startMark' \union Acked("start")' = startMark \union Acked("start")
        BY <2>1
    <2>7. StartsOnce'
        BY <1>2, <1>8, <2>6 DEF StartsOnce, Spared
    <2>8. EndsOnce'
        BY <1>2, <1>8, <2>1 DEF EndsOnce, Spared, SameName
    <2>9. QED
        BY <1>6, <1>7, <1>9, <2>3, <2>5, <2>7, <2>8
<1>11. CASE kind = "end"
    <2> DEFINE M == {f \in Stored : SameName(e, f) /\ row[f].end = row[e].end}
    <2>1. /\ startMark' = startMark /\ endMark' = endMark \union M
          /\ Acked("end")' \union {e} = Acked("end") /\ e \in Acked("end")
          /\ Acked("end")' = Acked("end") \ {e}
          /\ Acked("start") = {} /\ Acked("start")' = {}
        BY <1>1, <1>2, <1>11 DEF Acked
    <2>2. endTold[e] > 0
        BY <2>1 DEF AckedWasTold
    <2>3. MarkedWasTold'
        <3>1. \A f \in M : SameName(f, e)
            BY DEF SameName
        <3>2. \A f \in endMark' : \E g \in Events : SameName(f, g) /\ endTold[g] > 0
            BY <1>3, <2>1, <2>2, <3>1 DEF MarkedWasTold
        <3>3. QED
            BY <1>2, <2>1, <3>2 DEF MarkedWasTold, SameName
    <2>4. Steady'
        BY <1>2, <1>8, <2>1 DEF Steady, Spared
    <2>5. StartsOnce'
        BY <1>2, <1>8, <2>1 DEF StartsOnce, Spared
    <2>6. EndsOnce'
        <3>1. SUFFICES ASSUME Spared("move")
                       PROVE  EndsOnce'
            BY <1>2 DEF EndsOnce, Spared
        <3>2. /\ \A g \in Events : g \in ended \/ endTold[g] > 0 => g \in Stored /\ Latest(g)
              /\ \A g \in ended : g \notin endMark
              /\ \A f, g \in ended \union Acked("end") : SameName(f, g) => f = g
              /\ ended \intersect Acked("end") = {}
              /\ \A g \in endMark \union Acked("end") : endTold[g] <= troubles["fault"] + 1
              /\ \A g \in Events \ (endMark \union Acked("end")) :
                    endTold[g] <= troubles["fault"]
              /\ \A f \in endMark : \E g \in Events :
                    SameName(f, g) /\ row[g].end = row[f].end /\ endTold[g] > 0
            BY <3>1 DEF EndsOnce
        <3>3. e \in M
            BY <1>3, <2>2, <3>2 DEF SameName
        <3>4. \A g \in ended : g \notin M
            <4>1. \A g \in M : SameName(e, g)
                OBVIOUS
            <4>2. QED
                BY <2>1, <3>2, <4>1
        <3>5. endMark' \union Acked("end")' = (endMark \union Acked("end")) \union M
            BY <2>1, <3>3
        <3>6. troubles["fault"] \in Nat /\ endTold \in [Events -> Nat]
            BY DEF EventTypes, Troubles
        <3>7. \A g \in Events : endTold[g] <= troubles["fault"] + 1
            BY <3>2, <3>6
        <3>8. M \subseteq Events
            BY <1>4
        <3>9. \A g \in endMark' \union Acked("end")' : endTold'[g] <= troubles'["fault"] + 1
            BY <1>2, <1>3, <1>5, <3>7 DEF Acked
        <3>10. \A g \in Events \ (endMark' \union Acked("end")') :
                  endTold'[g] <= troubles'["fault"]
            BY <1>2, <3>2, <3>5
        <3>11. \A f \in endMark' : \E g \in Events :
                  SameName(f, g)' /\ row'[g].end = row'[f].end /\ endTold'[g] > 0
            <4>1. \A f \in M : SameName(f, e) /\ row[e].end = row[f].end
                BY DEF SameName
            <4>2. \A f \in endMark \union M : \E g \in Events :
                     SameName(f, g) /\ row[g].end = row[f].end /\ endTold[g] > 0
                BY <1>3, <2>2, <3>2, <4>1
            <4>3. QED
                BY <1>2, <2>1, <4>2 DEF SameName
        <3>12. /\ \A g \in Events : g \in ended' \/ endTold'[g] > 0 => g \in Stored' /\ Latest(g)'
               /\ \A g \in ended' : g \notin endMark'
               /\ ended' \intersect Acked("end")' = {}
            BY <1>2, <1>8, <2>1, <3>2, <3>4
        <3>13. \A f, g \in ended' \union Acked("end")' : SameName(f, g)' => f = g
            BY <1>2, <2>1, <3>2 DEF SameName
        <3>14. QED
            BY <3>9, <3>10, <3>11, <3>12, <3>13 DEF EndsOnce
    <2>7. QED
        BY <1>6, <1>7, <1>9, <2>3, <2>4, <2>5, <2>6
<1>12. QED
    BY <1>10, <1>11 DEF EventTypes

\* A change of the feed, or of what is excluded, is a trouble; the rows stay.
LEMMA TurnedKeeps ==
    ASSUME CalendarInv, NEW k \in {"move", "toggle"}, Trouble(k),
           IF k = "move"
           THEN feed' \in Calendars /\ UNCHANGED <<excluded, checked>>
           ELSE feed' = feed /\ excluded' \subseteq Events /\ checked' = FALSE,
           UNCHANGED <<now, table, posting, posts>>
    PROVE  CalendarInv'
<1> USE DEF CalendarInv
<1>1. /\ now' = now /\ row' = row
      /\ startMark' = startMark /\ endMark' = endMark
      /\ startTold' = startTold /\ endTold' = endTold
      /\ started' = started /\ ended' = ended /\ acking' = acking /\ kind' = kind
    BY DEF table, posts, posting
<1>2. /\ k \in Troubles /\ "move" \in Troubles /\ "fault" \in Troubles
      /\ "down" \in Troubles /\ "toggle" \in Troubles
    BY DEF Troubles
<1>3. /\ troubles' \in [Troubles -> Nat]
      /\ \A j \in Troubles : j # k => troubles'[j] = troubles[j]
      /\ \A j \in Troubles : Spared(j)' => Spared(j)
      /\ ~Spared(k)'
    BY <1>2, TroubleIs
<1>4. troubles'["fault"] = troubles["fault"]
    BY <1>2, <1>3
<1>5. feed' \in Calendars /\ excluded' \subseteq Events /\ checked' \in BOOLEAN
    BY DEF EventTypes
<1>6. EventTypes'
    BY <1>1, <1>3, <1>5 DEF EventTypes
<1>7. AckedWasTold'
    BY <1>1 DEF AckedWasTold, Acked
<1>8. MarkedWasTold'
    BY <1>1 DEF MarkedWasTold, SameName
<1>9. /\ Stored' = Stored
      /\ \A e \in Events : (Earliest(e)' <=> Earliest(e)) /\ (Latest(e)' <=> Latest(e))
    BY <1>1, RowsFrame
<1>10. BegunIsTold'
    BY <1>3 DEF BegunIsTold
<1>11. ASSUME k = "toggle"
       PROVE  Steady' /\ StartsOnce' /\ EndsOnce'
    <2>1. (Spared("move")' => Spared("move")) /\ feed' = feed
        BY <1>2, <1>3, <1>11
    <2>2. Steady'
        BY <1>1, <1>9, <2>1 DEF Steady
    <2>3. StartsOnce'
        BY <1>1, <1>4, <1>9, <2>1 DEF StartsOnce, Acked
    <2>4. EndsOnce'
        BY <1>1, <1>4, <1>9, <2>1 DEF EndsOnce, Acked, SameName
    <2>5. QED
        BY <2>2, <2>3, <2>4
<1>12. ASSUME k = "move"
       PROVE  Steady' /\ StartsOnce' /\ EndsOnce'
    BY <1>3, <1>12 DEF Steady, StartsOnce, EndsOnce
<1>13. QED
    BY <1>6, <1>7, <1>8, <1>10, <1>11, <1>12

\* The feed may say whatever is a calendar.
LEMMA PublishKeeps ==
    ASSUME CalendarInv, Publish
    PROVE  CalendarInv'
<1>1. feed' \in Calendars
    <2>1. PICK e \in Events, s \in Spans \union {Unlisted} : feed' = [feed EXCEPT ![e] = s]
        BY DEF Publish
    <2>2. feed \in [Events -> Spans \union {Unlisted}]
        BY DEF CalendarInv, EventTypes, Calendars
    <2>3. feed' \in [Events -> Spans \union {Unlisted}]
        BY <2>1, <2>2
    <2>4. Keyed(feed')
        BY DEF Publish
    <2>5. QED
        BY <2>3, <2>4 DEF Calendars
<1>2. Trouble("move") /\ UNCHANGED <<now, table, excluded, posting, posts, checked>>
    BY DEF Publish
<1>3. QED
    BY <1>1, <1>2, TurnedKeeps

\* An excluded type changes what is selected next.
LEMMA ExcludeKeeps ==
    ASSUME CalendarInv, Exclude
    PROVE  CalendarInv'
<1>1. excluded' \subseteq Events
    BY DEF Exclude, CalendarInv, EventTypes
<1>2. Trouble("toggle") /\ checked' = FALSE /\ UNCHANGED <<now, feed, table, posting, posts>>
    BY DEF Exclude
<1>3. QED
    BY <1>1, <1>2, TurnedKeeps

\* A fetch of a feed that stands still finds the rows as they are.
LEMMA FetchKeeps ==
    ASSUME CalendarInv, Fetch
    PROVE  CalendarInv'
<1> USE DEF CalendarInv
<1>1. PICK lost \in SUBSET {e \in Events : feed[e] # Unlisted} :
         /\ IF lost = {} THEN UNCHANGED troubles ELSE Trouble("fault")
         /\ row' = [e \in Events |->
                      IF feed[e] # Unlisted THEN IF e \in lost THEN row[e] ELSE feed[e]
                      ELSE IF lost = {} /\ row[e].start > now THEN Unlisted ELSE row[e]]
         /\ Keyed(row')
         /\ startMark' = {e \in startMark : row'[e] # Unlisted}
         /\ endMark' = {e \in endMark : row'[e] # Unlisted}
    BY DEF Fetch
<1>2. /\ now' = now /\ feed' = feed /\ excluded' = excluded
      /\ started = {} /\ ended = {} /\ acking = {}
      /\ started' = {} /\ ended' = {} /\ acking' = {} /\ kind' = kind
      /\ startTold' = startTold /\ endTold' = endTold /\ checked' = FALSE
    BY DEF Fetch, Idle, posting, posts
<1>3. /\ startMark' \subseteq startMark /\ endMark' \subseteq endMark
      /\ startMark' \subseteq Events /\ endMark' \subseteq Events
    BY <1>1 DEF EventTypes
<1>4. row' \in Calendars
    <2>1. feed \in [Events -> Spans \union {Unlisted}] /\ row \in [Events -> Spans \union {Unlisted}]
        BY DEF EventTypes, Calendars
    <2>2. row' \in [Events -> Spans \union {Unlisted}]
        BY <1>1, <2>1
    <2>3. QED
        BY <1>1, <2>2 DEF Calendars
<1>5. "move" \in Troubles /\ "fault" \in Troubles /\ "down" \in Troubles /\ "toggle" \in Troubles
    BY DEF Troubles
<1>6. /\ troubles' \in [Troubles -> Nat]
      /\ troubles'["fault"] \in Nat /\ troubles["fault"] \in Nat
      /\ troubles["fault"] <= troubles'["fault"]
      /\ \A j \in Troubles : Spared(j)' => Spared(j)
    <2>1. CASE lost = {}
        BY <1>1, <1>5, <2>1 DEF EventTypes, Spared
    <2>2. CASE lost # {}
        <3>1. Trouble("fault")
            BY <1>1, <2>2
        <3>2. /\ troubles' \in [Troubles -> Nat]
              /\ troubles'["fault"] = troubles["fault"] + 1
              /\ \A j \in Troubles : Spared(j)' => Spared(j)
            BY <1>5, <3>1, TroubleIs
        <3>3. troubles["fault"] \in Nat
            BY <1>5 DEF EventTypes
        <3>4. QED
            BY <3>2, <3>3
    <2>3. QED
        BY <2>1, <2>2
<1>7. Acked("start") = {} /\ Acked("end") = {} /\ Acked("start")' = {} /\ Acked("end")' = {}
    BY <1>2 DEF Acked
<1>8. EventTypes'
    BY <1>2, <1>3, <1>4, <1>6 DEF EventTypes
<1>9. AckedWasTold'
    BY <1>7 DEF AckedWasTold
<1>10. MarkedWasTold'
    BY <1>2, <1>3 DEF MarkedWasTold, SameName
<1>11. ASSUME Spared("move")'
       PROVE  /\ Spared("move") /\ row' = row
              /\ startMark' = startMark /\ endMark' = endMark
    <2>1. Spared("move")
        BY <1>5, <1>6, <1>11
    <2>2. row = feed /\ startMark \subseteq Stored /\ endMark \subseteq Stored
        BY <2>1 DEF Steady
    <2>3. \A e \in Events : row'[e] = row[e]
        <3>1. ~(Unlisted.start > now)
            BY DEF Unlisted, EventTypes
        <3>2. QED
            BY <1>1, <2>2, <3>1
    <2>4. row' = row
        BY <1>4, <2>3 DEF Calendars, EventTypes
    <2>5. startMark' = startMark /\ endMark' = endMark
        BY <1>1, <2>2, <2>4 DEF Stored
    <2>6. QED
        BY <2>1, <2>4, <2>5
<1>12. row' = row =>
          /\ Stored' = Stored
          /\ \A e \in Events : (Earliest(e)' <=> Earliest(e)) /\ (Latest(e)' <=> Latest(e))
          /\ \A e \in Events : Event(e)' = Event(e)
    BY RowsFrame
<1>13. Steady'
    BY <1>2, <1>11, <1>12 DEF Steady
<1>14. startTold \in [Events -> Nat] /\ endTold \in [Events -> Nat]
    BY DEF EventTypes
<1>15. StartsOnce'
    <2>1. SUFFICES ASSUME Spared("move")'
                   PROVE  StartsOnce'
        BY DEF StartsOnce
    <2>2. /\ \A g \in Events : startTold[g] > 0 => g \in Stored /\ Earliest(g)
          /\ \A g \in startMark : startTold[g] <= troubles["fault"] + 1
          /\ \A g \in Events \ startMark : startTold[g] <= troubles["fault"]
        BY <1>7, <1>11, <2>1 DEF StartsOnce
    <2>3. /\ \A g \in startMark' : startTold'[g] <= troubles'["fault"] + 1
          /\ \A g \in Events \ startMark' : startTold'[g] <= troubles'["fault"]
        BY <1>2, <1>3, <1>6, <1>11, <1>14, <2>1, <2>2
    <2>4. \A g \in Events : startTold'[g] > 0 => g \in Stored' /\ Earliest(g)'
        BY <1>2, <1>11, <1>12, <2>1, <2>2
    <2>5. QED
        BY <1>2, <1>7, <2>3, <2>4 DEF StartsOnce
<1>16. EndsOnce'
    <2>1. SUFFICES ASSUME Spared("move")'
                   PROVE  EndsOnce'
        BY DEF EndsOnce
    <2>2. /\ \A g \in Events : endTold[g] > 0 => g \in Stored /\ Latest(g)
          /\ \A g \in endMark : endTold[g] <= troubles["fault"] + 1
          /\ \A g \in Events \ endMark : endTold[g] <= troubles["fault"]
          /\ \A f \in endMark :
                \E g \in Events : SameName(f, g) /\ row[g].end = row[f].end /\ endTold[g] > 0
        BY <1>7, <1>11, <2>1 DEF EndsOnce
    <2>3. /\ \A g \in endMark' : endTold'[g] <= troubles'["fault"] + 1
          /\ \A g \in Events \ endMark' : endTold'[g] <= troubles'["fault"]
        BY <1>2, <1>3, <1>6, <1>11, <1>14, <2>1, <2>2
    <2>4. \A g \in Events : endTold'[g] > 0 => g \in Stored' /\ Latest(g)'
        BY <1>2, <1>11, <1>12, <2>1, <2>2
    <2>5. \A f \in endMark' : \E g \in Events :
             SameName(f, g)' /\ row'[g].end = row'[f].end /\ endTold'[g] > 0
        BY <1>2, <1>11, <2>1, <2>2 DEF SameName
    <2>6. QED
        BY <1>2, <1>7, <2>3, <2>4, <2>5 DEF EndsOnce
<1>17. BegunIsTold'
    <2>1. SUFFICES ASSUME \A k \in {"move", "down", "toggle"} : Spared(k)'
                   PROVE  BegunIsTold'
        BY DEF BegunIsTold
    <2>2. /\ excluded = {}
          /\ \A e \in Stored :
                row[e].start < now => \E g \in Event(e) : startTold[g] > 0
        BY <1>5, <1>6, <2>1 DEF BegunIsTold
    <2>3. row' = row
        BY <1>11, <2>1
    <2>4. Stored \subseteq Events
        BY DEF Stored
    <2>5. QED
        BY <1>2, <1>12, <2>2, <2>3, <2>4 DEF BegunIsTold
<1>18. QED
    BY <1>8, <1>9, <1>10, <1>13, <1>15, <1>16, <1>17

\* A moment passes after its check, unless the bot was down.
LEMMA AdvanceKeeps ==
    ASSUME CalendarInv, Advance
    PROVE  CalendarInv'
<1> USE DEF CalendarInv
<1>1. /\ now' = now + 1 /\ feed' = feed /\ row' = row
      /\ startMark' = startMark /\ endMark' = endMark
      /\ started = {} /\ ended = {} /\ acking = {}
      /\ excluded' = excluded /\ startTold' = startTold /\ endTold' = endTold
      /\ started' = {} /\ ended' = {} /\ acking' = {} /\ kind' = kind
      /\ checked' = FALSE
    BY DEF Advance, Idle, table, posting, posts
<1>2. "move" \in Troubles /\ "fault" \in Troubles /\ "down" \in Troubles /\ "toggle" \in Troubles
    BY DEF Troubles
<1>3. /\ troubles' \in [Troubles -> Nat]
      /\ troubles'["fault"] = troubles["fault"]
      /\ \A j \in Troubles : Spared(j)' => Spared(j)
      /\ Spared("down")' => checked
    <2>1. CASE checked
        BY <1>2, <2>1 DEF Advance, EventTypes, Spared
    <2>2. CASE ~checked
        <3>1. Trouble("down")
            BY <2>2 DEF Advance
        <3>2. QED
            BY <1>2, <3>1, TroubleIs
    <2>3. QED
        BY <2>1, <2>2
<1>4. now \in Nat /\ row \in Calendars /\ Stored \subseteq Events
    BY DEF EventTypes, Stored
<1>5. EventTypes'
    <2>1. now' \in Nat
        BY <1>1, <1>4
    <2>2. QED
        BY <1>1, <1>3, <2>1 DEF EventTypes
<1>6. AckedWasTold'
    BY <1>1 DEF AckedWasTold, Acked
<1>7. MarkedWasTold'
    BY <1>1 DEF MarkedWasTold, SameName
<1>8. /\ Stored' = Stored
      /\ \A e \in Events : (Earliest(e)' <=> Earliest(e)) /\ (Latest(e)' <=> Latest(e))
      /\ \A e \in Events : Event(e)' = Event(e)
    BY <1>1, RowsFrame
<1>9. Spared("move")' => Spared("move")
    BY <1>2, <1>3
<1>10. Steady'
    BY <1>1, <1>8, <1>9 DEF Steady
<1>11. StartsOnce'
    BY <1>1, <1>3, <1>8, <1>9 DEF StartsOnce, Acked
<1>12. EndsOnce'
    BY <1>1, <1>3, <1>8, <1>9 DEF EndsOnce, Acked, SameName
<1>13. BegunIsTold'
    <2>1. SUFFICES ASSUME \A k \in {"move", "down", "toggle"} : Spared(k)'
                   PROVE  BegunIsTold'
        BY DEF BegunIsTold
    <2>2. /\ excluded = {}
          /\ \A e \in Stored : row[e].start <= now =>
                \E g \in Event(e) : g \in started \/ startTold[g] > 0
        BY <1>2, <1>3, <2>1 DEF BegunIsTold
    <2>3. \A e \in Stored : row[e].start \in Nat
        BY <1>4, RowsAre
    <2>4. \A e \in Stored : row[e].start < now + 1 => \E g \in Event(e) : startTold[g] > 0
        <3>1. \A e \in Stored : row[e].start < now + 1 => row[e].start <= now
            BY <1>4, <2>3
        <3>2. QED
            BY <1>1, <2>2, <3>1
    <2>5. QED
        BY <1>1, <1>4, <1>8, <2>2, <2>4 DEF BegunIsTold
<1>14. QED
    BY <1>5, <1>6, <1>7, <1>10, <1>11, <1>12, <1>13

\* At the start the table has the feed, and nothing was told.
LEMMA CalendarStarts ==
    ASSUME Init
    PROVE  CalendarInv
<1> USE DEF Init
<1>1. EventTypes
    BY DEF EventTypes, Troubles
<1>2. Acked("start") = {} /\ Acked("end") = {}
    BY DEF Acked
<1>3. AckedWasTold /\ MarkedWasTold /\ Steady
    BY <1>2 DEF AckedWasTold, MarkedWasTold, Steady
<1>4. \A e \in Events : startTold[e] = 0 /\ endTold[e] = 0
    OBVIOUS
<1>5. troubles["fault"] = 0
    BY DEF Troubles
<1>6. StartsOnce /\ EndsOnce
    BY <1>2, <1>4, <1>5 DEF StartsOnce, EndsOnce
<1>7. BegunIsTold
    <2>1. row \in Calendars /\ now = 0 /\ excluded = {} /\ checked = FALSE
        BY <1>1 DEF EventTypes
    <2> HIDE DEF Init
    <2>2. \A e \in Stored : row[e].start \in Nat
        BY <2>1, RowsAre DEF Stored
    <2>3. QED
        BY <2>1, <2>2 DEF BegunIsTold
<1>8. QED
    BY <1>1, <1>3, <1>6, <1>7 DEF CalendarInv

\* Every step of the calendar keeps its invariant.
LEMMA CalendarStep ==
    ASSUME CalendarInv, [Next]_vars
    PROVE  CalendarInv'
<1>1. CASE Refused
    <2>1. /\ Trouble("refusal") /\ acking = {} /\ Abandon /\ checked' = FALSE
          /\ UNCHANGED <<now, feed, table, excluded, posts>>
        BY <1>1 DEF Refused
    <2>2. QED
        BY <2>1, GivesUpKeeps
<1>2. CASE Fails
    <2>1. /\ Trouble("fault") /\ Abandon /\ checked' = FALSE
          /\ UNCHANGED <<now, feed, table, excluded, posts>>
        BY <1>2 DEF Fails
    <2>2. QED
        BY <2>1, GivesUpKeeps
<1>3. CASE UNCHANGED vars
    <2>1. /\ now' = now /\ feed' = feed /\ row' = row
          /\ startMark' = startMark /\ endMark' = endMark
          /\ excluded' = excluded /\ startTold' = startTold /\ endTold' = endTold
          /\ started' = started /\ ended' = ended /\ acking' = acking /\ kind' = kind
          /\ checked' = checked /\ troubles' = troubles
        BY <1>3 DEF vars, table, posting, posts
    <2>2. /\ Stored' = Stored
          /\ \A e \in Events : (Earliest(e)' <=> Earliest(e)) /\ (Latest(e)' <=> Latest(e))
          /\ \A e \in Events : Event(e)' = Event(e)
        BY <2>1, RowsFrame
    <2>3. EventTypes' /\ AckedWasTold' /\ MarkedWasTold' /\ Steady'
        BY <2>1, <2>2
        DEF CalendarInv, EventTypes, AckedWasTold, MarkedWasTold, Steady, Spared, Acked, SameName
    <2>4. StartsOnce' /\ EndsOnce'
        BY <2>1, <2>2 DEF CalendarInv, StartsOnce, EndsOnce, Spared, Acked, SameName
    <2>5. BegunIsTold'
        BY <2>1, <2>2 DEF CalendarInv, BegunIsTold, Spared, Stored
    <2>6. QED
        BY <2>3, <2>4, <2>5 DEF CalendarInv
<1>4. QED
    BY <1>1, <1>2, <1>3, CheckKeeps, SendKeeps, AckKeeps, PublishKeeps, FetchKeeps,
       AdvanceKeeps, ExcludeKeeps DEF Next

\* Of an event's copies one alone is announced, and of one alone the end is.
LEMMA ToldOnce ==
    ASSUME CalendarInv
    PROVE  OncePerEvent
<1>1. SUFFICES ASSUME Spared("move"), NEW e \in Stored
               PROVE  /\ Total(startTold, Event(e)) <= 1 + troubles["fault"]
                      /\ Total(endTold, Event(e)) <= 1 + troubles["fault"]
    BY DEF OncePerEvent
<1>2. /\ row \in Calendars /\ troubles["fault"] + 1 \in Nat
      /\ startTold \in [Events -> Nat] /\ endTold \in [Events -> Nat]
    BY DEF CalendarInv, EventTypes, Troubles
<1>3. Event(e) \in SUBSET Events
    BY DEF Event
<1>4. /\ \A g \in Events : startTold[g] > 0 => Earliest(g)
      /\ \A g \in Events : endTold[g] > 0 => Latest(g)
    BY <1>1 DEF CalendarInv, StartsOnce, EndsOnce
<1>5. /\ \A f, g \in Event(e) : startTold[f] > 0 /\ startTold[g] > 0 => f = g
      /\ \A f, g \in Event(e) : endTold[f] > 0 /\ endTold[g] > 0 => f = g
    BY <1>2, <1>3, <1>4, OneOfEach
<1>6. \A g \in Event(e) : startTold[g] <= troubles["fault"] + 1
    <2>1. troubles["fault"] \in Nat
        BY DEF CalendarInv, EventTypes, Troubles
    <2>2. QED
        BY <1>1, <1>2, <1>3, <2>1 DEF CalendarInv, StartsOnce
<1>7. \A g \in Event(e) : endTold[g] <= troubles["fault"] + 1
    <2>1. troubles["fault"] \in Nat
        BY DEF CalendarInv, EventTypes, Troubles
    <2>2. QED
        BY <1>1, <1>2, <1>3, <2>1 DEF CalendarInv, EndsOnce
<1>8. Total(startTold, Event(e)) <= troubles["fault"] + 1
    BY <1>2, <1>3, <1>5, <1>6, TotalIs
<1>9. Total(endTold, Event(e)) <= troubles["fault"] + 1
    BY <1>2, <1>3, <1>5, <1>7, TotalIs
<1>10. troubles["fault"] + 1 = 1 + troubles["fault"]
    BY DEF CalendarInv, EventTypes, Troubles
<1>11. QED
    BY <1>8, <1>9, <1>10

\* An end that is neither told nor selected would need a mark, which is another's that
\* ended with it: a copy of the same event.
LEMMA EndIsTold ==
    ASSUME CalendarInv, Spared("move"), NEW e \in Events, Gone(e)
    PROVE  \E f \in Event(e) : endTold[f] > 0 \/ f \in Ceased
<1>1. row \in Calendars /\ e \in Stored
    BY DEF CalendarInv, EventTypes, Gone, Over
<1>2. PICK f \in Event(e) : Latest(f)
    BY <1>1, HasLatest
<1>3. f \in Events /\ f \in Stored /\ Over(f) /\ f \notin excluded
    BY <1>1, <1>2, EventHas DEF Gone, Stored
<1>4. CASE f \notin endMark
    BY <1>2, <1>3, <1>4 DEF Ceased
<1>5. CASE f \in endMark
    <2>1. PICK g \in Events : SameName(f, g) /\ row[g].end = row[f].end /\ endTold[g] > 0
        BY <1>5 DEF CalendarInv, EndsOnce
    <2>2. g \in Stored
        BY <2>1 DEF CalendarInv, EndsOnce
    <2>3. CASE g = f
        BY <2>1, <2>3
    <2>4. CASE g # f
        <3>1. row[g].start # row[f].start
            BY <1>1, <1>3, <2>1, <2>2, <2>4, RowsAre
        <3>2. row[g].start < row[f].end /\ row[f].start < row[g].end
            BY <1>1, <1>3, <2>1, <2>2, RowsAre
        <3>3. g \in Twins(f)
            BY <2>1, <2>2, <3>1, <3>2 DEF Twins
        <3>4. g \in Event(e)
            BY <1>1, <3>3, EventHas
        <3>5. QED
            BY <2>1, <3>4
    <2>5. QED
        BY <2>3, <2>4
<1>6. QED
    BY <1>4, <1>5

\* The invariant has what the marks mean, and that nothing is lost.
LEMMA NothingIsLost ==
    ASSUME CalendarInv
    PROVE  MarksAreTrue
<1>1. MarkedWasTold
    BY DEF CalendarInv
<1>2. ASSUME Idle, checked, \A k \in {"move", "down", "toggle"} : Spared(k),
             NEW e \in Events, Active(e)
      PROVE  \E f \in Event(e) : startTold[f] > 0
    <2>1. e \in Stored /\ row[e].start <= now /\ started = {}
        BY <1>2 DEF Active, Idle
    <2>2. \E f \in Event(e) : f \in started \/ startTold[f] > 0
        BY <1>2, <2>1 DEF CalendarInv, BegunIsTold
    <2>3. QED
        BY <2>1, <2>2
<1>3. NoNoticeLost
    BY <1>2, EndIsTold DEF NoNoticeLost
<1>4. QED
    BY <1>1, <1>3 DEF MarksAreTrue

\* However the copies of an event overlap, end together or chain, it is announced once and
\* its end once, a fault aside.
THEOREM EventsToldOnce == Spec => []OncePerEvent
<1>1. Init => CalendarInv
    BY CalendarStarts
<1>2. CalendarInv /\ [Next]_vars => CalendarInv'
    BY CalendarStep
<1>3. CalendarInv => OncePerEvent
    BY ToldOnce
<1>4. QED
    BY <1>1, <1>2, <1>3, PTL DEF Spec

\* A mark is a post Discord accepted, and no notice is lost: what runs was announced when
\* the bot was up, and what is over is told or selected by the next tick.
THEOREM MarksTellTheTruth == Spec => []MarksAreTrue
<1>1. Init => CalendarInv
    BY CalendarStarts
<1>2. CalendarInv /\ [Next]_vars => CalendarInv'
    BY CalendarStep
<1>3. CalendarInv => MarksAreTrue
    BY NothingIsLost
<1>4. QED
    BY <1>1, <1>2, <1>3, PTL DEF Spec

HIDE EventNoticesAssumption DEF EventNoticesAssumption

-------------------------------------------------------------------------------
USE HistoryAssumption DEF HistoryAssumption

\* SpawnHistory.
HistoryTypes ==
    /\ clock \in Nat /\ seen \in [Spawns -> Nat]
    /\ scanned \in [Spawns -> Rows] /\ recorded \in [Spawns -> Rows]
    /\ collecting \in [started : Nat, last : Nat, known : BOOLEAN]
    /\ gaps \in SUBSET (Nat \X Nat)

\* No capture is of the future, and the scanner keeps a row for its life at least.
ScannerKeeps ==
    /\ clock <= LastMoment /\ collecting.started <= collecting.last /\ collecting.last <= clock
    /\ \A s \in Spawns :
          /\ scanned[s] = NotThere => seen[s] > LastMoment \/ clock > seen[s] + Life
          /\ seen[s] > LastMoment => scanned[s] = NotThere
          /\ scanned[s] # NotThere => scanned[s].variant # "none"
          /\ scanned[s].iv \in {Unmeasured, scanned[s].variant}

\* What appeared since the recorder began, and is not too old, is recorded or in a gap.
RecordedOrGap ==
    collecting.known =>
        \A s \in Spawns :
            /\ collecting.started <= seen[s] /\ seen[s] < collecting.last
            /\ collecting.last <= seen[s] + Retention
            => \/ recorded[s] # NotThere
               \/ \E g \in gaps : g[1] <= seen[s] /\ seen[s] < g[2]

HistoryInv == HistoryTypes /\ ScannerKeeps /\ RecordedOrGap /\ OneVariantEach

\* What the state of the recorder and a row are made of.
LEMMA HistoryAre ==
    ASSUME HistoryTypes
    PROVE  /\ collecting.started \in Nat /\ collecting.last \in Nat
           /\ collecting.known \in BOOLEAN
           /\ \A s \in Spawns : seen[s] \in Nat /\ scanned[s] \in Rows /\ recorded[s] \in Rows
           /\ \A g \in gaps : g[1] \in Nat /\ g[2] \in Nat
BY DEF HistoryTypes

\* The constants, one by one.
LEMMA SpanConstants ==
    /\ Retention \in Nat /\ MaxGap \in Nat /\ Life \in Nat /\ LastMoment \in Nat
    /\ Retention > 0 /\ MaxGap <= Life /\ "none" \notin Variants
OBVIOUS

\* A row that is not there is a row.
LEMMA NotThereIs ==
    /\ NotThere \in Rows /\ NotThere.variant = "none" /\ NotThere.odds = "none"
    /\ NotThere.iv = Unmeasured
BY DEF NotThere, Rows

\* A row that is copied is of one variant, which it has.
LEMMA UpsertIs ==
    ASSUME NEW old \in Rows, NEW new \in Rows,
           old.odds = old.variant, old.iv \in {Unmeasured, old.variant},
           new.iv \in {Unmeasured, new.variant}
    PROVE  /\ Upsert(old, new) \in Rows
           /\ Upsert(old, new).variant = new.variant
           /\ Upsert(old, new).odds = Upsert(old, new).variant
           /\ Upsert(old, new).iv \in {Unmeasured, Upsert(old, new).variant}
<1>1. PICK iv \in Variants \union {Unmeasured} :
          /\ iv = IF old.variant # new.variant \/ new.iv # Unmeasured THEN new.iv ELSE old.iv
          /\ iv \in {Unmeasured, new.variant}
    BY DEF Rows
<1>2. PICK odds \in Variants \union {"none"} :
          /\ odds = IF old.variant # new.variant THEN new.variant ELSE old.odds
          /\ odds = new.variant
    BY DEF Rows
<1>3. Upsert(old, new) = [variant |-> new.variant, odds |-> odds, iv |-> iv]
    BY <1>1, <1>2 DEF Upsert
<1>4. new.variant \in Variants \union {"none"}
    BY DEF Rows
<1>5. QED
    BY <1>1, <1>2, <1>3, <1>4 DEF Rows

\* A spawn that appears is scanned now, after every capture so far.
LEMMA AppearsKeeps ==
    ASSUME HistoryInv, NEW s \in Spawns, Appears(s)
    PROVE  HistoryInv'
<1> USE DEF HistoryInv
<1>1. /\ UNCHANGED <<clock, recorded, collecting, gaps>>
      /\ seen' = [seen EXCEPT ![s] = clock] /\ seen[s] > LastMoment
    BY DEF Appears
<1>2. PICK v \in Variants : scanned' = [scanned EXCEPT ![s].variant = v]
    BY DEF Appears
<1>3. PICK rec \in Rows : /\ rec = [scanned[s] EXCEPT !.variant = v]
                          /\ rec.variant = v /\ rec.iv = scanned[s].iv
    <2>1. /\ [scanned[s] EXCEPT !.variant = v] \in Rows
          /\ [scanned[s] EXCEPT !.variant = v].variant = v
          /\ [scanned[s] EXCEPT !.variant = v].iv = scanned[s].iv
        BY HistoryAre DEF Rows
    <2>2. QED
        BY <2>1
<1>4. /\ scanned' \in [Spawns -> Rows] /\ scanned'[s] = rec
      /\ \A t \in Spawns : t # s => scanned'[t] = scanned[t]
      /\ seen' \in [Spawns -> Nat] /\ seen'[s] = clock
      /\ \A t \in Spawns : t # s => seen'[t] = seen[t]
    BY <1>1, <1>2, <1>3 DEF HistoryTypes
<1>5. rec # NotThere /\ v # "none" /\ rec.iv = Unmeasured
    BY <1>1, <1>2, <1>3, NotThereIs, SpanConstants DEF ScannerKeeps
<1>6. HistoryTypes'
    BY <1>1, <1>4 DEF HistoryTypes
<1>7. ScannerKeeps'
    <2>1. \A t \in Spawns : t # s => seen'[t] = seen[t] /\ scanned'[t] = scanned[t]
        BY <1>4
    <2>2. ~(clock > LastMoment)
        BY HistoryAre, SpanConstants DEF ScannerKeeps, HistoryTypes
    <2>3. QED
        BY <1>1, <1>3, <1>4, <1>5, <2>1, <2>2 DEF ScannerKeeps
<1>8. RecordedOrGap'
    <2>1. ~(clock < collecting.last)
        BY HistoryAre DEF ScannerKeeps, HistoryTypes
    <2>2. QED
        BY <1>1, <1>4, <2>1 DEF RecordedOrGap
<1>9. QED
    BY <1>1, <1>6, <1>7, <1>8 DEF OneVariantEach

\* A spawn is measured or changes its variant: its row is of that one.
LEMMA RescannedKeeps ==
    ASSUME HistoryInv, NEW s \in Spawns, Rescanned(s)
    PROVE  HistoryInv'
<1> USE DEF HistoryInv
<1>1. UNCHANGED <<clock, seen, recorded, collecting, gaps>> /\ scanned[s] # NotThere
    BY DEF Rescanned
<1>2. PICK v \in Variants, measured \in BOOLEAN :
          scanned' = [scanned EXCEPT ![s].variant = v,
                                     ![s].iv = IF measured THEN v ELSE Unmeasured]
    BY DEF Rescanned
<1>3. PICK iv \in Variants \union {Unmeasured} :
          iv = (IF measured THEN v ELSE Unmeasured) /\ iv \in {Unmeasured, v}
    OBVIOUS
<1>4. PICK rec \in Rows : /\ rec = [scanned[s] EXCEPT !.variant = v, !.iv = iv]
                          /\ rec.variant = v /\ rec.iv = iv
    <2>1. /\ [scanned[s] EXCEPT !.variant = v, !.iv = iv] \in Rows
          /\ [scanned[s] EXCEPT !.variant = v, !.iv = iv].variant = v
          /\ [scanned[s] EXCEPT !.variant = v, !.iv = iv].iv = iv
        BY HistoryAre DEF Rows
    <2>2. QED
        BY <2>1
<1>5. /\ scanned' \in [Spawns -> Rows] /\ scanned'[s] = rec
      /\ \A t \in Spawns : t # s => scanned'[t] = scanned[t]
    <2>1. scanned' = [scanned EXCEPT ![s] = rec]
        BY <1>2, <1>3, <1>4 DEF HistoryTypes
    <2>2. QED
        BY <1>4, <2>1 DEF HistoryTypes
<1>6. rec # NotThere /\ v # "none"
    BY <1>4, NotThereIs, SpanConstants
<1>7. HistoryTypes'
    BY <1>1, <1>5 DEF HistoryTypes
<1>8. ScannerKeeps'
    BY <1>1, <1>3, <1>4, <1>5, <1>6 DEF ScannerKeeps
<1>9. RecordedOrGap' /\ OneVariantEach'
    BY <1>1 DEF RecordedOrGap, OneVariantEach
<1>10. QED
    BY <1>7, <1>8, <1>9

\* The scanner forgets a spawn only after its life; and time passes.
LEMMA ForgottenKeeps ==
    ASSUME HistoryInv, NEW s \in Spawns, Forgotten(s)
    PROVE  HistoryInv'
<1> USE DEF HistoryInv
<1>1. /\ UNCHANGED <<clock, seen, recorded, collecting, gaps>>
      /\ clock > seen[s] + Life /\ scanned' = [scanned EXCEPT ![s] = NotThere]
    BY DEF Forgotten
<1>2. HistoryTypes'
    BY <1>1, NotThereIs DEF HistoryTypes
<1>3. /\ scanned'[s] = NotThere
      /\ \A t \in Spawns : t # s => scanned'[t] = scanned[t]
    BY <1>1 DEF HistoryTypes
<1>4. ScannerKeeps'
    BY <1>1, <1>3, NotThereIs DEF ScannerKeeps
<1>5. RecordedOrGap' /\ OneVariantEach'
    BY <1>1 DEF RecordedOrGap, OneVariantEach
<1>6. QED
    BY <1>2, <1>4, <1>5

\* The clock moves alone.
LEMMA ClockTicksKeeps ==
    ASSUME HistoryInv, ClockTicks
    PROVE  HistoryInv'
<1> USE DEF HistoryInv
<1>1. /\ UNCHANGED <<seen, scanned, recorded, collecting, gaps>>
      /\ clock' = clock + 1 /\ clock < LastMoment
    BY DEF ClockTicks
<1>2. HistoryTypes'
    BY <1>1 DEF HistoryTypes
<1>3. ScannerKeeps'
    <2>1. /\ clock' <= LastMoment /\ collecting.started <= collecting.last
          /\ collecting.last <= clock'
        BY <1>1, HistoryAre, SpanConstants DEF ScannerKeeps, HistoryTypes
    <2>2. \A s \in Spawns : clock > seen[s] + Life => clock' > seen[s] + Life
        BY <1>1, HistoryAre, SpanConstants DEF HistoryTypes
    <2>3. QED
        BY <1>1, <2>1, <2>2 DEF ScannerKeeps
<1>4. RecordedOrGap' /\ OneVariantEach'
    BY <1>1 DEF RecordedOrGap, OneVariantEach
<1>5. QED
    BY <1>2, <1>3, <1>4

\* A capture: a spawn it does not find was recorded before, or came and went in the pause.
LEMMA CaptureKeeps ==
    ASSUME HistoryInv, Capture
    PROVE  HistoryInv'
<1> USE DEF HistoryInv
<1>1. UNCHANGED <<clock, seen, scanned>>
    BY DEF Capture
<1>2. PICK earlier \in Nat :
          /\ earlier = IF collecting.known THEN collecting.started ELSE clock
          /\ earlier <= clock
          /\ collecting' = [known |-> TRUE, last |-> clock, started |-> earlier]
    <2>1. (IF collecting.known THEN collecting.started ELSE clock) \in Nat
        BY HistoryAre DEF HistoryTypes
    <2>2. (IF collecting.known THEN collecting.started ELSE clock) <= clock
        BY HistoryAre DEF HistoryTypes, ScannerKeeps
    <2>3. QED
        BY <2>1, <2>2 DEF Capture
<1>3. /\ collecting'.started = earlier /\ collecting'.last = clock /\ collecting'.known
      /\ collecting' \in [started : Nat, last : Nat, known : BOOLEAN]
    BY <1>2 DEF HistoryTypes
<1>4. /\ gaps' = {g \in gaps \union NewGaps : ~Old(g[2])}
      /\ NewGaps \in SUBSET (Nat \X Nat)
    BY HistoryAre DEF Capture, NewGaps, HistoryTypes
<1>5. \A s \in Spawns : recorded'[s] = IF Old(seen[s]) THEN NotThere
                                       ELSE IF scanned[s] = NotThere THEN recorded[s]
                                       ELSE Upsert(recorded[s], scanned[s])
    BY DEF Capture
<1>6. \A s \in Spawns : /\ recorded'[s] \in Rows
                        /\ recorded'[s].odds = recorded'[s].variant
                        /\ recorded'[s].iv \in {Unmeasured, recorded'[s].variant}
                        /\ ~Old(seen[s]) /\ scanned[s] # NotThere => recorded'[s] # NotThere
    <2> SUFFICES ASSUME NEW s \in Spawns
                 PROVE  /\ recorded'[s] \in Rows
                        /\ recorded'[s].odds = recorded'[s].variant
                        /\ recorded'[s].iv \in {Unmeasured, recorded'[s].variant}
                        /\ ~Old(seen[s]) /\ scanned[s] # NotThere => recorded'[s] # NotThere
        OBVIOUS
    <2>1. /\ Upsert(recorded[s], scanned[s]) \in Rows
          /\ Upsert(recorded[s], scanned[s]).variant = scanned[s].variant
          /\ Upsert(recorded[s], scanned[s]).odds = Upsert(recorded[s], scanned[s]).variant
          /\ Upsert(recorded[s], scanned[s]).iv
                 \in {Unmeasured, Upsert(recorded[s], scanned[s]).variant}
        BY HistoryAre, UpsertIs DEF OneVariantEach, ScannerKeeps
    <2>2. CASE Old(seen[s])
        BY <1>5, <2>2, NotThereIs
    <2>3. CASE ~Old(seen[s]) /\ scanned[s] = NotThere
        BY <1>5, <2>3, HistoryAre DEF OneVariantEach
    <2>4. CASE ~Old(seen[s]) /\ scanned[s] # NotThere
        BY <1>5, <2>1, <2>4, NotThereIs DEF ScannerKeeps
    <2>5. QED
        BY <2>2, <2>3, <2>4
<1>7. HistoryTypes'
    <2>1. recorded' \in [Spawns -> Rows]
        <3>1. recorded' = [s \in Spawns |-> recorded'[s]]
            BY DEF Capture
        <3>2. \A s \in Spawns : recorded'[s] \in Rows
            BY <1>6
        <3>3. QED
            BY <3>1, <3>2, Zenon
    <2>2. gaps' \in SUBSET (Nat \X Nat)
        BY <1>4 DEF HistoryTypes
    <2>3. QED
        BY <1>1, <1>3, <2>1, <2>2 DEF HistoryTypes
<1>8. ScannerKeeps'
    BY <1>1, <1>2, <1>3, HistoryAre DEF ScannerKeeps, HistoryTypes
<1>9. RecordedOrGap'
    <2> SUFFICES ASSUME NEW s \in Spawns, earlier <= seen[s], seen[s] < clock,
                        clock <= seen[s] + Retention, recorded'[s] = NotThere
                 PROVE  \E g \in gaps' : g[1] <= seen[s] /\ seen[s] < g[2]
        BY <1>1, <1>3 DEF RecordedOrGap
    <2>1. seen[s] \in Nat /\ clock \in Nat /\ collecting.last \in Nat
          /\ collecting.last <= clock /\ clock <= LastMoment
        BY HistoryAre DEF HistoryTypes, ScannerKeeps
    <2>2. ~Old(seen[s])
        BY <2>1, SpanConstants DEF Old
    <2>3. scanned[s] = NotThere /\ recorded[s] = NotThere
        <3>1. scanned[s] = NotThere
            BY <1>6, <2>2
        <3>2. recorded'[s] = recorded[s]
            BY <1>5, <2>2, <3>1
        <3>3. QED
            BY <3>1, <3>2
    <2>4. clock > seen[s] + Life
        BY <2>1, <2>3, SpanConstants DEF ScannerKeeps
    <2>5. collecting.known /\ collecting.started <= seen[s]
        BY <1>2, <2>1
    <2>6. CASE seen[s] < collecting.last
        <3>1. collecting.last <= seen[s] + Retention
            BY <2>1, SpanConstants
        <3>2. PICK g \in gaps : g[1] <= seen[s] /\ seen[s] < g[2]
            BY <2>3, <2>5, <2>6, <3>1 DEF RecordedOrGap
        <3>3. ~Old(g[2])
            BY <2>1, <3>2, HistoryAre, SpanConstants DEF Old
        <3>4. QED
            BY <1>4, <3>2, <3>3
    <2>7. CASE ~(seen[s] < collecting.last)
        <3>1. Paused
            BY <2>1, <2>4, <2>5, <2>7, SpanConstants DEF Paused
        <3>2. NewGaps = {<<collecting.last, clock>>}
            BY <3>1 DEF NewGaps
        <3>3. ~Old(clock)
            BY <2>1, SpanConstants DEF Old
        <3>4. <<collecting.last, clock>> \in gaps'
            BY <1>4, <3>2, <3>3
        <3>5. collecting.last <= seen[s]
            BY <2>1, <2>7
        <3>6. QED
            BY <3>4, <3>5
    <2>8. QED
        BY <2>6, <2>7
<1>10. OneVariantEach'
    <2>1. \A s \in Spawns : /\ recorded'[s].odds = recorded'[s].variant
                            /\ recorded'[s].iv \in {Unmeasured, recorded'[s].variant}
        BY <1>6
    <2>2. QED
        BY <2>1 DEF OneVariantEach
<1>11. QED
    BY <1>7, <1>8, <1>9, <1>10

\* At the start nothing was scanned or captured.
LEMMA HistoryStarts ==
    ASSUME HistoryInit
    PROVE  HistoryInv
<1>1. HistoryTypes
    BY NotThereIs, SpanConstants DEF HistoryInit, HistoryTypes, Uncollected
<1>2. ScannerKeeps
    <2>1. clock = 0 /\ collecting.started = 0 /\ collecting.last = 0
        BY DEF HistoryInit, Uncollected
    <2>2. \A s \in Spawns : scanned[s] = NotThere /\ seen[s] = LastMoment + 1
        BY DEF HistoryInit
    <2>3. LastMoment + 1 > LastMoment /\ 0 <= LastMoment
        BY SpanConstants
    <2>4. QED
        BY <2>1, <2>2, <2>3, NotThereIs DEF ScannerKeeps
<1>3. RecordedOrGap
    BY DEF HistoryInit, Uncollected, RecordedOrGap
<1>4. OneVariantEach
    BY NotThereIs DEF HistoryInit, OneVariantEach
<1>5. QED
    BY <1>1, <1>2, <1>3, <1>4 DEF HistoryInv

\* A complete window overlaps no gap, and the recorder was there when it began.
LEMMA HistoryShows ==
    ASSUME HistoryInv
    PROVE  HistoryIsTrue
<1> USE DEF HistoryInv
<1>1. ASSUME NEW hours \in 1..Retention, NEW s \in Spawns, Complete(hours),
             seen[s] + hours >= WindowEnd, seen[s] < WindowEnd, recorded[s] = NotThere
      PROVE  FALSE
    <2>1. /\ seen[s] \in Nat /\ collecting.last \in Nat /\ collecting.started \in Nat
          /\ hours \in Nat /\ hours <= Retention
        BY HistoryAre, SpanConstants
    <2>2. /\ collecting.known /\ collecting.started + hours <= collecting.last
          /\ \A g \in gaps : ~(g[1] < collecting.last /\ g[2] + hours > collecting.last)
        BY <1>1 DEF Complete, WindowEnd
    <2>3. seen[s] + hours >= collecting.last /\ seen[s] < collecting.last
        BY <1>1 DEF WindowEnd
    <2>4. collecting.started <= seen[s] /\ collecting.last <= seen[s] + Retention
        BY <2>1, <2>2, <2>3, SpanConstants
    <2>5. PICK g \in gaps : g[1] <= seen[s] /\ seen[s] < g[2]
        BY <1>1, <2>2, <2>3, <2>4 DEF RecordedOrGap
    <2>6. g[1] < collecting.last /\ g[2] + hours > collecting.last
        BY <2>1, <2>3, <2>5, HistoryAre
    <2>7. QED
        BY <2>2, <2>6
<1>2. WindowsAreWhole
    BY <1>1 DEF WindowsAreWhole
<1>3. QED
    BY <1>2 DEF HistoryIsTrue

\* spawn_history.capture_sql and window_metadata: a window that is called complete has every
\* spawn that appeared in it, and what is stored of a spawn is of one variant.
THEOREM HistoryTellsTrue == HistorySpec => []HistoryIsTrue
<1>1. HistoryInit => HistoryInv
    BY HistoryStarts
<1>2. HistoryInv /\ [HistoryNext]_historyVars => HistoryInv'
    <2>1. ASSUME HistoryInv, HistoryNext
          PROVE  HistoryInv'
        BY <2>1, AppearsKeeps, RescannedKeeps, ForgottenKeeps, ClockTicksKeeps, CaptureKeeps
           DEF HistoryNext
    <2>2. ASSUME HistoryInv, UNCHANGED historyVars
          PROVE  HistoryInv'
        BY <2>2 DEF historyVars, HistoryInv, HistoryTypes, ScannerKeeps, RecordedOrGap,
                    OneVariantEach
    <2>3. QED
        BY <2>1, <2>2
<1>3. HistoryInv => HistoryIsTrue
    BY HistoryShows
<1>4. QED
    BY <1>1, <1>2, <1>3, PTL DEF HistorySpec

HIDE HistoryAssumption DEF HistoryAssumption

-------------------------------------------------------------------------------
USE ScanAreasAssumption DEF ScanAreasAssumption

\* ScanAreas.
Fences == [AreaKeys -> Fence \union {Missing}]

AreaTypes ==
    /\ drawn \in Fences /\ disk \in Fences /\ fences \in Fences
    /\ got \in Fences /\ keptCopy \in Fences
    /\ rows \in SUBSET AreaKeys /\ registry \in SUBSET AreaKeys
    /\ read \in [known : BOOLEAN, active : SUBSET AreaKeys]

\* A refresh holds the copy that is on disk, unless that was lost meanwhile.
CopyHeld ==
    read.known => \/ disk = keptCopy
                  \/ disk = NoFence /\ Fenced(keptCopy) \subseteq lostCopy

\* A fence in use is on disk, or its copy was lost or not written.
OnDisk == Fenced(fences) \subseteq Fenced(disk) \union lostCopy

AreaInv == AreaTypes /\ OneSnapshot /\ CopiesAreUsed /\ CopyHeld /\ OnDisk

\* Without fences no area has one.
LEMMA NoFenceIs == NoFence \in Fences /\ Fenced(NoFence) = {}
<1>1. Missing = -1
    BY DEF Missing
<1>2. \A a \in AreaKeys : NoFence[a] = Missing
    BY DEF NoFence
<1>3. NoFence \in Fences
    BY DEF NoFence, Fences
<1>4. QED
    BY <1>2, <1>3 DEF Fenced

\* What KeepsFences says of one step.
FencesKept == \A a \in Fenced(fences) : a \in rows' /\ a \notin lostCopy => a \in Fenced(fences')

\* A step that leaves the snapshot and what the attempt read alone.
LEMMA AreaFrame ==
    ASSUME AreaInv, AreaTypes', UNCHANGED <<disk, fences, rows, lostCopy>>,
           (read'.known => read.known /\ keptCopy' = keptCopy)
    PROVE  AreaInv' /\ FencesKept
BY DEF AreaInv, OneSnapshot, CopiesAreUsed, CopyHeld, OnDisk, FencesKept, Fenced

\* No attempt is an attempt that read nothing.
LEMMA LeaveIs ==
    ASSUME Leave
    PROVE  /\ read' \in [known : BOOLEAN, active : SUBSET AreaKeys] /\ ~read'.known
           /\ got' \in Fences /\ keptCopy' \in Fences
BY NoFenceIs DEF Leave, NotRead

\* What the operators draw and register touches no snapshot; nor does the queue.
LEMMA OutsideKeeps ==
    ASSUME AreaInv,
           \/ \E active \in SUBSET AreaKeys : SetRegistry(active)
           \/ \E a \in AreaKeys, version \in Fence \union {Missing} : Redraw(a, version)
           \/ Minute \/ Enter \/ \E c \in Callers : Ensure(c)
    PROVE  AreaInv' /\ FencesKept
<1> USE DEF AreaInv
<1>1. CASE \E active \in SUBSET AreaKeys : SetRegistry(active)
    <2>1. AreaTypes'
        BY <1>1 DEF SetRegistry, AreaTypes, snapshot, attempt
    <2>2. QED
        BY <1>1, <2>1, AreaFrame DEF SetRegistry, snapshot, attempt
<1>2. CASE \E a \in AreaKeys, version \in Fence \union {Missing} : Redraw(a, version)
    <2>1. AreaTypes'
        <3>1. PICK a \in AreaKeys, version \in Fence \union {Missing} :
                  drawn' = [drawn EXCEPT ![a] = version]
            BY <1>2 DEF Redraw
        <3>2. drawn' \in Fences
            BY <3>1 DEF AreaTypes, Fences
        <3>3. QED
            BY <1>2, <3>2 DEF Redraw, AreaTypes, snapshot, attempt
    <2>2. QED
        BY <1>2, <2>1, AreaFrame DEF Redraw, snapshot, attempt
<1>3. CASE Minute
    <2>1. UNCHANGED <<registry, drawn, disk, rows, fences, read, got, keptCopy, lostCopy>>
        BY <1>3 DEF Minute, outside, attempt
    <2>2. AreaTypes'
        BY <2>1 DEF AreaTypes
    <2>3. QED
        BY <2>1, <2>2, AreaFrame
<1>4. CASE Enter
    <2>1. UNCHANGED <<registry, drawn, disk, rows, fences, read, got, keptCopy, lostCopy>>
        BY <1>4 DEF Enter, outside, snapshot
    <2>2. AreaTypes'
        BY <2>1 DEF AreaTypes
    <2>3. QED
        BY <2>1, <2>2, AreaFrame
<1>5. CASE \E c \in Callers : Ensure(c)
    <2>1. UNCHANGED <<registry, drawn, disk, rows, fences, read, got, keptCopy, lostCopy>>
        BY <1>5 DEF Ensure, outside, snapshot, attempt
    <2>2. AreaTypes'
        BY <2>1 DEF AreaTypes
    <2>3. QED
        BY <2>1, <2>2, AreaFrame
<1>6. QED
    BY <1>1, <1>2, <1>3, <1>4, <1>5

\* A copy that is lost is noted for every area it had.
LEMMA LoseCopyKeeps ==
    ASSUME AreaInv, LoseCopy
    PROVE  AreaInv' /\ FencesKept
<1> USE DEF AreaInv
<1>1. /\ disk' = NoFence /\ lostCopy' = lostCopy \union Fenced(disk)
      /\ UNCHANGED <<registry, drawn, rows, fences, read, got, keptCopy>>
    BY DEF LoseCopy, outside, snapshot, attempt
<1>2. AreaTypes'
    BY <1>1, NoFenceIs DEF AreaTypes
<1>3. OneSnapshot' /\ CopiesAreUsed'
    BY <1>1, NoFenceIs DEF OneSnapshot, CopiesAreUsed, Fenced
<1>4. CopyHeld'
    <2>1. CASE disk = keptCopy
        BY <1>1, <2>1 DEF CopyHeld, Fenced
    <2>2. CASE disk # keptCopy
        BY <1>1, <2>2 DEF CopyHeld, Fenced
    <2>3. QED
        BY <2>1, <2>2
<1>5. OnDisk'
    BY <1>1, NoFenceIs DEF OnDisk, Fenced
<1>6. FencesKept
    BY <1>1 DEF FencesKept
<1>7. QED
    BY <1>2, <1>3, <1>4, <1>5, <1>6

\* The registry is read, and the copy on disk with it; or the attempt ends there.
LEMMA ReadsKeepAreas ==
    ASSUME AreaInv, ReadRegistry \/ RegistryFails \/ \E a \in AreaKeys : FetchArea(a)
    PROVE  AreaInv' /\ FencesKept
<1> USE DEF AreaInv
<1>1. CASE ReadRegistry
    <2>1. /\ read' = [known |-> TRUE, active |-> registry] /\ keptCopy' = disk
          /\ UNCHANGED <<registry, drawn, disk, rows, fences, got, lostCopy>>
        BY <1>1 DEF ReadRegistry, outside, snapshot
    <2>2. AreaTypes'
        BY <2>1 DEF AreaTypes
    <2>3. OneSnapshot' /\ CopiesAreUsed' /\ OnDisk' /\ FencesKept
        BY <2>1 DEF OneSnapshot, CopiesAreUsed, OnDisk, FencesKept, Fenced
    <2>4. CopyHeld'
        BY <2>1 DEF CopyHeld
    <2>5. QED
        BY <2>2, <2>3, <2>4
<1>2. CASE RegistryFails
    <2>1. Leave /\ UNCHANGED <<registry, drawn, disk, rows, fences, lostCopy>>
        BY <1>2 DEF RegistryFails, outside, snapshot
    <2>2. AreaTypes'
        BY <2>1, LeaveIs DEF AreaTypes
    <2>3. QED
        BY <2>1, <2>2, LeaveIs, AreaFrame
<1>3. CASE \E a \in AreaKeys : FetchArea(a)
    <2>1. PICK a \in AreaKeys : got' = [got EXCEPT ![a] = drawn[a]]
        BY <1>3 DEF FetchArea
    <2>2. UNCHANGED <<registry, drawn, disk, rows, fences, read, keptCopy, lostCopy>>
        BY <1>3 DEF FetchArea, outside, snapshot
    <2>3. got' \in Fences
        BY <2>1 DEF AreaTypes, Fences
    <2>4. AreaTypes'
        BY <2>2, <2>3 DEF AreaTypes
    <2>5. QED
        BY <2>2, <2>4, AreaFrame
<1>4. QED
    BY <1>1, <1>2, <1>3

\* The new snapshot has the rows that were read and their polygons, and no other.
LEMMA InstallIs ==
    ASSUME AreaInv, NEW polygons \in Fences, Install(polygons)
    PROVE  /\ rows' = read.active /\ read.active \in SUBSET AreaKeys
           /\ fences' \in Fences /\ Fenced(fences') = read.active \intersect Fenced(polygons)
           /\ ~read'.known /\ read' \in [known : BOOLEAN, active : SUBSET AreaKeys]
           /\ got' \in Fences /\ keptCopy' \in Fences
           /\ UNCHANGED <<registry, drawn>>
<1>1. /\ rows' = read.active /\ Leave /\ UNCHANGED <<registry, drawn>>
      /\ fences' = [a \in AreaKeys |-> IF a \in read.active THEN polygons[a] ELSE Missing]
    BY DEF Install, outside
<1>2. read.active \in SUBSET AreaKeys
    BY DEF AreaInv, AreaTypes
<1>3. fences' \in Fences
    BY <1>1 DEF Fences
<1>4. \A a \in AreaKeys : fences'[a] # Missing <=> a \in read.active /\ polygons[a] # Missing
    BY <1>1
<1>5. Fenced(fences') = read.active \intersect Fenced(polygons)
    BY <1>2, <1>4 DEF Fenced
<1>6. QED
    BY <1>1, <1>2, <1>3, <1>5, LeaveIs

\* A refresh that got every polygon: they are on disk, or noted as not written.
LEMMA FetchedKeeps ==
    ASSUME AreaInv, NEW written \in BOOLEAN, Fetched(written)
    PROVE  AreaInv' /\ FencesKept
<1> USE DEF AreaInv
<1>1. read.active \subseteq Fenced(got) /\ SaveFence(written) /\ Install(got) /\ got \in Fences
    BY DEF Fetched, AreaTypes
<1>2. /\ rows' = read.active /\ fences' \in Fences /\ Fenced(fences') = read.active
      /\ ~read'.known
    BY <1>1, InstallIs
<1>3. AreaTypes'
    <2>1. disk' \in Fences
        BY <1>1 DEF SaveFence, AreaTypes
    <2>2. QED
        BY <1>1, <2>1, InstallIs DEF AreaTypes
<1>4. OneSnapshot' /\ CopiesAreUsed' /\ FencesKept /\ CopyHeld'
    BY <1>2 DEF OneSnapshot, CopiesAreUsed, FencesKept, CopyHeld, Fenced
<1>5. OnDisk'
    <2>1. CASE written
        BY <1>1, <1>2, <2>1 DEF SaveFence, OnDisk, Fenced
    <2>2. CASE ~written
        BY <1>1, <1>2, <2>2 DEF SaveFence, OnDisk, Fenced
    <2>3. QED
        BY <2>1, <2>2
<1>6. QED
    BY <1>3, <1>4, <1>5

\* A refresh that fails falls back to the copies, which have what is in use.
LEMMA FetchFailsKeeps ==
    ASSUME AreaInv, FetchFails
    PROVE  AreaInv' /\ FencesKept
<1> USE DEF AreaInv
<1>1. Install(keptCopy) /\ UNCHANGED <<disk, lostCopy>> /\ read.known /\ keptCopy \in Fences
    BY DEF FetchFails, AreaTypes
<1>2. /\ rows' = read.active /\ fences' \in Fences /\ ~read'.known
      /\ Fenced(fences') = read.active \intersect Fenced(keptCopy)
    BY <1>1, InstallIs
<1>3. AreaTypes'
    BY <1>1, InstallIs DEF AreaTypes
<1>4. \/ Fenced(disk) = Fenced(keptCopy)
      \/ Fenced(disk) = {} /\ Fenced(keptCopy) \subseteq lostCopy
    BY <1>1, NoFenceIs DEF CopyHeld
<1>5. OneSnapshot'
    BY <1>2 DEF OneSnapshot, Fenced
<1>6. CopiesAreUsed'
    BY <1>1, <1>2, <1>4 DEF CopiesAreUsed, Fenced
<1>7. OnDisk'
    BY <1>1, <1>2, <1>4 DEF OnDisk, Fenced
<1>8. FencesKept
    BY <1>1, <1>2, <1>4 DEF OnDisk, FencesKept
<1>9. CopyHeld'
    BY <1>2 DEF CopyHeld
<1>10. QED
    BY <1>3, <1>5, <1>6, <1>7, <1>8, <1>9

\* A restart has no snapshot; the copies stay.
LEMMA AreasRestartKeeps ==
    ASSUME AreaInv, AreasRestart
    PROVE  AreaInv' /\ FencesKept
<1> USE DEF AreaInv
<1>1. /\ rows' = {} /\ fences' = NoFence /\ Leave
      /\ UNCHANGED <<registry, drawn, disk, lostCopy>>
    BY DEF AreasRestart, outside
<1>2. AreaTypes'
    BY <1>1, NoFenceIs, LeaveIs DEF AreaTypes
<1>3. Fenced(fences') = {}
    BY <1>1, NoFenceIs
<1>4. OneSnapshot' /\ CopiesAreUsed' /\ OnDisk' /\ FencesKept
    BY <1>1, <1>3 DEF OneSnapshot, CopiesAreUsed, OnDisk, FencesKept, Fenced
<1>5. CopyHeld'
    BY <1>1, LeaveIs DEF CopyHeld
<1>6. QED
    BY <1>2, <1>4, <1>5

\* At the start there is no snapshot and no copy.
LEMMA AreasStart ==
    ASSUME AreasInit
    PROVE  AreaInv
<1>1. AreaTypes
    <2>1. drawn \in Fences
        BY DEF AreasInit, Fences, Fence
    <2>2. QED
        BY <2>1, NoFenceIs DEF AreasInit, AreaTypes, NotRead
<1>2. rows = {} /\ fences = NoFence /\ disk = NoFence /\ ~read.known
    BY DEF AreasInit, NotRead
<1>3. QED
    BY <1>1, <1>2, NoFenceIs DEF AreaInv, OneSnapshot, CopiesAreUsed, CopyHeld, OnDisk

\* ScanAreas.refresh: the fences in use are those of one refresh, an area that has a copy has a
\* fence, and an area that stays active keeps its fence as long as its copy was never lost.
THEOREM AreasKeepTheirFences == AreasSpec => AreasHold
<1>1. AreasInit => AreaInv
    BY AreasStart
<1>2. AreaInv /\ [AreasNext]_areaVars => AreaInv'
    <2>1. ASSUME AreaInv, AreasNext
          PROVE  AreaInv'
        BY <2>1, OutsideKeeps, LoseCopyKeeps, ReadsKeepAreas, FetchedKeeps, FetchFailsKeeps,
           AreasRestartKeeps DEF AreasNext
    <2>2. ASSUME AreaInv, UNCHANGED areaVars
          PROVE  AreaInv'
        <3>1. UNCHANGED <<registry, drawn, disk, rows, fences, read, got, keptCopy, lostCopy>>
            BY <2>2 DEF areaVars, outside, snapshot, attempt
        <3>2. AreaTypes'
            BY <2>2, <3>1 DEF AreaInv, AreaTypes
        <3>3. QED
            BY <2>2, <3>1, <3>2, AreaFrame
    <2>3. QED
        BY <2>1, <2>2
<1>3. AreaInv /\ [AreasNext]_areaVars =>
          [\A a \in Fenced(fences) :
              a \in rows' /\ a \notin lostCopy => a \in Fenced(fences')]_fences
    <2>1. ASSUME AreaInv, AreasNext
          PROVE  FencesKept
        BY <2>1, OutsideKeeps, LoseCopyKeeps, ReadsKeepAreas, FetchedKeeps, FetchFailsKeeps,
           AreasRestartKeeps DEF AreasNext
    <2>2. UNCHANGED areaVars => UNCHANGED fences
        BY DEF areaVars, snapshot
    <2>3. QED
        BY <2>1, <2>2 DEF FencesKept
<1>4. AreaInv => OneSnapshot /\ CopiesAreUsed
    BY DEF AreaInv
<1>5. QED
    BY <1>1, <1>2, <1>3, <1>4, PTL DEF AreasSpec, AreasHold, KeepsFences

HIDE ScanAreasAssumption DEF ScanAreasAssumption

-------------------------------------------------------------------------------
USE TrapAssumption DEF TrapAssumption

\* TrapChannel.
Steps == {"unsent", "ban", "unban", "save", "refresh", "report", "over"}

TrapTypes ==
    /\ handling \in [Traps -> Steps]
    /\ bannedNow \subseteq Authors
    /\ removals \in Nat /\ saved \in Nat /\ toSave \in [Traps -> Nat]
    /\ warning \in Nat
    /\ reports \in [Traps -> {"none", "removed", "stillBanned", "notBanned"}]
    /\ mistakes \in Nat

\* Before it was banned or not, nothing is reported of an author's message.
Unreported == \A m \in Traps : handling[m] \in {"unsent", "ban", "unban"} => reports[m] = "none"

\* A count that is saved later is no higher than the count, unless that was not read.
SavesBehind ==
    forgot \/ (saved <= removals /\ \A m \in Traps : handling[m] = "save" => toSave[m] <= removals)

\* The messages whose author was removed.
Removed == {m \in Traps : handling[m] \in {"save", "refresh", "report", "over"}}

\* Without a mistake each removal has its own count, which is saved, shown and reported.
Faultless ==
    mistakes = 0 =>
        /\ removals = Cardinality(Removed) /\ saved <= removals
        /\ \A m \in Removed : reports[m] = "removed"
        /\ \A m \in Traps : handling[m] = "save" => saved < toSave[m] /\ toSave[m] <= removals
        /\ \A m, n \in Traps : handling[m] = "save" /\ handling[n] = "save" /\ m # n =>
                                   toSave[m] # toSave[n]
        /\ saved # removals => \E m \in Traps : handling[m] = "save" /\ toSave[m] = removals
        /\ warning # removals => \E m \in Traps : handling[m] \in {"save", "refresh"}

TrapInv ==
    TrapTypes /\ Unreported /\ SavesBehind /\ Faultless /\ NoBanIsLeft

\* The traps are few enough to be counted, and so are those whose author was removed.
LEMMA RemovedAre ==
    ASSUME TRUE
    PROVE  /\ IsFiniteSet(Traps) /\ IsFiniteSet(Removed) /\ Removed \subseteq Traps
           /\ Cardinality(Removed) \in Nat /\ Deleted \in Nat
<1>1. IsFiniteSet(Traps)
    OBVIOUS
<1>2. Removed \subseteq Traps
    BY DEF Removed
<1>3. IsFiniteSet(Removed)
    BY <1>1, <1>2, FS_Subset
<1>4. Cardinality(Removed) \in Nat /\ Cardinality(Traps) \in Nat
    BY <1>1, <1>3, FS_CardinalityType
<1>5. QED
    BY <1>1, <1>2, <1>3, <1>4 DEF Deleted

\* The counts are numbers.
LEMMA CountsAre ==
    ASSUME TrapTypes
    PROVE  /\ removals \in Nat /\ saved \in Nat /\ warning \in Nat /\ mistakes \in Nat
           /\ \A m \in Traps : toSave[m] \in Nat
BY DEF TrapTypes

\* A handler that goes on from one step to the next.
LEMMA GoOnIs ==
    ASSUME TrapTypes, NEW m \in Traps, NEW step \in Steps, GoOn(m, step)
    PROVE  /\ handling' \in [Traps -> Steps] /\ handling'[m] = step
           /\ \A n \in Traps : n # m => handling'[n] = handling[n]
BY DEF GoOn, TrapTypes

\* The message is caught, and its author about to be banned.
LEMMA CaughtKeeps ==
    ASSUME TrapInv, NEW m \in Traps, CaughtInTrap(m)
    PROVE  TrapInv'
<1> USE DEF TrapInv
<1>1. /\ handling[m] = "unsent"
      /\ UNCHANGED <<bannedNow, removals, toSave, saved, warning, reports, untold, forgot>>
    BY DEF CaughtInTrap, counting, fate
<1>2. PICK step \in {"ban", "over"} :
          /\ GoOn(m, step) /\ mistakes' \in Nat
          /\ step = "over" => mistakes' # 0
          /\ step = "ban" => mistakes' = mistakes
    BY DEF CaughtInTrap, Well, Mistake, TrapTypes
<1>3. /\ handling' \in [Traps -> Steps] /\ handling'[m] = step
      /\ \A n \in Traps : n # m => handling'[n] = handling[n]
    BY <1>2, GoOnIs DEF Steps
<1>4. TrapTypes'
    BY <1>1, <1>2, <1>3 DEF TrapTypes
<1>5. Unreported' /\ SavesBehind' /\ NoBanIsLeft'
    BY <1>1, <1>2, <1>3 DEF Unreported, SavesBehind, NoBanIsLeft
<1>6. CASE step = "over"
    BY <1>2, <1>4, <1>5, <1>6 DEF Faultless
<1>7. CASE step = "ban"
    <2>1. \A n \in Traps : handling'[n] = "save" <=> handling[n] = "save"
        BY <1>1, <1>3, <1>7
    <2>2. \A n \in Traps : handling'[n] = "refresh" <=> handling[n] = "refresh"
        BY <1>1, <1>3, <1>7
    <2>3. Removed' = Removed
        BY <1>1, <1>3, <1>7 DEF Removed
    <2>4. Faultless'
        BY <1>1, <1>2, <1>7, <2>1, <2>2, <2>3 DEF Faultless
    <2>5. QED
        BY <1>4, <1>5, <2>4
<1>8. QED
    BY <1>6, <1>7

\* A ban goes with its handler, which lifts it next; one whose call raised is known to no
\* report.
LEMMA BanKeeps ==
    ASSUME TrapInv, NEW m \in Traps, Ban(m)
    PROVE  TrapInv'
<1> USE DEF TrapInv
<1>1. /\ handling[m] = "ban"
      /\ UNCHANGED <<removals, toSave, saved, warning, forgot>>
    BY DEF Ban, counting
<1>2. CASE /\ UNCHANGED <<mistakes, reports, untold>> /\ bannedNow' = bannedNow \union {AuthorOf[m]}
           /\ GoOn(m, "unban")
    <2>1. /\ handling' \in [Traps -> Steps] /\ handling'[m] = "unban"
          /\ \A n \in Traps : n # m => handling'[n] = handling[n]
        BY <1>2, GoOnIs DEF Steps
    <2>2. TrapTypes'
        BY <1>1, <1>2, <2>1 DEF TrapTypes, Authors
    <2>3. Unreported' /\ SavesBehind'
        BY <1>1, <1>2, <2>1 DEF Unreported, SavesBehind
    <2>4. NoBanIsLeft'
        BY <1>1, <1>2, <2>1 DEF NoBanIsLeft
    <2>5. Faultless'
        <3>1. Removed' = Removed
            BY <1>1, <2>1 DEF Removed
        <3>2. \A n \in Traps : /\ handling'[n] = "save" <=> handling[n] = "save"
                               /\ handling'[n] = "refresh" <=> handling[n] = "refresh"
            BY <1>1, <2>1
        <3>3. QED
            BY <1>1, <1>2, <3>1, <3>2 DEF Faultless
    <2>6. QED
        BY <2>2, <2>3, <2>4, <2>5
<1>3. CASE /\ Mistake /\ bannedNow' \in {bannedNow, bannedNow \union {AuthorOf[m]}}
           /\ untold' = untold \union (bannedNow' \ bannedNow)
           /\ \/ Note(m, "notBanned") /\ GoOn(m, "refresh")
              \/ UNCHANGED reports /\ GoOn(m, "over")
    <2>1. PICK step \in {"refresh", "over"} : GoOn(m, step)
        BY <1>3
    <2>2. /\ handling' \in [Traps -> Steps] /\ handling'[m] = step
          /\ \A n \in Traps : n # m => handling'[n] = handling[n]
        BY <2>1, GoOnIs DEF Steps
    <2>3. /\ reports' \in [Traps -> {"none", "removed", "stillBanned", "notBanned"}]
          /\ \A n \in Traps : n # m => reports'[n] = reports[n]
          /\ reports[m] = "none"
        BY <1>1, <1>3 DEF Note, Unreported, TrapTypes
    <2>4. mistakes' \in Nat /\ mistakes' # 0
        BY <1>3 DEF Mistake, TrapTypes
    <2>5. bannedNow' \subseteq Authors
        BY <1>3 DEF TrapTypes, Authors
    <2>6. TrapTypes'
        BY <1>1, <2>2, <2>3, <2>4, <2>5 DEF TrapTypes
    <2>7. Unreported' /\ SavesBehind'
        BY <1>1, <2>2, <2>3 DEF Unreported, SavesBehind
    <2>8. NoBanIsLeft'
        <3>1. ASSUME NEW a \in bannedNow', a \notin untold'
              PROVE  \E n \in Traps : AuthorOf[n] = a /\ (handling'[n] = "unban"
                                                           \/ reports'[n] = "stillBanned")
            <4>1. a \in bannedNow \ untold
                BY <1>3, <3>1
            <4>2. PICK n \in Traps : AuthorOf[n] = a /\ (handling[n] = "unban"
                                                         \/ reports[n] = "stillBanned")
                BY <4>1 DEF NoBanIsLeft
            <4>3. n # m
                BY <1>1, <2>3, <4>2
            <4>4. QED
                BY <2>2, <2>3, <4>2, <4>3
        <3>2. QED
            BY <2>4, <3>1 DEF NoBanIsLeft
    <2>9. QED
        BY <2>4, <2>6, <2>7, <2>8 DEF Faultless
<1>4. QED
    BY <1>2, <1>3 DEF Ban, Well

\* A removal has a count of its own, higher than those before it.
LEMMA UnbanKeeps ==
    ASSUME TrapInv, NEW m \in Traps, Unban(m)
    PROVE  TrapInv'
<1> USE DEF TrapInv
<1>1. handling[m] = "unban" /\ UNCHANGED <<saved, warning, forgot>>
    BY DEF Unban
<1>2. PICK step \in {"save", "over"} :
          /\ GoOn(m, step)
          /\ step = "save" => CountRemoval(m)
          /\ step = "over" => mistakes' # 0 /\ UNCHANGED <<removals, toSave, reports>>
    BY DEF Unban, CountRemoval, Mistake, TrapTypes
<1>3. /\ handling' \in [Traps -> Steps] /\ handling'[m] = step
      /\ \A n \in Traps : n # m => handling'[n] = handling[n]
    BY <1>2, GoOnIs DEF Steps
<1>4. /\ mistakes' \in Nat
      /\ reports' \in [Traps -> {"none", "removed", "stillBanned", "notBanned"}]
      /\ \A n \in Traps : n # m => reports'[n] = reports[n]
      /\ \/ reports'[m] = "removed" /\ mistakes' = mistakes /\ Lift(AuthorOf[m])
         \/ reports'[m] = "stillBanned" /\ mistakes' # 0
            /\ (Lift(AuthorOf[m]) \/ UNCHANGED <<bannedNow, untold>>)
         \/ step = "over" /\ mistakes' # 0
            /\ (Lift(AuthorOf[m]) \/ (Unsaid(m) /\ UNCHANGED bannedNow))
    <2>1. CASE Well /\ Lift(AuthorOf[m]) /\ Note(m, "removed")
        BY <2>1 DEF Well, Note, TrapTypes
    <2>2. CASE /\ Mistake /\ Note(m, "stillBanned")
               /\ Lift(AuthorOf[m]) \/ UNCHANGED <<bannedNow, untold>>
        <3>1. mistakes' \in Nat /\ mistakes' # 0
            BY <2>2 DEF Mistake, TrapTypes
        <3>2. QED
            BY <2>2, <3>1 DEF Note, TrapTypes
    <2>3. CASE /\ Mistake /\ GoOn(m, "over") /\ UNCHANGED reports
               /\ Lift(AuthorOf[m]) \/ (Unsaid(m) /\ UNCHANGED bannedNow)
        <3>1. mistakes' \in Nat /\ mistakes' # 0
            BY <2>3 DEF Mistake, TrapTypes
        <3>2. step = "over"
            BY <1>3, <2>3, GoOnIs DEF Steps
        <3>3. QED
            BY <2>3, <3>1, <3>2 DEF TrapTypes
    <2>4. QED
        BY <2>1, <2>2, <2>3 DEF Unban
<1>5. /\ toSave' \in [Traps -> Nat] /\ removals' \in Nat /\ removals <= removals'
      /\ \A n \in Traps : n # m => toSave'[n] = toSave[n]
      /\ step = "save" => removals' = removals + 1 /\ toSave'[m] = removals + 1
    BY <1>2 DEF CountRemoval, TrapTypes
<1>6. TrapTypes'
    <2>1. bannedNow' \subseteq bannedNow
        BY <1>4 DEF Lift
    <2>2. QED
        BY <1>1, <1>3, <1>4, <1>5, <2>1 DEF TrapTypes
<1>7. Unreported' /\ SavesBehind'
    <2>1. Unreported'
        BY <1>1, <1>3, <1>4 DEF Unreported
    <2>2. SavesBehind'
        BY <1>1, <1>3, <1>5 DEF SavesBehind, TrapTypes
    <2>3. QED
        BY <2>1, <2>2
\* A ban that is left is of another author, or was left by this handler.
<1>8. NoBanIsLeft'
    <2>1. ASSUME NEW a \in bannedNow', a # AuthorOf[m]
          PROVE  /\ a \in bannedNow /\ (a \in untold' <=> a \in untold)
        BY <1>4, <2>1 DEF Lift, Unsaid
    <2>2. ASSUME NEW a \in bannedNow', mistakes' = 0
          PROVE  \E n \in Traps : AuthorOf[n] = a /\ handling'[n] = "unban"
        <3>1. a # AuthorOf[m] /\ mistakes = 0
            BY <1>4, <2>2 DEF Lift
        <3>2. PICK n \in Traps : AuthorOf[n] = a /\ handling[n] = "unban"
            BY <2>1, <2>2, <3>1 DEF NoBanIsLeft
        <3>3. QED
            BY <1>3, <3>1, <3>2
    <2>3. ASSUME NEW a \in bannedNow' \ untold'
          PROVE  \E n \in Traps : AuthorOf[n] = a /\ (handling'[n] = "unban"
                                                        \/ reports'[n] = "stillBanned")
        <3>1. CASE a = AuthorOf[m]
            BY <1>4, <2>3, <3>1 DEF Lift, Unsaid
        <3>2. CASE a # AuthorOf[m]
            <4>1. PICK n \in Traps : AuthorOf[n] = a /\ (handling[n] = "unban"
                                                         \/ reports[n] = "stillBanned")
                BY <2>1, <2>3, <3>2 DEF NoBanIsLeft
            <4>2. QED
                BY <1>3, <1>4, <3>2, <4>1
        <3>3. QED
            BY <3>1, <3>2
    <2>4. QED
        BY <2>2, <2>3 DEF NoBanIsLeft
<1>9. Faultless'
    <2> SUFFICES ASSUME mistakes' = 0
                 PROVE  Faultless'
        BY DEF Faultless
    <2>1. mistakes = 0 /\ reports'[m] = "removed" /\ step = "save"
        BY <1>2, <1>4
    <2>2. Removed' = Removed \union {m} /\ m \notin Removed
        BY <1>1, <1>3, <2>1 DEF Removed
    <2>3. Cardinality(Removed') = Cardinality(Removed) + 1
        BY <2>2, RemovedAre, FS_AddElement
    <2>4. removals' = Cardinality(Removed') /\ saved' <= removals'
        BY <1>1, <1>5, <2>1, <2>3 DEF Faultless, TrapTypes
    <2>5. \A n \in Removed' : reports'[n] = "removed"
        BY <1>4, <2>1, <2>2 DEF Faultless, Removed
    <2>6. \A n \in Traps : handling'[n] = "save" => saved' < toSave'[n] /\ toSave'[n] <= removals'
        BY <1>1, <1>3, <1>5, <2>1 DEF Faultless, TrapTypes
    <2>7. \A n \in Traps : handling[n] = "save" => toSave[n] # removals + 1
        BY <2>1 DEF Faultless, TrapTypes
    <2>8. \A n, o \in Traps : handling'[n] = "save" /\ handling'[o] = "save" /\ n # o =>
                                  toSave'[n] # toSave'[o]
        BY <1>3, <1>5, <2>1, <2>7 DEF Faultless
    <2>9. handling'[m] = "save" /\ toSave'[m] = removals'
        BY <1>3, <1>5, <2>1
    <2>10. QED
        BY <2>4, <2>5, <2>6, <2>8, <2>9 DEF Faultless
<1>10. QED
    BY <1>6, <1>7, <1>8, <1>9

\* The least of the counts that wait is written, and is the last once none waits.
LEMMA SaveCountKeeps ==
    ASSUME TrapInv, NEW m \in Traps, SaveCount(m)
    PROVE  TrapInv'
<1> USE DEF TrapInv
<1>1. /\ handling[m] = "save" /\ GoOn(m, "refresh")
      /\ \A n \in Traps : handling[n] = "save" => toSave[m] <= toSave[n]
      /\ UNCHANGED <<bannedNow, removals, toSave, warning, reports, untold, forgot>>
    BY DEF SaveCount, fate
<1>2. /\ handling' \in [Traps -> Steps] /\ handling'[m] = "refresh"
      /\ \A n \in Traps : n # m => handling'[n] = handling[n]
    BY <1>1, GoOnIs DEF Steps
<1>3. /\ saved' \in Nat /\ mistakes' \in Nat
      /\ \/ saved' = toSave[m] /\ mistakes' = mistakes
         \/ saved' = saved /\ mistakes' # 0
         \/ saved' = toSave[m] /\ mistakes' # 0
      /\ mistakes' # 0 \/ mistakes' = mistakes
    BY DEF SaveCount, Well, Mistake, TrapTypes
<1>4. TrapTypes'
    BY <1>1, <1>2, <1>3 DEF TrapTypes
<1>5. Unreported' /\ NoBanIsLeft'
    <2>1. Unreported'
        BY <1>1, <1>2 DEF Unreported
    <2>2. mistakes' = 0 => mistakes = 0
        BY <1>3
    <2>3. \A n \in Traps : handling[n] = "unban" => handling'[n] = "unban"
        BY <1>1, <1>2
    <2>4. NoBanIsLeft'
        BY <1>1, <2>2, <2>3 DEF NoBanIsLeft
    <2>5. QED
        BY <2>1, <2>4
<1>6. SavesBehind'
    BY <1>1, <1>2, <1>3 DEF SavesBehind
<1>7. Faultless'
    <2> SUFFICES ASSUME mistakes' = 0
                 PROVE  Faultless'
        BY DEF Faultless
    <2>1. mistakes = 0 /\ saved' = toSave[m]
        BY <1>3
    <2>2. Removed' = Removed
        BY <1>1, <1>2 DEF Removed
    <2>3. saved' <= removals
        BY <1>1, <2>1 DEF Faultless
    <2>4. \A n \in Traps : handling'[n] = "save" => n # m /\ handling[n] = "save"
        BY <1>2
    <2>5. \A n \in Traps : handling'[n] = "save" => saved' < toSave[n] /\ toSave[n] <= removals
        BY <1>1, <2>1, <2>4 DEF Faultless, TrapTypes
    <2>6. \A n, o \in Traps : handling'[n] = "save" /\ handling'[o] = "save" /\ n # o =>
                                  toSave[n] # toSave[o]
        BY <2>1, <2>4 DEF Faultless
    <2>7. saved' # removals => \E n \in Traps : handling'[n] = "save" /\ toSave[n] = removals
        <3>1. CASE saved = removals
            BY <1>1, <2>1, <3>1 DEF Faultless, TrapTypes
        <3>2. CASE saved # removals
            <4>1. PICK n \in Traps : handling[n] = "save" /\ toSave[n] = removals
                BY <2>1, <3>2 DEF Faultless
            <4>2. saved' # removals => n # m
                BY <2>1, <4>1
            <4>3. QED
                BY <1>2, <4>1, <4>2
        <3>3. QED
            BY <3>1, <3>2
    <2>8. QED
        BY <1>1, <1>2, <2>1, <2>2, <2>3, <2>5, <2>6, <2>7 DEF Faultless
<1>8. QED
    BY <1>4, <1>5, <1>6, <1>7

\* A handler past the counts, which shows them or ends.
LEMMA LaterKeeps ==
    ASSUME TrapInv, NEW m \in Traps, handling[m] \in {"refresh", "report"},
           handling' \in [Traps -> Steps], handling'[m] \in {"report", "over"},
           \A n \in Traps : n # m => handling'[n] = handling[n],
           UNCHANGED <<bannedNow, removals, toSave, saved, reports, forgot>>,
           untold \subseteq untold', warning' \in Nat, mistakes' \in Nat,
           \/ warning' = removals /\ mistakes' = mistakes
           \/ handling[m] = "report" /\ warning' = warning /\ mistakes' = mistakes
           \/ mistakes' # 0
    PROVE  TrapInv'
<1> USE DEF TrapInv
<1>1. TrapTypes'
    BY DEF TrapTypes
<1>2. Unreported' /\ SavesBehind'
    BY DEF Unreported, SavesBehind
<1>3. NoBanIsLeft'
    <2>1. mistakes' = 0 => mistakes = 0
        OBVIOUS
    <2>2. \A n \in Traps : handling[n] = "unban" => handling'[n] = "unban"
        OBVIOUS
    <2>3. QED
        BY <2>1, <2>2 DEF NoBanIsLeft
<1>4. Faultless'
    <2>1. Removed' = Removed
        BY DEF Removed
    <2>2. \A n \in Traps : handling'[n] = "save" <=> handling[n] = "save"
        OBVIOUS
    <2>3. \A n \in Traps : n # m => (handling'[n] = "refresh" <=> handling[n] = "refresh")
        OBVIOUS
    <2>4. CASE mistakes' # 0
        BY <2>4 DEF Faultless
    <2>5. CASE warning' = removals /\ mistakes' = mistakes
        BY <2>1, <2>2, <2>5 DEF Faultless
    <2>6. CASE handling[m] = "report" /\ warning' = warning /\ mistakes' = mistakes
        BY <2>1, <2>2, <2>3, <2>6 DEF Faultless
    <2>7. QED
        BY <2>4, <2>5, <2>6
<1>5. QED
    BY <1>1, <1>2, <1>3, <1>4

\* The warning shows the count as it is when it is written.
LEMMA RefreshKeeps ==
    ASSUME TrapInv, NEW m \in Traps, RefreshTrapMessage(m)
    PROVE  TrapInv'
<1> USE DEF TrapInv
<1>1. /\ handling[m] = "refresh" /\ untold \subseteq untold'
      /\ UNCHANGED <<bannedNow, removals, toSave, saved, reports, forgot>>
    BY DEF RefreshTrapMessage, Unsaid
<1>2. PICK step \in {"report", "over"} : GoOn(m, step)
    BY DEF RefreshTrapMessage
<1>3. /\ handling' \in [Traps -> Steps] /\ handling'[m] = step
      /\ \A n \in Traps : n # m => handling'[n] = handling[n]
    BY <1>2, GoOnIs DEF Steps
<1>4. /\ warning' \in Nat /\ mistakes' \in Nat
      /\ \/ warning' = removals /\ mistakes' = mistakes
         \/ mistakes' # 0
    BY DEF RefreshTrapMessage, Well, Mistake, TrapTypes
<1>5. QED
    BY <1>1, <1>3, <1>4, LaterKeeps

\* The report leaves the ban and the counts as they are.
LEMMA ReportKeeps ==
    ASSUME TrapInv, NEW m \in Traps, Report(m)
    PROVE  TrapInv'
<1> USE DEF TrapInv
<1>1. /\ handling[m] = "report" /\ GoOn(m, "over") /\ untold \subseteq untold'
      /\ UNCHANGED <<bannedNow, removals, toSave, saved, warning, reports, forgot>>
    BY DEF Report, counting, Unsaid
<1>2. /\ handling' \in [Traps -> Steps] /\ handling'[m] = "over"
      /\ \A n \in Traps : n # m => handling'[n] = handling[n]
    BY <1>1, GoOnIs DEF Steps
<1>3. mistakes' \in Nat /\ (mistakes' = mistakes \/ mistakes' # 0)
    BY DEF Report, Well, Mistake, TrapTypes
<1>4. warning' = warning /\ warning' \in Nat
    BY <1>1 DEF TrapTypes
<1>5. QED
    BY <1>1, <1>2, <1>3, <1>4, LaterKeeps

\* The warning is deleted, or a moderator lifts a ban.
LEMMA HandsKeepTrap ==
    ASSUME TrapInv, WarningDeleted \/ \E a \in Authors : LiftedByHand(a)
    PROVE  TrapInv'
<1> USE DEF TrapInv
<1>1. CASE WarningDeleted
    <2>1. /\ UNCHANGED <<handling, bannedNow, removals, toSave, saved, reports, untold, forgot>>
          /\ warning' = Deleted /\ mistakes' = mistakes + 1
        BY <1>1 DEF WarningDeleted, Mistake, fate
    <2>2. warning' \in Nat /\ mistakes' \in Nat /\ mistakes' # 0
        BY <2>1, RemovedAre DEF TrapTypes
    <2>3. TrapTypes'
        BY <2>1, <2>2 DEF TrapTypes
    <2>4. QED
        BY <2>1, <2>2, <2>3 DEF Unreported, SavesBehind, Faultless, NoBanIsLeft
<1>2. CASE \E a \in Authors : LiftedByHand(a)
    <2>1. /\ bannedNow' \subseteq bannedNow /\ (bannedNow' \ untold') \subseteq bannedNow \ untold
          /\ UNCHANGED <<handling, removals, toSave, saved, warning, reports, mistakes, forgot>>
        BY <1>2 DEF LiftedByHand, Lift, counting
    <2>2. TrapTypes'
        BY <2>1 DEF TrapTypes
    <2>3. Unreported' /\ SavesBehind' /\ Faultless'
        BY <2>1, <2>2 DEF Unreported, SavesBehind, Faultless, Removed
    <2>4. QED
        BY <2>1, <2>2, <2>3 DEF NoBanIsLeft
<1>3. QED
    BY <1>1, <1>2

\* A restart: the bans of the handlers that died are noted, and the saved count is read.
LEMMA TrapRestartKeeps ==
    ASSUME TrapInv, TrapRestart
    PROVE  TrapInv'
<1> USE DEF TrapInv
<1>1. /\ handling' = [m \in Traps |-> IF handling[m] = "unsent" THEN "unsent" ELSE "over"]
      /\ untold' = untold \union
             (bannedNow \intersect {AuthorOf[m] : m \in {t \in Traps :
                                  handling[t] \in {"unban", "save", "refresh", "report"}}})
      /\ mistakes' = mistakes + 1
      /\ UNCHANGED <<bannedNow, toSave, saved, reports>>
    BY DEF TrapRestart, Mistake
<1>2. mistakes' \in Nat /\ mistakes' # 0
    BY <1>1 DEF TrapTypes
<1>3. \A m \in Traps : /\ handling'[m] \in Steps /\ handling'[m] # "save"
                       /\ handling'[m] \in {"unsent", "ban", "unban"} => handling[m] = "unsent"
    BY <1>1 DEF Steps
<1>4. /\ removals' \in Nat /\ warning' \in Nat
      /\ forgot' \/ saved <= removals'
    BY DEF TrapRestart, TrapTypes
<1>5. TrapTypes'
    <2>1. handling' \in [Traps -> Steps]
        BY <1>1 DEF Steps
    <2>2. QED
        BY <1>1, <1>2, <1>4, <2>1 DEF TrapTypes
<1>6. Unreported'
    BY <1>1, <1>3 DEF Unreported
<1>7. SavesBehind'
    BY <1>1, <1>3, <1>4 DEF SavesBehind
<1>8. NoBanIsLeft'
    BY <1>1, <1>2 DEF NoBanIsLeft
<1>9. QED
    BY <1>2, <1>5, <1>6, <1>7, <1>8 DEF Faultless

\* At the start nobody wrote in the channel.
LEMMA TrapStarts ==
    ASSUME TrapInit
    PROVE  TrapInv
<1>1. /\ \A m \in Traps : handling[m] = "unsent" /\ reports[m] = "none"
      /\ bannedNow = {} /\ removals = 0 /\ saved = 0 /\ warning = 0
    BY DEF TrapInit
<1>2. TrapTypes
    BY DEF TrapInit, TrapTypes, Steps
<1>3. Removed = {}
    BY <1>1 DEF Removed
<1>4. Cardinality(Removed) = 0
    BY <1>3, FS_EmptySet
<1>5. Faultless
    BY <1>1, <1>3, <1>4 DEF Faultless
<1>6. QED
    BY <1>1, <1>2, <1>5 DEF TrapInv, Unreported, SavesBehind, NoBanIsLeft

\* What the moderators are promised follows from the invariant.
LEMMA TrapShows ==
    ASSUME TrapInv
    PROVE  TrapHolds
<1> USE DEF TrapInv
<1>1. ASSUME \A m \in Traps : handling[m] = "over", mistakes = 0
      PROVE  /\ removals = Cardinality(Traps) /\ saved = removals /\ warning = removals
             /\ \A m \in Traps : reports[m] = "removed"
    <2>1. Removed = Traps
        BY <1>1 DEF Removed
    <2>2. QED
        BY <1>1, <2>1 DEF Faultless
<1>2. RemovalsAreCounted
    BY <1>1 DEF RemovalsAreCounted, SavesBehind
<1>3. QED
    BY <1>2 DEF TrapHolds

\* Every step of the channel keeps its invariant.
LEMMA TrapStep ==
    ASSUME TrapInv, [TrapNext]_trapVars
    PROVE  TrapInv'
<1>1. ASSUME TrapNext
      PROVE  TrapInv'
    BY <1>1, CaughtKeeps, BanKeeps, UnbanKeeps, SaveCountKeeps, RefreshKeeps, ReportKeeps,
       HandsKeepTrap, TrapRestartKeeps DEF TrapNext
<1>2. ASSUME UNCHANGED trapVars
      PROVE  TrapInv'
    BY <1>2 DEF trapVars, counting, fate, TrapInv, TrapTypes, Unreported, SavesBehind, Faultless,
                NoBanIsLeft, Removed
<1>3. QED
    BY <1>1, <1>2

\* Moderation.on_message: a ban goes with its handler while no call fails; one that outlasts it is
\* reported as one to lift, unless its call raised or no report went out; and the removals are
\* counted, saved, shown and said as one.
THEOREM TrapsAreLifted == TrapSpec => []TrapHolds
<1>1. TrapInit => TrapInv
    BY TrapStarts
<1>2. TrapInv /\ [TrapNext]_trapVars => TrapInv'
    BY TrapStep
<1>3. TrapInv => TrapHolds
    BY TrapShows
<1>4. QED
    BY <1>1, <1>2, <1>3, PTL DEF TrapSpec

HIDE TrapAssumption DEF TrapAssumption

-------------------------------------------------------------------------------
USE MembershipAssumption DEF MembershipAssumption

\* Membership.  A statement of Discord's about p, and one of the reconcile's.
About(e, p) == e.do \in {"leave", "join"} /\ p \in e.who
OwnOf(e) == e.do \in {"read", "correct"}

\* q has an event about p, has a correction of p's row, has nothing of the
\* reconcile, or one statement of it at most; nothing but codes is in q, or is ahead of
\* its read.
Heard(q, p) == \E i \in 1..Len(q) : About(q[i], p)
Mends(q, p) == \E i \in 1..Len(q) : q[i].do = "correct" /\ p \in q[i].who
NoneOwn(q) == \A i \in 1..Len(q) : ~OwnOf(q[i])
NoRead(q) == \A i \in 1..Len(q) : q[i].do # "read"
OnlyCodes(q) == \A i \in 1..Len(q) : q[i].do = "code"
ReadWaits(q) ==
    \E i \in 1..Len(q) : q[i].do = "read" /\ \A j \in 1..Len(q) : j < i => q[j].do = "code"
OneOwn(q) == \A i, j \in 1..Len(q) : OwnOf(q[i]) /\ OwnOf(q[j]) => i = j

\* Each statement but the read is about one row.
Singles(q) == \A i \in 1..Len(q) : q[i].do # "read" => \E p \in Folk : q[i].who = {p}

\* The last event about p that waits says whether p is a member.
LastIsTrue(q, p, members) ==
    \A i \in 1..Len(q) : About(q[i], p) /\ (\A j \in 1..Len(q) : i < j => ~About(q[j], p)) =>
                            (q[i].do = "join" <=> p \in members)

Statements == [do : {"leave", "join", "code", "read", "correct"}, who : SUBSET Folk]

MemberTypes ==
    /\ inGuild \in SUBSET Folk /\ mark \in [Folk -> {"none", "here", "left"}]
    /\ sql \in Seq(Statements)
    /\ Singles(sql)
    /\ pass \in {NoPass, "reading", "writing"}
    /\ memberIds \in SUBSET Folk /\ amiss \in SUBSET Folk
    /\ excused \in SUBSET Folk /\ mending \in SUBSET Folk

\* Without the bot nothing waits, and without its guilds nothing but codes; one statement
\* of the reconcile waits at most, and only codes are ahead of the read.
OnePass ==
    /\ ~up => sql = <<>> /\ pass = NoPass /\ coding = {} /\ ~cached
    /\ ~cached => OnlyCodes(sql) /\ pass = NoPass
    /\ OneOwn(sql)
    /\ pass = NoPass => NoneOwn(sql) /\ mending = {}
    /\ pass = "writing" => NoRead(sql)
    /\ pass = "reading" => ReadWaits(sql)

EventsAreTrue == \A p \in Folk : LastIsTrue(sql, p, inGuild)

\* Who came or went since the snapshot is heard of later, while the read waits.
SnapshotHolds ==
    pass = "reading" =>
        \A p \in Folk : (p \in memberIds <=> p \in inGuild) \/ Heard(sql, p)

\* A row that is not excused is true, or an event will make it so; one the reconcile
\* mends is still to be looked at, or to be corrected, or is as good.
RowsAreTrue == \A p \in Folk : p \in excused \/ Heard(sql, p) \/ IsTrue(p, mark[p])
MendsAreDone ==
    \A p \in mending : \/ pass = "reading" \/ p \in amiss \/ Mends(sql, p)
                       \/ Heard(sql, p) \/ IsTrue(p, mark[p])

MemberInv == MemberTypes /\ OnePass /\ EventsAreTrue /\ SnapshotHolds /\ RowsAreTrue /\ MendsAreDone

\* A line and the rest of it.
LEMMA RestIs ==
    ASSUME NEW q \in Seq(Statements), q # <<>>
    PROVE  /\ Tail(q) \in Seq(Statements) /\ Head(q) \in Statements /\ Head(q) = q[1]
           /\ Len(q) \in Nat /\ Len(q) > 0 /\ Len(Tail(q)) = Len(q) - 1
           /\ \A i \in 1..Len(Tail(q)) : i + 1 \in 1..Len(q) /\ Tail(q)[i] = q[i + 1]
           /\ \A i \in 1..Len(q) : i # 1 => i - 1 \in 1..Len(Tail(q)) /\ Tail(q)[i - 1] = q[i]
<1>1. /\ Head(q) \in Statements /\ Tail(q) \in Seq(Statements)
      /\ Len(Tail(q)) = Len(q) - 1 /\ Len(q) \in Nat /\ Head(q) = q[1]
      /\ \A i \in 1..Len(Tail(q)) : Tail(q)[i] = q[i + 1]
    BY HeadTailProperties, LenProperties
<1>2. Len(q) > 0
    BY EmptySeq, LenProperties
<1>3. \A i \in 1..Len(Tail(q)) : i + 1 \in 1..Len(q)
    BY <1>1
<1>4. ASSUME NEW i \in 1..Len(q), i # 1
      PROVE  i - 1 \in 1..Len(Tail(q)) /\ Tail(q)[i - 1] = q[i]
    <2>1. i - 1 \in 1..Len(Tail(q)) /\ (i - 1) + 1 = i
        BY <1>1, <1>4
    <2>2. QED
        BY <1>1, <2>1
<1>5. QED
    BY <1>1, <1>2, <1>3, <1>4

\* What waits is the head or in the rest; the last event about somebody stays the last.
LEMMA RestHas ==
    ASSUME NEW q \in Seq(Statements), q # <<>>, NEW p, NEW members
    PROVE  /\ Heard(q, p) <=> About(Head(q), p) \/ Heard(Tail(q), p)
           /\ Mends(q, p) <=> (Head(q).do = "correct" /\ p \in Head(q).who) \/ Mends(Tail(q), p)
           /\ LastIsTrue(q, p, members) => LastIsTrue(Tail(q), p, members)
           /\ LastIsTrue(q, p, members) /\ About(Head(q), p) /\ ~Heard(Tail(q), p) =>
                  (Head(q).do = "join" <=> p \in members)
<1>1. Heard(q, p) <=> About(Head(q), p) \/ Heard(Tail(q), p)
    <2>1. ASSUME NEW i \in 1..Len(q), About(q[i], p)
          PROVE  About(Head(q), p) \/ Heard(Tail(q), p)
        <3>1. CASE i = 1
            BY <2>1, <3>1, RestIs
        <3>2. CASE i # 1
            BY <2>1, <3>2, RestIs DEF Heard
        <3>3. QED
            BY <3>1, <3>2
    <2>2. About(Head(q), p) => Heard(q, p)
        <3>1. 1 \in 1..Len(q)
            BY RestIs
        <3>2. QED
            BY <3>1, RestIs DEF Heard
    <2>3. Heard(Tail(q), p) => Heard(q, p)
        BY RestIs DEF Heard
    <2>4. QED
        BY <2>1, <2>2, <2>3 DEF Heard
<1>2. Mends(q, p) <=> (Head(q).do = "correct" /\ p \in Head(q).who) \/ Mends(Tail(q), p)
    <2>1. ASSUME NEW i \in 1..Len(q), q[i].do = "correct", p \in q[i].who
          PROVE  (Head(q).do = "correct" /\ p \in Head(q).who) \/ Mends(Tail(q), p)
        <3>1. CASE i = 1
            BY <2>1, <3>1, RestIs
        <3>2. CASE i # 1
            <4>1. i - 1 \in 1..Len(Tail(q)) /\ Tail(q)[i - 1] = q[i]
                BY <3>2, RestIs
            <4>2. QED
                BY <2>1, <4>1 DEF Mends
        <3>3. QED
            BY <3>1, <3>2
    <2>2. Head(q).do = "correct" /\ p \in Head(q).who => Mends(q, p)
        <3>1. 1 \in 1..Len(q)
            BY RestIs
        <3>2. QED
            BY <3>1, RestIs DEF Mends
    <2>3. Mends(Tail(q), p) => Mends(q, p)
        BY RestIs DEF Mends
    <2>4. QED
        BY <2>1, <2>2, <2>3 DEF Mends
<1>3. ASSUME LastIsTrue(q, p, members)
      PROVE  LastIsTrue(Tail(q), p, members)
    <2> SUFFICES ASSUME NEW i \in 1..Len(Tail(q)), About(Tail(q)[i], p),
                        \A j \in 1..Len(Tail(q)) : i < j => ~About(Tail(q)[j], p)
                 PROVE  Tail(q)[i].do = "join" <=> p \in members
        BY DEF LastIsTrue
    <2>1. i + 1 \in 1..Len(q) /\ Tail(q)[i] = q[i + 1]
        BY RestIs
    <2>2. ASSUME NEW j \in 1..Len(q), i + 1 < j
          PROVE  ~About(q[j], p)
        <3>1. j # 1 /\ i < j - 1
            BY <2>2
        <3>2. j - 1 \in 1..Len(Tail(q)) /\ Tail(q)[j - 1] = q[j]
            BY <3>1, RestIs
        <3>3. QED
            BY <3>1, <3>2
    <2>3. QED
        BY <1>3, <2>1, <2>2 DEF LastIsTrue
<1>4. ASSUME LastIsTrue(q, p, members), About(Head(q), p), ~Heard(Tail(q), p)
      PROVE  Head(q).do = "join" <=> p \in members
    <2>1. 1 \in 1..Len(q) /\ q[1] = Head(q)
        BY RestIs
    <2>2. ASSUME NEW j \in 1..Len(q), 1 < j
          PROVE  ~About(q[j], p)
        <3>1. j # 1
            BY <2>2
        <3>2. QED
            BY <1>4, <3>1, RestIs DEF Heard
    <2>3. QED
        BY <1>4, <2>1, <2>2 DEF LastIsTrue
<1>5. QED
    BY <1>1, <1>2, <1>3, <1>4

\* The rest has no more statements of the reconcile, and each is about one row.
LEMMA RestOwn ==
    ASSUME NEW q \in Seq(Statements), q # <<>>
    PROVE  /\ OneOwn(q) => OneOwn(Tail(q)) /\ (OwnOf(Head(q)) => NoneOwn(Tail(q)))
           /\ NoneOwn(q) => NoneOwn(Tail(q)) /\ ~OwnOf(Head(q)) /\ NoRead(q)
           /\ NoRead(q) => NoRead(Tail(q)) /\ Head(q).do # "read"
           /\ Singles(q) => /\ Singles(Tail(q))
                            /\ Head(q).do # "read" => \E p \in Folk : Head(q).who = {p}
           /\ OnlyCodes(q) => OnlyCodes(Tail(q)) /\ Head(q).do = "code"
           /\ ReadWaits(q) /\ Head(q).do # "read" =>
                  ReadWaits(Tail(q)) /\ Head(q).do = "code"
<1>1. 1 \in 1..Len(q) /\ q[1] = Head(q)
    BY RestIs
<1>2. OneOwn(q) => OneOwn(Tail(q))
    <2>1. ASSUME OneOwn(q), NEW i \in 1..Len(Tail(q)), NEW j \in 1..Len(Tail(q)),
                 OwnOf(Tail(q)[i]), OwnOf(Tail(q)[j])
          PROVE  i = j
        <3>1. /\ i + 1 \in 1..Len(q) /\ Tail(q)[i] = q[i + 1]
              /\ j + 1 \in 1..Len(q) /\ Tail(q)[j] = q[j + 1]
            BY RestIs
        <3>2. i + 1 = j + 1
            BY <2>1, <3>1 DEF OneOwn
        <3>3. QED
            BY <3>2
    <2>2. QED
        BY <2>1 DEF OneOwn
<1>3. OneOwn(q) /\ OwnOf(Head(q)) => NoneOwn(Tail(q))
    <2>1. ASSUME OneOwn(q), OwnOf(Head(q)), NEW i \in 1..Len(Tail(q)), OwnOf(Tail(q)[i])
          PROVE  FALSE
        <3>1. i + 1 \in 1..Len(q) /\ Tail(q)[i] = q[i + 1]
            BY RestIs
        <3>2. i + 1 = 1
            BY <1>1, <2>1, <3>1 DEF OneOwn
        <3>3. QED
            BY <3>2
    <2>2. QED
        BY <2>1 DEF NoneOwn
<1>4. NoneOwn(q) => NoneOwn(Tail(q)) /\ ~OwnOf(Head(q))
    BY <1>1, RestIs DEF NoneOwn
<1>5. Singles(q) => Singles(Tail(q))
    BY RestIs DEF Singles
<1>6. Singles(q) /\ Head(q).do # "read" => \E p \in Folk : Head(q).who = {p}
    BY <1>1 DEF Singles
<1>7. NoneOwn(q) => NoRead(q)
    BY DEF NoneOwn, OwnOf, NoRead
<1>8. NoRead(q) => NoRead(Tail(q)) /\ Head(q).do # "read"
    BY <1>1, RestIs DEF NoRead
<1>9. OnlyCodes(q) => OnlyCodes(Tail(q)) /\ Head(q).do = "code"
    BY <1>1, RestIs DEF OnlyCodes
<1>10. ASSUME ReadWaits(q), Head(q).do # "read"
       PROVE  ReadWaits(Tail(q)) /\ Head(q).do = "code"
    <2>1. PICK i \in 1..Len(q) :
              q[i].do = "read" /\ \A j \in 1..Len(q) : j < i => q[j].do = "code"
        BY <1>10 DEF ReadWaits
    <2>2. i # 1 /\ 1 < i
        BY <1>1, <1>10, <2>1
    <2>3. i - 1 \in 1..Len(Tail(q)) /\ Tail(q)[i - 1] = q[i]
        BY <2>2, RestIs
    <2>4. ASSUME NEW j \in 1..Len(Tail(q)), j < i - 1
          PROVE  Tail(q)[j].do = "code"
        <3>1. j + 1 \in 1..Len(q) /\ Tail(q)[j] = q[j + 1] /\ j + 1 < i
            BY <2>4, RestIs
        <3>2. QED
            BY <2>1, <3>1
    <2>5. ReadWaits(Tail(q))
        BY <2>1, <2>3, <2>4 DEF ReadWaits
    <2>6. QED
        BY <1>1, <2>1, <2>2, <2>5
<1>11. QED
    BY <1>2, <1>3, <1>4, <1>5, <1>6, <1>7, <1>8, <1>9, <1>10

\* A line with one more statement at its end.
LEMMA MoreIs ==
    ASSUME NEW q \in Seq(Statements), NEW e \in Statements
    PROVE  /\ Append(q, e) \in Seq(Statements) /\ Append(q, e) # <<>>
           /\ Len(q) \in Nat /\ Len(Append(q, e)) = Len(q) + 1
           /\ Append(q, e)[Len(q) + 1] = e
           /\ \A i \in 1..Len(q) : Append(q, e)[i] = q[i] /\ i \in 1..Len(Append(q, e))
           /\ \A i \in 1..Len(Append(q, e)) : i = Len(q) + 1 \/ i \in 1..Len(q)
BY AppendProperties, LenProperties

\* What waits is e or was waiting; when e is about p, it is the last event about him.
LEMMA MoreHas ==
    ASSUME NEW q \in Seq(Statements), NEW e \in Statements, NEW p, NEW members
    PROVE  /\ Heard(Append(q, e), p) <=> About(e, p) \/ Heard(q, p)
           /\ Mends(Append(q, e), p) <=> (e.do = "correct" /\ p \in e.who) \/ Mends(q, p)
           /\ ~About(e, p) /\ LastIsTrue(q, p, members) => LastIsTrue(Append(q, e), p, members)
           /\ About(e, p) /\ (e.do = "join" <=> p \in members) =>
                  LastIsTrue(Append(q, e), p, members)
<1>1. Len(q) + 1 \in 1..Len(Append(q, e))
    BY MoreIs
<1>2. Heard(Append(q, e), p) <=> About(e, p) \/ Heard(q, p)
    <2>1. About(e, p) \/ Heard(q, p) => Heard(Append(q, e), p)
        BY <1>1, MoreIs DEF Heard
    <2>2. ASSUME NEW i \in 1..Len(Append(q, e)), About(Append(q, e)[i], p)
          PROVE  About(e, p) \/ Heard(q, p)
        BY <2>2, MoreIs DEF Heard
    <2>3. QED
        BY <2>1, <2>2 DEF Heard
<1>3. Mends(Append(q, e), p) <=> (e.do = "correct" /\ p \in e.who) \/ Mends(q, p)
    <2>1. (e.do = "correct" /\ p \in e.who) \/ Mends(q, p) => Mends(Append(q, e), p)
        BY <1>1, MoreIs DEF Mends
    <2>2. ASSUME NEW i \in 1..Len(Append(q, e)), Append(q, e)[i].do = "correct",
                 p \in Append(q, e)[i].who
          PROVE  (e.do = "correct" /\ p \in e.who) \/ Mends(q, p)
        BY <2>2, MoreIs DEF Mends
    <2>3. QED
        BY <2>1, <2>2 DEF Mends
<1>4. ASSUME ~About(e, p), LastIsTrue(q, p, members)
      PROVE  LastIsTrue(Append(q, e), p, members)
    <2> SUFFICES ASSUME NEW i \in 1..Len(Append(q, e)), About(Append(q, e)[i], p),
                        \A j \in 1..Len(Append(q, e)) : i < j => ~About(Append(q, e)[j], p)
                 PROVE  Append(q, e)[i].do = "join" <=> p \in members
        BY DEF LastIsTrue
    <2>1. i \in 1..Len(q) /\ Append(q, e)[i] = q[i]
        BY <1>4, MoreIs
    <2>2. \A j \in 1..Len(q) : i < j => ~About(q[j], p)
        BY MoreIs
    <2>3. QED
        BY <1>4, <2>1, <2>2 DEF LastIsTrue
<1>5. ASSUME About(e, p), e.do = "join" <=> p \in members
      PROVE  LastIsTrue(Append(q, e), p, members)
    <2> SUFFICES ASSUME NEW i \in 1..Len(Append(q, e)), About(Append(q, e)[i], p),
                        \A j \in 1..Len(Append(q, e)) : i < j => ~About(Append(q, e)[j], p)
                 PROVE  Append(q, e)[i].do = "join" <=> p \in members
        BY DEF LastIsTrue
    <2>1. ~(i < Len(q) + 1)
        BY <1>1, <1>5, MoreIs
    <2>2. i = Len(q) + 1
        BY <2>1, MoreIs
    <2>3. QED
        BY <1>5, <2>2, MoreIs
<1>6. QED
    BY <1>2, <1>3, <1>4, <1>5

\* In a queue without a statement of the reconcile, one that is added is the only one.
LEMMA MoreOwn ==
    ASSUME NEW q \in Seq(Statements), NEW e \in Statements
    PROVE  /\ NoneOwn(q) => OneOwn(Append(q, e))
           /\ OneOwn(q) /\ ~OwnOf(e) => OneOwn(Append(q, e))
           /\ NoneOwn(q) /\ ~OwnOf(e) => NoneOwn(Append(q, e))
           /\ Singles(q) /\ (e.do # "read" => \E p \in Folk : e.who = {p}) =>
                  Singles(Append(q, e))
           /\ NoRead(q) /\ e.do # "read" => NoRead(Append(q, e))
           /\ NoneOwn(q) => NoRead(q)
           /\ ReadWaits(q) => ReadWaits(Append(q, e))
           /\ OnlyCodes(q) /\ e.do = "code" => OnlyCodes(Append(q, e))
           /\ OnlyCodes(q) => NoneOwn(q) /\ (e.do = "read" => ReadWaits(Append(q, e)))
<1>1. NoneOwn(q) => OneOwn(Append(q, e))
    BY MoreIs DEF NoneOwn, OneOwn
<1>2. OneOwn(q) /\ ~OwnOf(e) => OneOwn(Append(q, e))
    BY MoreIs DEF OneOwn
<1>3. NoneOwn(q) /\ ~OwnOf(e) => NoneOwn(Append(q, e))
    BY MoreIs DEF NoneOwn
<1>4. Singles(q) /\ (e.do # "read" => \E p \in Folk : e.who = {p}) => Singles(Append(q, e))
    BY MoreIs DEF Singles
<1>5. ASSUME ReadWaits(q)
      PROVE  ReadWaits(Append(q, e))
    <2>1. PICK i \in 1..Len(q) :
              q[i].do = "read" /\ \A j \in 1..Len(q) : j < i => q[j].do = "code"
        BY <1>5 DEF ReadWaits
    <2>2. i \in 1..Len(Append(q, e)) /\ Append(q, e)[i].do = "read"
        BY <2>1, MoreIs
    <2>3. ASSUME NEW j \in 1..Len(Append(q, e)), j < i
          PROVE  Append(q, e)[j].do = "code"
        <3>1. j \in 1..Len(q)
            BY <2>1, <2>3, MoreIs
        <3>2. QED
            BY <2>1, <2>3, <3>1, MoreIs
    <2>4. QED
        BY <2>2, <2>3 DEF ReadWaits
<1>6. NoRead(q) /\ e.do # "read" => NoRead(Append(q, e))
    BY MoreIs DEF NoRead
<1>7. NoneOwn(q) => NoRead(q)
    BY DEF NoneOwn, OwnOf, NoRead
<1>8. OnlyCodes(q) /\ e.do = "code" => OnlyCodes(Append(q, e))
    BY MoreIs DEF OnlyCodes
<1>9. ASSUME OnlyCodes(q), e.do = "read"
      PROVE  ReadWaits(Append(q, e))
    <2>1. /\ Len(q) + 1 \in 1..Len(Append(q, e)) /\ Append(q, e)[Len(q) + 1].do = "read"
          /\ \A j \in 1..Len(Append(q, e)) : j < Len(q) + 1 => j \in 1..Len(q)
        BY <1>9, MoreIs
    <2>2. \A j \in 1..Len(q) : Append(q, e)[j].do = "code"
        BY <1>9, MoreIs DEF OnlyCodes
    <2>3. QED
        BY <2>1, <2>2 DEF ReadWaits
<1>10. OnlyCodes(q) => NoneOwn(q)
    BY DEF OnlyCodes, NoneOwn, OwnOf
<1>11. QED
    BY <1>1, <1>2, <1>3, <1>4, <1>5, <1>6, <1>7, <1>8, <1>9, <1>10

\* Nothing waits in an empty line.
LEMMA NothingWaits ==
    ASSUME NEW p, NEW members
    PROVE  /\ <<>> \in Seq(Statements) /\ ~Heard(<<>>, p) /\ ~Mends(<<>>, p)
           /\ LastIsTrue(<<>>, p, members) /\ NoneOwn(<<>>) /\ OneOwn(<<>>) /\ Singles(<<>>)
           /\ OnlyCodes(<<>>)
<1>1. <<>> \in Seq(Statements) /\ Len(<<>>) = 0
    BY EmptySeq
<1>2. \A i \in 1..Len(<<>>) : FALSE
    BY <1>1
<1>3. QED
    BY <1>1, <1>2 DEF Heard, Mends, LastIsTrue, NoneOwn, OneOwn, Singles, OnlyCodes

\* A member who comes or goes is heard of, or the bot was not there to hear.
LEMMA MovesKeeps ==
    ASSUME MemberInv, NEW p \in Folk, MemberMoves(p)
    PROVE  MemberInv'
<1> USE DEF MemberInv
<1>1. /\ inGuild' = IF p \in inGuild THEN inGuild \ {p} ELSE inGuild \union {p}
      /\ UNCHANGED <<up, cached, mark, coding, pass, memberIds, amiss>>
    BY DEF MemberMoves, passing
<1>2. /\ inGuild' \in SUBSET Folk /\ (p \in inGuild' <=> p \notin inGuild)
      /\ \A q \in Folk : q # p => (q \in inGuild' <=> q \in inGuild)
    BY <1>1 DEF MemberTypes
<1>3. \A q \in Folk : q # p /\ IsTrue(q, mark[q]) => IsTrue(q, mark[q])'
    BY <1>1, <1>2 DEF IsTrue
<1>4. CASE cached
    <2>1. PICK e \in Statements : /\ sql' = Append(sql, e) /\ e.who = {p}
                                  /\ e.do = IF p \in inGuild THEN "leave" ELSE "join"
        <3>1. PICK do \in {"leave", "join"} : do = IF p \in inGuild THEN "leave" ELSE "join"
            OBVIOUS
        <3>2. PICK who \in SUBSET Folk : who = {p}
            OBVIOUS
        <3>3. sql' = Append(sql, [do |-> do, who |-> who])
            BY <1>4, <3>1, <3>2 DEF MemberMoves, Enqueue
        <3>4. [do |-> do, who |-> who] \in Statements
            BY DEF Statements
        <3>5. QED
            BY <3>1, <3>2, <3>3, <3>4
    <2>2. UNCHANGED <<excused, mending>> /\ sql \in Seq(Statements)
        BY <1>4 DEF MemberMoves, MemberTypes
    <2>3. /\ About(e, p) /\ (e.do = "join" <=> p \in inGuild') /\ ~OwnOf(e)
          /\ \A q \in Folk : q # p => ~About(e, q)
          /\ e.do # "correct" /\ e.do # "read"
        BY <1>2, <2>1 DEF About, OwnOf
    <2>4. \A q \in Folk : /\ Heard(sql', q) <=> (q = p \/ Heard(sql, q))
                          /\ Mends(sql', q) <=> Mends(sql, q)
        BY <2>1, <2>2, <2>3, MoreHas
    <2>5. MemberTypes'
        <3>1. Singles(sql')
            BY <2>1, <2>2, MoreOwn DEF MemberTypes
        <3>2. QED
            BY <1>1, <1>2, <2>1, <2>2, <3>1, MoreIs DEF MemberTypes
    <2>6. OnePass'
        <3>1. OneOwn(sql') /\ (NoneOwn(sql) => NoneOwn(sql')) /\ (NoRead(sql) => NoRead(sql'))
            BY <2>1, <2>2, <2>3, MoreOwn DEF OnePass
        <3>2. ReadWaits(sql) => ReadWaits(sql')
            BY <2>1, <2>2, MoreOwn
        <3>3. QED
            BY <1>1, <1>4, <2>2, <3>1, <3>2 DEF OnePass
    <2>7. EventsAreTrue'
        <3>1. LastIsTrue(sql', p, inGuild')
            BY <2>1, <2>2, <2>3, MoreHas
        <3>2. ASSUME NEW q \in Folk, q # p
              PROVE  LastIsTrue(sql', q, inGuild')
            <4>1. LastIsTrue(sql', q, inGuild)
                BY <2>1, <2>2, <2>3, <3>2, MoreHas DEF EventsAreTrue
            <4>2. QED
                BY <1>2, <3>2, <4>1 DEF LastIsTrue
        <3>3. QED
            BY <3>1, <3>2 DEF EventsAreTrue
    <2>8. SnapshotHolds'
        BY <1>1, <1>2, <2>4 DEF SnapshotHolds
    <2>9. RowsAreTrue'
        BY <1>3, <2>2, <2>4 DEF RowsAreTrue
    <2>10. MendsAreDone'
        BY <1>1, <1>3, <2>2, <2>4 DEF MendsAreDone, MemberTypes
    <2>11. QED
        BY <2>5, <2>6, <2>7, <2>8, <2>9, <2>10
<1>5. CASE ~cached
    <2>1. /\ excused' = excused \union {p} /\ mending' = mending \ {p} /\ UNCHANGED sql
          /\ OnlyCodes(sql) /\ pass = NoPass /\ mending = {}
        BY <1>5 DEF MemberMoves, Excuse, OnePass
    <2>2. MemberTypes'
        BY <1>1, <1>2, <2>1 DEF MemberTypes
    <2>3. OnePass'
        BY <1>1, <2>1 DEF OnePass
    <2>4. EventsAreTrue'
        BY <2>1 DEF EventsAreTrue, LastIsTrue, OnlyCodes, About
    <2>5. RowsAreTrue'
        BY <1>3, <2>1 DEF RowsAreTrue
    <2>6. SnapshotHolds' /\ MendsAreDone'
        BY <1>1, <2>1 DEF SnapshotHolds, MendsAreDone, NoPass
    <2>7. QED
        BY <2>2, <2>3, <2>4, <2>5, <2>6
<1>6. QED
    BY <1>4, <1>5

\* A code that was sent writes its row in its turn.
LEMMA CodesKeep ==
    ASSUME MemberInv, NEW p \in Folk, AskForCode(p) \/ CodeIsSent(p)
    PROVE  MemberInv'
<1> USE DEF MemberInv
<1>1. /\ UNCHANGED <<inGuild, up, cached, mark, pass, memberIds, amiss, excused, mending>>
      /\ up
    BY DEF AskForCode, CodeIsSent, passing, OnePass
<1>2. CASE UNCHANGED sql
    BY <1>1, <1>2 DEF MemberTypes, OnePass, EventsAreTrue, SnapshotHolds, RowsAreTrue,
                      MendsAreDone, IsTrue
<1>3. CASE Enqueue("code", {p})
    <2>1. PICK e \in Statements : sql' = Append(sql, e) /\ e.who = {p} /\ e.do = "code"
        <3>1. PICK who \in SUBSET Folk : who = {p}
            OBVIOUS
        <3>2. [do |-> "code", who |-> who] \in Statements
            BY DEF Statements
        <3>3. QED
            BY <1>3, <3>1, <3>2 DEF Enqueue
    <2>2. sql \in Seq(Statements) /\ ~OwnOf(e) /\ \A q \in Folk : ~About(e, q)
        BY <2>1 DEF MemberTypes, OwnOf, About
    <2>3. \A q \in Folk : /\ Heard(sql', q) <=> Heard(sql, q)
                          /\ Mends(sql', q) <=> Mends(sql, q)
                          /\ LastIsTrue(sql, q, inGuild) => LastIsTrue(sql', q, inGuild)
        BY <2>1, <2>2, MoreHas
    <2>4. MemberTypes'
        <3>1. Singles(sql')
            BY <2>1, <2>2, MoreOwn DEF MemberTypes
        <3>2. QED
            BY <1>1, <2>1, <2>2, <3>1, MoreIs DEF MemberTypes
    <2>5. OnePass'
        <3>1. OneOwn(sql') /\ (NoneOwn(sql) => NoneOwn(sql')) /\ (NoRead(sql) => NoRead(sql'))
            BY <2>1, <2>2, MoreOwn DEF OnePass
        <3>2. /\ ReadWaits(sql) => ReadWaits(sql')
              /\ OnlyCodes(sql) => OnlyCodes(sql')
            BY <2>1, <2>2, MoreOwn
        <3>3. QED
            BY <1>1, <3>1, <3>2 DEF OnePass
    <2>6. EventsAreTrue' /\ SnapshotHolds'
        BY <1>1, <2>3 DEF EventsAreTrue, SnapshotHolds
    <2>7. RowsAreTrue' /\ MendsAreDone'
        BY <1>1, <2>3 DEF RowsAreTrue, MendsAreDone, IsTrue, MemberTypes
    <2>8. QED
        BY <2>4, <2>5, <2>6, <2>7
<1>4. QED
    BY <1>2, <1>3 DEF AskForCode, CodeIsSent

\* The reconcile goes on with the next row that is wrong, or is over.
LEMMA ProceedIs ==
    ASSUME MemberInv, sql # <<>>, OwnOf(Head(sql)), NEW rest \in SUBSET Folk, Proceed(rest)
    PROVE  /\ sql' \in Seq(Statements) /\ Singles(sql') /\ OneOwn(sql')
           /\ pass' \in {NoPass, "writing"} /\ (pass' = NoPass <=> rest = {})
           /\ (pass' = NoPass => NoneOwn(sql')) /\ NoRead(sql')
           /\ amiss' \in SUBSET Folk /\ memberIds' \in SUBSET Folk
           /\ \A q \in Folk : /\ Heard(sql', q) <=> Heard(Tail(sql), q)
                              /\ q \in rest => q \in amiss' \/ Mends(sql', q)
                              /\ LastIsTrue(Tail(sql), q, inGuild) => LastIsTrue(sql', q, inGuild)
<1> USE DEF MemberInv
<1>1. PICK line \in Seq(Statements) : line = Tail(sql)
    BY RestIs DEF MemberTypes
<1>2. NoneOwn(line) /\ OneOwn(line) /\ Singles(line) /\ NoRead(line)
    <2>1. NoneOwn(line) /\ OneOwn(line) /\ Singles(line)
        BY <1>1, RestOwn DEF OnePass, MemberTypes
    <2>2. QED
        BY <2>1 DEF NoneOwn, NoRead, OwnOf
<1>3. NoPass # "writing"
    BY DEF NoPass
<1>4. CASE rest = {}
    BY <1>1, <1>2, <1>3, <1>4 DEF Proceed
<1>5. CASE rest # {}
    <2>1. PICK p \in rest : /\ pass' = "writing" /\ amiss' = rest \ {p} /\ memberIds' = memberIds
                            /\ sql' = Append(line, [do |-> "correct", who |-> {p}])
        BY <1>1, <1>5 DEF Proceed
    <2>2. PICK e \in Statements : e = [do |-> "correct", who |-> {p}] /\ e.do = "correct"
                                  /\ e.who = {p}
        <3>1. PICK who \in SUBSET Folk : who = {p}
            OBVIOUS
        <3>2. [do |-> "correct", who |-> who] \in Statements
            BY DEF Statements
        <3>3. QED
            BY <3>1, <3>2
    <2>3. sql' = Append(line, e) /\ OwnOf(e) /\ \A q \in Folk : ~About(e, q)
        BY <2>1, <2>2 DEF OwnOf, About
    <2>4. sql' \in Seq(Statements) /\ OneOwn(sql') /\ Singles(sql') /\ NoRead(sql')
        BY <1>2, <2>2, <2>3, MoreIs, MoreOwn
    <2>5. \A q \in Folk : /\ Heard(sql', q) <=> Heard(line, q)
                          /\ q = p => Mends(sql', q)
                          /\ LastIsTrue(line, q, inGuild) => LastIsTrue(sql', q, inGuild)
        BY <2>2, <2>3, MoreHas
    <2>6. QED
        BY <1>1, <1>3, <1>5, <2>1, <2>4, <2>5 DEF MemberTypes
<1>6. QED
    BY <1>4, <1>5

\* The rows are read: those that are not wrong are true, or heard of later.
LEMMA ReadRowsKeepsThem ==
    ASSUME MemberInv, ReadRows
    PROVE  MemberInv'
<1> USE DEF MemberInv
<1>1. /\ sql # <<>> /\ Head(sql).do = "read" /\ Proceed(Wrong)
      /\ UNCHANGED <<inGuild, up, cached, mark, coding>>
      /\ excused' = IF Wrong = {} THEN excused \ mending ELSE excused
      /\ mending' = IF Wrong = {} THEN {} ELSE mending
    BY DEF ReadRows
<1>2. /\ Wrong \in SUBSET Folk /\ OwnOf(Head(sql)) /\ sql \in Seq(Statements)
      /\ \A q \in Folk : ~About(Head(sql), q)
    BY <1>1 DEF Wrong, OwnOf, MemberTypes, About
<1>3. /\ sql' \in Seq(Statements) /\ Singles(sql') /\ OneOwn(sql')
      /\ pass' \in {NoPass, "writing"} /\ (pass' = NoPass <=> Wrong = {})
      /\ (pass' = NoPass => NoneOwn(sql')) /\ NoRead(sql')
      /\ amiss' \in SUBSET Folk /\ memberIds' \in SUBSET Folk
      /\ \A q \in Folk : /\ Heard(sql', q) <=> Heard(Tail(sql), q)
                         /\ q \in Wrong => q \in amiss' \/ Mends(sql', q)
                         /\ LastIsTrue(Tail(sql), q, inGuild) => LastIsTrue(sql', q, inGuild)
    BY <1>1, <1>2, ProceedIs
<1>4. \A q \in Folk : /\ Heard(sql', q) <=> Heard(sql, q)
                      /\ LastIsTrue(sql', q, inGuild)
    BY <1>1, <1>2, <1>3, RestHas DEF EventsAreTrue
<1>5. up /\ cached /\ pass = "reading"
    <2>1. 1 \in 1..Len(sql) /\ sql[1] = Head(sql)
        BY <1>1, <1>2, RestIs
    <2>2. pass # NoPass /\ up /\ cached
        BY <1>1, <1>2, <2>1 DEF OnePass, NoneOwn
    <2>3. pass # "writing"
        BY <1>1, <2>1 DEF OnePass, NoRead
    <2>4. QED
        BY <2>2, <2>3 DEF MemberTypes
<1>6. MemberTypes'
    BY <1>1, <1>3 DEF MemberTypes
<1>7. OnePass'
    BY <1>1, <1>3, <1>5 DEF OnePass, NoPass
<1>8. EventsAreTrue' /\ SnapshotHolds'
    BY <1>1, <1>3, <1>4 DEF EventsAreTrue, SnapshotHolds, NoPass
\* A row that is not wrong, of somebody of whom nothing is heard later.
<1>9. ASSUME NEW q \in Folk, q \notin Wrong, ~Heard(sql, q)
      PROVE  IsTrue(q, mark[q])'
    BY <1>1, <1>5, <1>9 DEF SnapshotHolds, Wrong, IsTrue, MemberTypes
<1>10. RowsAreTrue'
    <2>1. CASE Wrong = {}
        BY <1>1, <1>4, <1>9, <2>1 DEF RowsAreTrue, IsTrue
    <2>2. CASE Wrong # {}
        BY <1>1, <1>4, <2>2 DEF RowsAreTrue, IsTrue
    <2>3. QED
        BY <2>1, <2>2
<1>11. MendsAreDone'
    <2>1. CASE Wrong = {}
        BY <1>1, <2>1 DEF MendsAreDone
    <2>2. CASE Wrong # {}
        <3>1. mending' = mending /\ mending \in SUBSET Folk
            BY <1>1, <2>2 DEF MemberTypes
        <3>2. ASSUME NEW q \in mending
              PROVE  q \in amiss' \/ Mends(sql', q) \/ Heard(sql', q) \/ IsTrue(q, mark[q])'
            BY <1>3, <1>4, <1>9, <3>1
        <3>3. QED
            BY <3>1, <3>2 DEF MendsAreDone
    <2>3. QED
        BY <2>1, <2>2
<1>12. QED
    BY <1>6, <1>7, <1>8, <1>10, <1>11

\* A statement about a row: the row is true, or comes true with a later event, or is
\* excused; and what the reconcile had to mend is mended when it ends.
LEMMA WriteRowKeeps ==
    ASSUME MemberInv, WriteRow
    PROVE  MemberInv'
<1> USE DEF MemberInv
<1>1. /\ sql # <<>> /\ Head(sql).do # "read" /\ sql \in Seq(Statements)
      /\ UNCHANGED <<inGuild, up, cached, coding>> /\ up
    BY DEF WriteRow, MemberTypes, OnePass
<1>2. PICK run \in Statements : run = Head(sql)
    BY <1>1, RestIs
<1>3. PICK p \in Folk : run.who = {p}
    BY <1>1, <1>2, RestOwn DEF MemberTypes
<1>4. PICK rest \in Seq(Statements) : rest = Tail(sql)
    BY <1>1, RestIs
<1>5. (CHOOSE x \in Folk : x \in run.who) = p
    BY <1>3
<1>6. HeardLater(p) <=> Heard(rest, p)
    <2>1. HeardLater(p) <=> \E i \in 2..Len(sql) : About(sql[i], p)
        BY DEF HeardLater, About
    <2>2. ASSUME NEW i \in 2..Len(sql), About(sql[i], p)
          PROVE  Heard(rest, p)
        <3>1. i \in 1..Len(sql) /\ i # 1
            BY <1>1, RestIs
        <3>2. i - 1 \in 1..Len(rest) /\ rest[i - 1] = sql[i]
            BY <1>1, <1>4, <3>1, RestIs
        <3>3. QED
            BY <2>2, <3>2 DEF Heard
    <2>3. ASSUME NEW i \in 1..Len(rest), About(rest[i], p)
          PROVE  \E j \in 2..Len(sql) : About(sql[j], p)
        <3>1. i + 1 \in 1..Len(sql) /\ rest[i] = sql[i + 1]
            BY <1>1, <1>4, RestIs
        <3>2. i + 1 \in 2..Len(sql)
            BY <1>1, <3>1, RestIs
        <3>3. QED
            BY <2>3, <3>1, <3>2
    <2>4. QED
        BY <2>1, <2>2, <2>3 DEF Heard
<1>7. PICK own \in BOOLEAN, late \in BOOLEAN :
          /\ own <=> run.do = "correct"
          /\ late <=> IF own THEN (p \in memberIds) # (p \in inGuild)
                      ELSE run.do = "code" /\ p \notin inGuild
    <2>1. PICK own \in BOOLEAN : own <=> run.do = "correct"
        OBVIOUS
    <2>2. PICK late \in BOOLEAN : late <=> IF own THEN (p \in memberIds) # (p \in inGuild)
                                           ELSE run.do = "code" /\ p \notin inGuild
        OBVIOUS
    <2>3. QED
        BY <2>1, <2>2
<1>8. PICK bad \in SUBSET Folk : bad = IF late /\ ~Heard(rest, p) THEN {p} ELSE {}
    OBVIOUS
<1>9. /\ mark' = [mark EXCEPT ![p] = Written(run.do, p)]
      /\ IF own THEN Proceed(amiss)
         ELSE sql' = rest /\ UNCHANGED <<pass, memberIds, amiss>>
      /\ excused' = IF own /\ amiss = {} THEN (excused \union bad) \ (mending \ bad)
                    ELSE excused \union bad
      /\ mending' = IF own /\ amiss = {} THEN {} ELSE mending \ bad
    <2>1. bad = IF late /\ ~HeardLater(p) THEN {p} ELSE {}
        BY <1>6, <1>8
    <2>2. (run.do = "correct") = own
        BY <1>7
    <2>3. (IF own THEN (p \in memberIds) # (p \in inGuild)
           ELSE run.do = "code" /\ p \notin inGuild) = late
        BY <1>7
    <2>4. QED
        BY <1>2, <1>4, <1>5, <2>1, <2>2, <2>3 DEF WriteRow, passing
<1>10. /\ mark' \in [Folk -> {"none", "here", "left"}] /\ mark'[p] = Written(run.do, p)
       /\ \A q \in Folk : q # p => mark'[q] = mark[q]
    <2>1. Written(run.do, p) \in {"none", "here", "left"}
        BY DEF Written
    <2>2. QED
        BY <1>9, <2>1 DEF MemberTypes
\* What is written is true, or an event is still to come, or nobody could know.
<1>11. p \in bad \/ Heard(rest, p) \/ IsTrue(p, mark[p])'
    <2>1. CASE ~late
        <3>1. CASE run.do \in {"leave", "join"}
            <4>1. About(run, p) /\ LastIsTrue(sql, p, inGuild)
                BY <1>3, <3>1 DEF About, EventsAreTrue
            <4>2. Heard(rest, p) \/ (run.do = "join" <=> p \in inGuild)
                BY <1>1, <1>2, <1>4, <4>1, RestHas
            <4>3. QED
                BY <1>1, <1>10, <3>1, <4>2 DEF Written, IsTrue
        <3>2. CASE run.do = "code"
            BY <1>1, <1>7, <1>10, <2>1, <3>2 DEF Written, IsTrue
        <3>3. CASE run.do = "correct"
            BY <1>1, <1>7, <1>10, <2>1, <3>3 DEF Written, IsTrue
        <3>4. QED
            BY <1>1, <1>2, <3>1, <3>2, <3>3 DEF Statements
    <2>2. CASE late
        BY <1>8, <2>2
    <2>3. QED
        BY <2>1, <2>2
<1>12. \A q \in Folk : q # p /\ IsTrue(q, mark[q]) => IsTrue(q, mark[q])'
    BY <1>1, <1>10 DEF IsTrue
\* Only p's statement left the line.
<1>13. \A q \in Folk : /\ q # p => (Heard(rest, q) <=> Heard(sql, q))
                       /\ q # p => (Mends(rest, q) <=> Mends(sql, q))
                       /\ own => (Heard(rest, q) <=> Heard(sql, q))
                       /\ LastIsTrue(rest, q, inGuild)
    BY <1>1, <1>2, <1>3, <1>4, <1>7, RestHas DEF About, EventsAreTrue
<1>14. /\ OneOwn(rest) /\ Singles(rest) /\ (own => NoneOwn(rest))
       /\ (NoneOwn(sql) => NoneOwn(rest)) /\ (NoRead(sql) => NoRead(rest))
    BY <1>1, <1>2, <1>4, <1>7, RestOwn DEF OnePass, MemberTypes, OwnOf
\* Ahead of the read only a code runs, and the events are still to come.
<1>15. /\ (pass = "reading" => run.do = "code" /\ ~own /\ ReadWaits(rest))
       /\ (OnlyCodes(sql) => OnlyCodes(rest) /\ ~own)
       /\ (~own => pass' = pass /\ memberIds' = memberIds)
    <2>1. /\ pass = "reading" => run.do = "code" /\ ReadWaits(rest)
          /\ OnlyCodes(sql) => OnlyCodes(rest) /\ run.do = "code"
        BY <1>1, <1>2, <1>4, RestOwn DEF OnePass
    <2>2. QED
        BY <1>7, <1>9, <2>1
<1>16. /\ sql' \in Seq(Statements) /\ Singles(sql') /\ OneOwn(sql')
       /\ amiss' \in SUBSET Folk /\ memberIds' \in SUBSET Folk
       /\ pass' \in {NoPass, "reading", "writing"}
       /\ (pass' = NoPass => NoneOwn(sql')) /\ (pass' = "writing" => NoRead(sql'))
       /\ own => pass' # "reading"
       /\ own => (pass' = NoPass <=> amiss = {})
       /\ \A q \in Folk : /\ Heard(sql', q) <=> Heard(rest, q)
                          /\ q \in amiss => q \in amiss' \/ Mends(sql', q)
                          /\ LastIsTrue(sql', q, inGuild)
    <2>1. CASE own
        <3>1. OwnOf(Head(sql)) /\ Proceed(amiss) /\ amiss \in SUBSET Folk
            BY <1>2, <1>7, <1>9, <2>1 DEF OwnOf, MemberTypes
        <3>2. QED
            BY <1>1, <1>4, <1>13, <2>1, <3>1, ProceedIs DEF NoPass
    <2>2. CASE ~own
        <3>1. sql' = rest /\ UNCHANGED <<pass, memberIds, amiss>>
            BY <1>9, <2>2
        <3>2. QED
            BY <1>13, <1>14, <1>15, <2>2, <3>1 DEF OnePass, MemberTypes
    <2>3. QED
        BY <2>1, <2>2
<1>17. ~own => sql' = rest
    BY <1>9
<1>18. own => \A q \in Folk : q # p => ~Mends(rest, q)
    BY <1>14 DEF NoneOwn, Mends, OwnOf
<1>19. MemberTypes'
    <2>1. excused' \in SUBSET Folk /\ mending' \in SUBSET Folk
        BY <1>9 DEF MemberTypes
    <2>2. QED
        BY <1>1, <1>10, <1>16, <2>1 DEF MemberTypes
<1>20. OnePass'
    <2>1. pass' = NoPass => mending' = {}
        <3>1. CASE own
            BY <1>9, <1>16, <3>1
        <3>2. CASE ~own
            BY <1>9, <1>15, <3>2 DEF OnePass
        <3>3. QED
            BY <3>1, <3>2
    <2>2. pass' = "reading" => ReadWaits(sql')
        BY <1>15, <1>16, <1>17
    <2>3. ~cached => OnlyCodes(sql') /\ pass' = NoPass
        BY <1>15, <1>17 DEF OnePass
    <2>4. QED
        BY <1>1, <1>16, <2>1, <2>2, <2>3 DEF OnePass
<1>21. EventsAreTrue' /\ SnapshotHolds'
    <2>1. EventsAreTrue'
        BY <1>1, <1>16 DEF EventsAreTrue
    <2>2. ASSUME pass' = "reading"
          PROVE  /\ pass = "reading" /\ memberIds' = memberIds
                 /\ \A q \in Folk : Heard(sql', q) <=> Heard(sql, q)
        <3>1. ~own /\ pass = "reading" /\ memberIds' = memberIds
            BY <1>15, <1>16, <2>2
        <3>2. \A q \in Folk : ~About(run, q)
            BY <1>15, <3>1 DEF About
        <3>3. QED
            BY <1>1, <1>2, <1>4, <1>17, <3>1, <3>2, RestHas
    <2>3. SnapshotHolds'
        BY <1>1, <2>2 DEF SnapshotHolds
    <2>4. QED
        BY <2>1, <2>3
\* What the reconcile mends is mended, or still to be.
<1>22. ASSUME NEW q \in mending \ bad
       PROVE  \/ pass' = "reading"
              \/ Heard(rest, q) \/ IsTrue(q, mark[q])'
              \/ q \in amiss \/ (~own /\ Mends(rest, q))
    <2>1. q \in Folk
        BY DEF MemberTypes
    <2>2. CASE q = p
        BY <1>11, <2>2
    <2>3. CASE q # p
        <3>1. CASE pass = "reading"
            BY <1>15, <3>1
        <3>2. CASE pass # "reading"
            BY <1>12, <1>13, <1>18, <2>1, <2>3, <3>2 DEF MendsAreDone
        <3>3. QED
            BY <3>1, <3>2
    <2>4. QED
        BY <2>2, <2>3
<1>23. MendsAreDone'
    <2>1. CASE own /\ amiss = {}
        BY <1>9, <2>1 DEF MendsAreDone
    <2>2. CASE ~(own /\ amiss = {})
        <3>1. mending' = mending \ bad /\ mending' \subseteq Folk
            BY <1>9, <2>2 DEF MemberTypes
        <3>2. \A q \in mending' : \/ pass' = "reading" \/ q \in amiss' \/ Mends(sql', q)
                                  \/ Heard(sql', q) \/ IsTrue(q, mark[q])'
            BY <1>16, <1>17, <1>22, <3>1
        <3>3. QED
            BY <3>2 DEF MendsAreDone
    <2>3. QED
        BY <2>1, <2>2
<1>24. RowsAreTrue'
    <2> SUFFICES ASSUME NEW q \in Folk, q \notin excused'
                 PROVE  Heard(sql', q) \/ IsTrue(q, mark[q])'
        BY DEF RowsAreTrue
    <2>1. q \notin bad
        BY <1>9
    <2>2. CASE q = p
        BY <1>11, <1>16, <2>1, <2>2
    <2>3. CASE q # p /\ q \notin excused
        BY <1>12, <1>13, <1>16, <2>3 DEF RowsAreTrue
    <2>4. CASE q # p /\ q \in excused
        <3>1. own /\ amiss = {} /\ q \in mending \ bad
            BY <1>9, <2>1, <2>4
        <3>2. QED
            BY <1>16, <1>22, <3>1
    <2>5. QED
        BY <2>2, <2>3, <2>4
<1>25. QED
    BY <1>19, <1>20, <1>21, <1>23, <1>24

\* A statement that fails excuses its row; one of the reconcile ends it.
LEMMA StatementFailsKeeps ==
    ASSUME MemberInv, StatementFails
    PROVE  MemberInv'
<1> USE DEF MemberInv
<1>1. /\ sql # <<>> /\ sql \in Seq(Statements)
      /\ UNCHANGED <<inGuild, up, cached, mark, coding>> /\ up
    BY DEF StatementFails, MemberTypes, OnePass
<1>2. PICK run \in Statements : run = Head(sql)
    BY <1>1, RestIs
<1>3. PICK rest \in Seq(Statements) : rest = Tail(sql) /\ sql' = rest
    BY <1>1, RestIs DEF StatementFails
<1>4. /\ OneOwn(rest) /\ Singles(rest) /\ (OwnOf(run) => NoneOwn(rest))
      /\ (NoneOwn(sql) => NoneOwn(rest)) /\ (NoRead(sql) => NoRead(rest))
    BY <1>1, <1>2, <1>3, RestOwn DEF OnePass, MemberTypes
<1>5. \A q \in Folk : LastIsTrue(rest, q, inGuild)
    BY <1>1, <1>3, RestHas DEF EventsAreTrue
<1>6. OnlyCodes(sql) => OnlyCodes(rest) /\ run.do = "code"
    BY <1>1, <1>2, <1>3, RestOwn
<1>7. \A q \in Folk : IsTrue(q, mark[q])' <=> IsTrue(q, mark[q])
    BY <1>1 DEF IsTrue
<1>8. CASE OwnOf(run)
    <2>1. /\ pass' = NoPass /\ memberIds' = {} /\ amiss' = {} /\ excused' = excused /\ mending' = {}
        BY <1>2, <1>8 DEF StatementFails, OwnOf
    <2>2. \A q \in Folk : Heard(rest, q) <=> Heard(sql, q)
        BY <1>1, <1>2, <1>3, <1>8, RestHas DEF About, OwnOf
    <2>3. MemberTypes' /\ OnePass'
        BY <1>1, <1>3, <1>4, <1>8, <1>6, <2>1 DEF MemberTypes, OnePass, NoPass
    <2>4. EventsAreTrue' /\ SnapshotHolds' /\ MendsAreDone'
        BY <1>1, <1>3, <1>5, <2>1 DEF EventsAreTrue, SnapshotHolds, MendsAreDone, NoPass
    <2>5. RowsAreTrue'
        BY <1>3, <1>7, <2>1, <2>2 DEF RowsAreTrue
    <2>6. QED
        BY <2>3, <2>4, <2>5
<1>9. CASE ~OwnOf(run)
    <2>1. /\ excused' = excused \union run.who /\ mending' = mending \ run.who
          /\ UNCHANGED <<pass, memberIds, amiss>>
        BY <1>2, <1>9 DEF StatementFails, OwnOf, Excuse, passing
    <2>2. \A q \in Folk : q \notin run.who =>
              /\ Heard(rest, q) <=> Heard(sql, q)
              /\ Mends(rest, q) <=> Mends(sql, q)
        BY <1>1, <1>2, <1>3, RestHas DEF About
    <2>3. /\ run.who \in SUBSET Folk
          /\ pass = "reading" => ReadWaits(rest) /\ \A q \in Folk : ~About(run, q)
        <3>1. pass = "reading" => ReadWaits(rest) /\ run.do = "code"
            BY <1>1, <1>2, <1>3, <1>9, RestOwn DEF OnePass, OwnOf
        <3>2. QED
            BY <1>2, <3>1 DEF Statements, About
    <2>4. MemberTypes'
        BY <1>1, <1>3, <1>4, <2>1, <2>3 DEF MemberTypes
    <2>5. OnePass'
        BY <1>1, <1>3, <1>4, <1>6, <2>1, <2>3 DEF OnePass
    <2>6. EventsAreTrue' /\ SnapshotHolds'
        <3>1. EventsAreTrue'
            BY <1>1, <1>3, <1>5 DEF EventsAreTrue
        <3>2. pass = "reading" => \A q \in Folk : Heard(rest, q) <=> Heard(sql, q)
            BY <1>1, <1>2, <1>3, <2>3, RestHas
        <3>3. SnapshotHolds'
            BY <1>1, <1>3, <2>1, <3>2 DEF SnapshotHolds
        <3>4. QED
            BY <3>1, <3>3
    <2>7. RowsAreTrue'
        BY <1>3, <1>7, <2>1, <2>2 DEF RowsAreTrue
    <2>8. MendsAreDone'
        <3>1. mending' \subseteq Folk /\ \A q \in mending' : q \in mending /\ q \notin run.who
            BY <2>1 DEF MemberTypes
        <3>2. QED
            BY <1>3, <1>7, <2>1, <2>2, <2>3, <3>1 DEF MendsAreDone
    <2>9. QED
        BY <2>4, <2>5, <2>6, <2>7, <2>8
<1>10. QED
    BY <1>8, <1>9

\* What waited when the bot went down is excused.
LEMMA GoesDownKeeps ==
    ASSUME MemberInv, GoesDown
    PROVE  MemberInv'
<1> USE DEF MemberInv
<1>1. /\ ~up' /\ ~cached' /\ sql' = <<>> /\ coding' = {} /\ pass' = NoPass /\ memberIds' = {} /\ amiss' = {}
      /\ excused' = excused \union UNION {sql[i].who : i \in DOMAIN sql}
      /\ mending' = {} /\ UNCHANGED <<inGuild, mark>>
    BY DEF GoesDown
<1>2. DOMAIN sql = 1..Len(sql) /\ \A i \in 1..Len(sql) : sql[i] \in Statements
    BY LenProperties, ElementOfSeq DEF MemberTypes
<1>3. UNION {sql[i].who : i \in DOMAIN sql} \in SUBSET Folk
    BY <1>2 DEF Statements
<1>4. \A q \in Folk : Heard(sql, q) => q \in excused'
    BY <1>1, <1>2 DEF Heard, About
<1>5. MemberTypes'
    BY <1>1, <1>3, NothingWaits DEF MemberTypes
<1>6. OnePass'
    BY <1>1, NothingWaits DEF OnePass, NoPass
<1>7. EventsAreTrue' /\ SnapshotHolds' /\ MendsAreDone'
    BY <1>1, NothingWaits DEF EventsAreTrue, SnapshotHolds, MendsAreDone, NoPass
<1>8. RowsAreTrue'
    BY <1>1, <1>4 DEF RowsAreTrue, IsTrue
<1>9. QED
    BY <1>5, <1>6, <1>7, <1>8

\* The bot is back, or its guilds have come with no reconcile: nothing else changes.
LEMMA ComingBackKeeps ==
    ASSUME MemberInv, Connects \/ CacheFills
    PROVE  MemberInv'
<1>1. /\ up' /\ (cached' \/ ~cached)
      /\ UNCHANGED <<inGuild, mark, sql, coding, pass, memberIds, amiss, excused, mending>>
    BY DEF Connects, CacheFills, passing
<1>2. QED
    BY <1>1 DEF MemberInv, MemberTypes, OnePass, EventsAreTrue, SnapshotHolds, RowsAreTrue,
                MendsAreDone, IsTrue

\* The guilds have come: the members as they are now are the snapshot, read after the
\* codes that wait already.
LEMMA OnReadyKeeps ==
    ASSUME MemberInv, OnReady
    PROVE  MemberInv'
<1> USE DEF MemberInv
<1>1. /\ up' /\ cached' /\ UNCHANGED <<inGuild, mark, coding, excused>>
      /\ OnlyCodes(sql) /\ pass = NoPass
    BY DEF OnReady, OnePass
<1>2. /\ pass' = "reading" /\ memberIds' = inGuild /\ amiss' = {}
      /\ mending' = excused /\ Enqueue("read", {})
    BY DEF OnReady
<1>3. QED
    <2>1. PICK e \in Statements : e.do = "read" /\ sql' = Append(sql, e)
        <3>1. PICK who \in SUBSET Folk : who = {}
            OBVIOUS
        <3>2. [do |-> "read", who |-> who] \in Statements
            BY DEF Statements
        <3>3. QED
            BY <1>2, <3>1, <3>2 DEF Enqueue
    <2>2. sql \in Seq(Statements) /\ \A q \in Folk : ~About(e, q)
        BY <2>1 DEF MemberTypes, About
    <2>3. /\ sql' \in Seq(Statements) /\ sql' # <<>> /\ Singles(sql') /\ OneOwn(sql')
        BY <1>1, <2>1, <2>2, MoreIs, MoreOwn DEF MemberTypes, OnePass
    <2>4. ReadWaits(sql')
        BY <1>1, <2>1, <2>2, MoreOwn
    <2>5. \A q \in Folk : (Heard(sql', q) <=> Heard(sql, q)) /\ LastIsTrue(sql', q, inGuild)
        BY <2>1, <2>2, MoreHas DEF EventsAreTrue
    <2>6. MemberTypes'
        BY <1>1, <1>2, <2>3 DEF MemberTypes
    <2>7. OnePass'
        BY <1>1, <1>2, <2>3, <2>4 DEF OnePass, NoPass
    <2>8. EventsAreTrue' /\ SnapshotHolds' /\ MendsAreDone'
        BY <1>1, <1>2, <2>5 DEF EventsAreTrue, SnapshotHolds, MendsAreDone
    <2>9. RowsAreTrue'
        BY <1>1, <2>5 DEF RowsAreTrue, IsTrue
    <2>10. QED
        BY <2>6, <2>7, <2>8, <2>9

\* At the start nobody has a row.
LEMMA MembersStart ==
    ASSUME MembershipInit
    PROVE  MemberInv
<1>1. MemberTypes
    BY NothingWaits DEF MembershipInit, MemberTypes
<1>2. OnePass
    BY NothingWaits DEF MembershipInit, OnePass, NoPass
<1>3. EventsAreTrue /\ SnapshotHolds /\ RowsAreTrue /\ MendsAreDone
    BY NothingWaits DEF MembershipInit, EventsAreTrue, SnapshotHolds, RowsAreTrue, MendsAreDone,
                        IsTrue, NoPass
<1>4. QED
    BY <1>1, <1>2, <1>3 DEF MemberInv

\* Every step keeps the invariant.
LEMMA MembersStep ==
    ASSUME MemberInv, [MembershipNext]_memberVars
    PROVE  MemberInv'
<1>1. ASSUME MembershipNext
      PROVE  MemberInv'
    BY <1>1, MovesKeeps, CodesKeep, ReadRowsKeepsThem, WriteRowKeeps, StatementFailsKeeps,
       GoesDownKeeps, ComingBackKeeps, OnReadyKeeps DEF MembershipNext
<1>2. ASSUME UNCHANGED memberVars
      PROVE  MemberInv'
    BY <1>2 DEF memberVars, passing, MemberInv, MemberTypes, OnePass, EventsAreTrue,
                SnapshotHolds, RowsAreTrue, MendsAreDone, IsTrue
<1>3. QED
    BY <1>1, <1>2

\* With nothing under way no event is to come.
LEMMA MembersShow ==
    ASSUME MemberInv
    PROVE  MarksAreKept
BY NothingWaits DEF MemberInv, RowsAreTrue, MarksAreKept

\* PokedexCog.on_member_remove, on_member_join, on_ready and TradePlayerStore.reconcile: with
\* nothing under way the site knows who is a member, but for a move the bot could not hear of,
\* a statement that failed, and a row last written by a snapshot, or by a check of is_member,
\* that was not true of its player; and until the next reconcile that runs to its end.
THEOREM MembersAreMarked == MembershipSpec => []MarksAreKept
<1>1. MembershipInit => MemberInv
    BY MembersStart
<1>2. MemberInv /\ [MembershipNext]_memberVars => MemberInv'
    BY MembersStep
<1>3. MemberInv => MarksAreKept
    BY MembersShow
<1>4. QED
    BY <1>1, <1>2, <1>3, PTL DEF MembershipSpec

HIDE MembershipAssumption DEF MembershipAssumption

-------------------------------------------------------------------------------
\* The components run beside each other, and none touches what is another's.
LEMMA CommunityStep ==
    ASSUME [CommunityNext]_communityVars
    PROVE  [MembershipNext]_memberVars /\ [TrapNext]_trapVars
BY DEF CommunityNext, communityVars

\* Members and the trap side by side: the marks say who is a member as far as the bot can know,
\* and a ban that outlasts its handler was reported, or is one that nothing was said of.
THEOREM MembersStayKept == CommunitySpec => []MembersAreKept
<1>1. CommunityInit => MemberInv /\ TrapInv
    BY MembersStart, TrapStarts DEF CommunityInit
<1>2. MemberInv /\ TrapInv /\ [CommunityNext]_communityVars => MemberInv' /\ TrapInv'
    BY CommunityStep, MembersStep, TrapStep
<1>3. MemberInv /\ TrapInv => MembersAreKept
    BY MembersShow, TrapShows DEF MembersAreKept
<1>4. QED
    BY <1>1, <1>2, <1>3, PTL DEF CommunitySpec
===============================================================================
