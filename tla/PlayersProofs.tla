---------------------------- MODULE PlayersProofs ----------------------------
(***************************************************************************)
(* The safety properties of what players are told and asked, for every     *)
(* value of their constants: the trade notices, the requests for the shiny *)
(* channels and who may see them, the shiny alerts and the rules of        *)
(* Poracle.  Each section has the inductive invariant of one               *)
(* specification, a lemma for each step that it survives it, and the       *)
(* theorem.                                                                *)
(***************************************************************************)
EXTENDS TradeNotices, ShinyRequests, ShinyAccess, ShinyAlerts, PoracleRules,
        FunctionTheorems, FiniteSetTheorems, SequenceTheorems, WellFoundedInduction, TLAPS

-------------------------------------------------------------------------------
\* A set of naturals has a least element ...
LEMMA HasLeast ==
    ASSUME NEW T, T \subseteq Nat, T # {}
    PROVE  \E x \in T : \A y \in T : x <= y
<1> DEFINE R == OpToRel(<, Nat)
<1>1. IsWellFoundedOn(R, Nat)
    BY NatLessThanWellFounded
<1>2. PICK x \in T : \A y \in T : ~(<<y, x>> \in R)
    <2> HIDE DEF R
    <2>1. QED
        BY <1>1, WFMin
<1>3. \A y \in T : ~(y < x)
    BY <1>2 DEF OpToRel
<1> HIDE DEF R
<1>4. \A y \in T : x <= y
    BY <1>3
<1>5. QED
    BY <1>4

\* ... and one with a bound has a greatest.
LEMMA HasNewest ==
    ASSUME NEW N \in Nat, NEW S, S \subseteq 0..N, S # {}
    PROVE  \E x \in S : \A y \in S : y <= x
<1> DEFINE T == {N - x : x \in S}
<1>1. T \subseteq Nat
    <2>1. \A x \in S : N - x \in Nat
        OBVIOUS
    <2>2. QED
        BY <2>1
<1>2. T # {}
    OBVIOUS
<1>3. PICK t \in T : \A y \in T : t <= y
    BY <1>1, <1>2, HasLeast
<1>4. PICK x \in S : t = N - x
    BY <1>3
<1>5. \A y \in S : N - x <= N - y
    BY <1>3, <1>4
<1>6. QED
    BY <1>5

-------------------------------------------------------------------------------
USE TradeNoticesAssumption DEF TradeNoticesAssumption

\* TradeNotices.  One tick is one record.
Batches == [step : {"idle", "send", "record", "advance"}, cutoff : Nat,
            rows : SUBSET Pairs, over : BOOLEAN, to : Nat]

TradeTypes ==
    /\ sender \in Senders
    /\ clock \in Nat /\ stamp \in [Pairs -> Nat] /\ watermark \in Nat /\ origin \in Nat
    /\ entry \in [Pairs -> {"absent", "open", "in", "late", "gone"}]
    /\ batch \in Batches
    /\ notices \in SUBSET Pairs /\ closed \in SUBSET Pairs
    /\ named \in [Pairs -> Nat] /\ mishaps \in Nat

\* Watermark and cutoff stay behind the clock by the time a transaction may take.
Clocks ==
    /\ clock >= Start
    /\ watermark + Settle[sender] <= clock
    /\ origin <= watermark
    /\ batch.step # "idle" => /\ batch.cutoff > 0
                              /\ watermark <= batch.cutoff
                              /\ batch.cutoff + Settle[sender] <= clock
    /\ \A p \in Pairs : stamp[p] <= clock
    /\ \A p \in Pairs : entry[p] = "absent" => named[p] = 0

\* The recipient has had the message, or refused it.
HasIt(p) == named[p] > 0 \/ p \in closed

\* What is recorded was told; what is being recorded as well.
ToldFirst ==
    /\ \A p \in notices : HasIt(p)
    /\ sender = "digest" => notices = {}
    /\ batch.step = "record" => sender # "digest" /\ \A p \in Group : HasIt(p)

\* A batch holds whatever a move of its watermark to the cutoff would pass over.
BatchHolds ==
    /\ \A p \in batch.rows : /\ watermark < stamp[p] /\ stamp[p] <= batch.cutoff
                             /\ p \notin notices /\ entry[p] # "absent"
    /\ batch.step \in {"idle", "advance"} => batch.rows = {}
    /\ batch.step = "advance" => ~batch.over
    /\ batch.over => sender = "dm"
    /\ batch.step \in {"send", "record"} => watermark # 0
    /\ batch.step # "idle" /\ ~batch.over /\ watermark # 0 =>
          \A p \in Pairs : entry[p] = "in" /\ watermark < stamp[p] /\ stamp[p] <= batch.cutoff
                             => HasIt(p) \/ p \in batch.rows

\* A message that may go out again went out before only when something broke.
Repeats ==
    \A p \in Pairs :
        /\ named[p] <= 1 + mishaps
        /\ sender # "digest" /\ p \notin notices /\ ~(batch.step = "record" /\ p \in Group) =>
              named[p] <= mishaps
        /\ sender = "digest" /\ watermark < stamp[p]
                /\ ~(batch.step = "advance" /\ stamp[p] <= batch.cutoff) =>
              named[p] <= mishaps

TradeInv == TradeTypes /\ Clocks /\ ToldFirst /\ BatchHolds /\ Repeats /\ NoTradeSkipped

\* How long each sender lets a confirmation settle, and where time starts.
LEMMA SettleIs ==
    ASSUME TradeTypes
    PROVE  /\ Settle[sender] \in Nat
           /\ sender = "dm" => Settle[sender] = 2
           /\ sender = "announcer" => Settle[sender] = 3
           /\ sender = "digest" => Settle[sender] = 0
           /\ Start = 4
BY DEF TradeTypes, Settle, Senders, DMSettle, AnnounceSettle, Start

\* What a batch is made of.
LEMMA BatchIs ==
    ASSUME TradeTypes
    PROVE  /\ batch \in Batches /\ batch.rows \in SUBSET Pairs /\ batch.cutoff \in Nat
           /\ batch.step \in {"idle", "send", "record", "advance"}
BY DEF TradeTypes, Batches

\* Between ticks there is no batch.
LEMMA IdleIs ==
    /\ Idle \in Batches /\ Idle.step = "idle" /\ Idle.rows = {} /\ ~Idle.over
BY DEF Idle, Batches

\* The first recipients are all of them when they are not too many, and never none.
LEMMA ServedAre ==
    ASSUME NEW R \in SUBSET Pairs
    PROVE  /\ Served(R) \subseteq R
           /\ ~(Cardinality(Whose(R)) > Recipients) => Served(R) = R
           /\ Served(R) = {} => R = {}
<1>1. IsFiniteSet(Whose(R)) /\ Whose(R) \subseteq Nat
    <2>1. IsFiniteSet(R) /\ IsFiniteSet(Pairs)
        BY FS_Subset
    <2>2. IsFiniteSet(Whose(R))
        <3> DEFINE f == [p \in R |-> To[p]]
        <3>1. f \in Surjection(R, Whose(R))
            BY DEF Surjection, Whose
        <3>2. QED
            BY <2>1, <3>1, FS_Surjection
    <2>3. QED
        BY <2>2 DEF Whose
<1>2. Cardinality(Whose(R)) \in Nat
    BY <1>1, FS_CardinalityType
<1>3. ASSUME ~(Cardinality(Whose(R)) > Recipients), NEW p \in R
      PROVE  p \in Served(R)
    <2> DEFINE B == {q \in Whose(R) : q < To[p]}
    <2>1. To[p] \in Whose(R) /\ ~(To[p] < To[p]) /\ To[p] \in Nat
        BY DEF Whose
    <2>2. B \subseteq Whose(R) /\ B # Whose(R)
        BY <2>1
    <2>3. Cardinality(B) < Cardinality(Whose(R)) /\ Cardinality(B) \in Nat
        <3>1. IsFiniteSet(B)
            BY <1>1, <2>2, FS_Subset
        <3>2. Cardinality(B) \in Nat
            BY <3>1, FS_CardinalityType
        <3>3. Cardinality(B) < Cardinality(Whose(R))
            BY <1>1, <1>2, <2>2, <3>1, <3>2, FS_Subset
        <3>4. QED
            BY <3>2, <3>3
    <2>4. Cardinality(B) < Recipients
        BY <1>2, <1>3, <2>3
    <2>5. QED
        BY <2>4 DEF Served
<1>4. ASSUME R # {}
      PROVE  Served(R) # {}
    <2>1. Whose(R) # {}
        BY <1>4 DEF Whose
    <2>2. PICK r \in Whose(R) : \A y \in Whose(R) : r <= y
        BY <1>1, <2>1, HasLeast
    <2>3. PICK p \in R : To[p] = r
        BY DEF Whose
    <2>4. {q \in Whose(R) : q < To[p]} = {}
        BY <1>1, <2>2, <2>3
    <2>5. Cardinality({q \in Whose(R) : q < To[p]}) = 0
        BY <2>4, FS_EmptySet
    <2>6. p \in Served(R)
        BY <2>5 DEF Served
    <2>7. QED
        BY <2>6
<1>5. QED
    BY <1>3, <1>4 DEF Served

\* A batch that is read: no row that its cutoff passes over is left out, unless others wait.
LEMMA ReadKeeps ==
    ASSUME TradeInv, batch.step = "idle",
           NEW cutoff \in Nat, cutoff + Settle[sender] = clock,
           NEW rows, NEW over \in BOOLEAN,
           rows \subseteq {p \in Pairs : Between(p, cutoff) /\ p \notin notices},
           ~over => rows = {p \in Pairs : Between(p, cutoff) /\ p \notin notices},
           rows = {} => ~over, over => sender = "dm",
           Begins("send", cutoff, rows, over),
           UNCHANGED <<sender, clock, site, watermark, notices, origin, told, raised, mishaps>>
    PROVE  TradeInv'
<1> USE DEF TradeInv
<1>1. UNCHANGED <<sender, clock, entry, stamp, watermark, notices, origin, named, closed, mishaps>>
    BY DEF site, told
<1>2. /\ cutoff > 0 /\ watermark <= cutoff
      /\ watermark \in Nat /\ clock \in Nat /\ Settle[sender] \in Nat
    <2>1. /\ watermark \in Nat /\ clock \in Nat /\ Settle[sender] \in Nat
          /\ Settle[sender] <= 3 /\ clock >= 4 /\ watermark + Settle[sender] <= clock
        <3>1. sender \in Senders /\ watermark \in Nat /\ clock \in Nat
            BY DEF TradeTypes
        <3>2. TradeTypes /\ clock >= Start /\ watermark + Settle[sender] <= clock
            BY DEF Clocks
        <3>3. QED
            BY <3>1, <3>2, SettleIs DEF Senders
    <2>2. QED
        BY <2>1
<1>3. /\ batch' \in Batches /\ batch'.cutoff = cutoff
      /\ watermark = 0 => batch'.step = "advance" /\ batch'.rows = {} /\ ~batch'.over
      /\ watermark # 0 => /\ batch'.rows = rows /\ batch'.over = over
                          /\ batch'.step = IF rows = {} THEN "advance" ELSE "send"
    BY DEF Begins, Idle, Batches
<1>4. TradeTypes'
    BY <1>1, <1>3 DEF TradeTypes
<1>5. Clocks'
    BY <1>1, <1>2, <1>3 DEF Clocks
<1>6. ToldFirst'
    BY <1>1, <1>3 DEF ToldFirst, HasIt
<1>7. BatchHolds'
    <2>1. CASE watermark = 0
        BY <1>1, <1>3, <2>1 DEF BatchHolds
    <2>2. CASE watermark # 0
        <3>1. \A p \in rows : /\ watermark < stamp[p] /\ stamp[p] <= cutoff
                              /\ p \notin notices /\ entry[p] # "absent"
            BY DEF Between, Visible
        <3>2. ~over => \A p \in Pairs : entry[p] = "in" /\ watermark < stamp[p]
                                          /\ stamp[p] <= cutoff => HasIt(p) \/ p \in rows
            BY DEF Between, Visible, ToldFirst
        <3>3. over => sender = "dm"
            OBVIOUS
        <3>4. QED
            BY <1>1, <1>3, <2>2, <3>1, <3>2, <3>3 DEF BatchHolds, HasIt
    <2>3. QED
        BY <2>1, <2>2
<1>8. Repeats'
    BY <1>1, <1>3 DEF Repeats
<1>9. NoTradeSkipped'
    BY <1>1 DEF NoTradeSkipped, Settled
<1>10. QED
    BY <1>4, <1>5, <1>6, <1>7, <1>8, <1>9

\* The three readers take up what is past the watermark and has settled.
LEMMA ReadsKeepInv ==
    ASSUME TradeInv, ReadMutuals \/ ReadConnections \/ ReadAdditions
    PROVE  TradeInv'
<1> USE DEF TradeInv
<1>1. clock \in Nat /\ clock >= 4
    BY SettleIs DEF TradeTypes, Clocks
<1>2. CASE ReadMutuals
    <2> DEFINE found == NewMutuals(clock - DMSettle)
    <2>1. found = {p \in Pairs : Between(p, clock - DMSettle) /\ p \notin notices}
        BY DEF NewMutuals
    <2>2. /\ sender = "dm" /\ batch.step = "idle"
          /\ Begins("send", clock - DMSettle, Served(found), Cardinality(Whose(found)) > Recipients)
          /\ UNCHANGED <<sender, clock, site, watermark, notices, origin, told, raised, mishaps>>
        BY <1>2 DEF ReadMutuals
    <2>3. clock - DMSettle \in Nat /\ clock - DMSettle + Settle[sender] = clock
        BY <1>1, <2>2, SettleIs DEF DMSettle
    <2>4. found \in SUBSET Pairs
        BY <2>1
    <2> HIDE DEF found
    <2>5. /\ Served(found) \subseteq found
          /\ ~(Cardinality(Whose(found)) > Recipients) => Served(found) = found
          /\ Served(found) = {} => ~(Cardinality(Whose(found)) > Recipients)
        <3>1. Cardinality(Whose({})) = 0
            <4>1. Whose({}) = {}
                BY DEF Whose
            <4>2. QED
                BY <4>1, FS_EmptySet
        <3>2. QED
            BY <2>4, <3>1, ServedAre
    <2>6. (Cardinality(Whose(found)) > Recipients) \in BOOLEAN
        OBVIOUS
    <2>7. QED
        BY <2>1, <2>2, <2>3, <2>5, <2>6, ReadKeeps
<1>3. CASE ReadConnections
    <2>1. clock - AnnounceSettle \in Nat /\ clock - AnnounceSettle + Settle[sender] = clock
        BY <1>1, <1>3, SettleIs DEF AnnounceSettle, ReadConnections
    <2>2. Connections(clock - AnnounceSettle)
            = {p \in Pairs : Between(p, clock - AnnounceSettle) /\ p \notin notices}
        BY DEF Connections
    <2>3. /\ batch.step = "idle"
          /\ Begins("send", clock - AnnounceSettle, Connections(clock - AnnounceSettle), FALSE)
          /\ UNCHANGED <<sender, clock, site, watermark, notices, origin, told, raised, mishaps>>
        BY <1>3 DEF ReadConnections
    <2>4. QED
        BY <2>1, <2>2, <2>3, ReadKeeps
<1>4. CASE ReadAdditions
    <2>1. clock + Settle[sender] = clock
        BY <1>1, <1>4, SettleIs DEF ReadAdditions
    <2>2. Additions(clock) = {p \in Pairs : Between(p, clock) /\ p \notin notices}
        BY <1>4 DEF Additions, ToldFirst, ReadAdditions
    <2>3. /\ batch.step = "idle"
          /\ Begins("send", clock, Additions(clock), FALSE)
          /\ UNCHANGED <<sender, clock, site, watermark, notices, origin, told, raised, mishaps>>
        BY <1>4 DEF ReadAdditions
    <2>4. QED
        BY <1>1, <2>1, <2>2, <2>3, ReadKeeps
<1>5. QED
    BY <1>2, <1>3, <1>4

\* The site's and the clock's steps change nothing that was told.
LEMMA SiteKeeps ==
    ASSUME TradeInv,
           \/ Passes
           \/ \E p \in Pairs : Adds(p) \/ Commits(p) \/ Withdraws(p)
    PROVE  TradeInv'
<1> USE DEF TradeInv
<1>1. /\ UNCHANGED <<sender, watermark, notices, batch, origin, named, closed, mishaps>>
      /\ clock \in Nat /\ clock' \in Nat /\ clock' >= clock
    BY DEF Passes, Adds, Commits, Withdraws, told, site, TradeTypes
<1>2. TradeTypes'
    <2>1. entry' \in [Pairs -> {"absent", "open", "in", "late", "gone"}] /\ stamp' \in [Pairs -> Nat]
        BY DEF Passes, Adds, Commits, Withdraws, site, TradeTypes
    <2>2. QED
        BY <1>1, <2>1 DEF TradeTypes
\* Only an absent pair gets a stamp, and it is the clock's time.
<1>3. \A p \in Pairs :
          /\ stamp'[p] = stamp[p] \/ (entry[p] = "absent" /\ entry'[p] = "open" /\ stamp'[p] = clock)
          /\ entry'[p] = "absent" => entry[p] = "absent"
          /\ entry[p] # "absent" => entry'[p] # "absent"
    BY DEF Passes, Adds, Commits, Withdraws, site, TradeTypes
\* Who comes in does so before a cutoff may pass it.
<1>4. \A p \in Pairs : entry'[p] = "in" =>
          \/ entry[p] = "in" /\ stamp'[p] = stamp[p]
          \/ clock < stamp[p] + Settle[sender] /\ stamp'[p] = stamp[p] /\ clock' = clock
    BY DEF Passes, Adds, Commits, Withdraws, site, TradeTypes
<1>5. Settle[sender] \in Nat /\ sender' = sender /\ Settle[sender]' = Settle[sender]
    BY <1>1, SettleIs
<1>6. watermark \in Nat /\ origin \in Nat /\ stamp \in [Pairs -> Nat] /\ stamp' \in [Pairs -> Nat]
      /\ named \in [Pairs -> Nat] /\ mishaps \in Nat /\ batch.cutoff \in Nat
    BY <1>2, BatchIs DEF TradeTypes
<1>7. Clocks'
    <2>1. clock' >= Start
        BY <1>1, SettleIs DEF Clocks
    <2>2. \A p \in Pairs : stamp'[p] <= clock'
        BY <1>1, <1>3, <1>6 DEF Clocks
    <2>3. \A p \in Pairs : entry'[p] = "absent" => named'[p] = 0
        BY <1>1, <1>3 DEF Clocks
    <2>4. watermark' + Settle[sender]' <= clock'
        BY <1>1, <1>5, <1>6 DEF Clocks
    <2>5. batch'.step # "idle" => /\ batch'.cutoff > 0 /\ watermark' <= batch'.cutoff
                                  /\ batch'.cutoff + Settle[sender]' <= clock'
        BY <1>1, <1>5, <1>6 DEF Clocks
    <2>6. QED
        BY <1>1, <2>1, <2>2, <2>3, <2>4, <2>5 DEF Clocks
<1>8. ToldFirst'
    BY <1>1 DEF ToldFirst, HasIt, Group
\* Who comes in is younger than the cutoff, and so than the watermark.
<1>9. \A p \in Pairs : entry'[p] = "in" =>
          \/ entry[p] = "in" /\ stamp'[p] = stamp[p]
          \/ watermark < stamp'[p] /\ (batch.step # "idle" => batch.cutoff < stamp'[p])
    BY <1>1, <1>4, <1>5, <1>6 DEF Clocks
<1>10. BatchHolds'
    <2>1. \A p \in batch.rows : /\ watermark < stamp'[p] /\ stamp'[p] <= batch.cutoff
                                /\ p \notin notices /\ entry'[p] # "absent"
        BY <1>3, BatchIs DEF BatchHolds
    <2>2. batch.step # "idle" /\ ~batch.over /\ watermark # 0 =>
              \A p \in Pairs : entry'[p] = "in" /\ watermark < stamp'[p]
                                /\ stamp'[p] <= batch.cutoff => HasIt(p) \/ p \in batch.rows
        BY <1>6, <1>9 DEF BatchHolds
    <2>3. QED
        BY <1>1, <2>1, <2>2 DEF BatchHolds, HasIt
<1>11. Repeats'
    <2>1. \A p \in Pairs : entry[p] = "absent" => named[p] = 0
        BY DEF Clocks
    <2>2. ASSUME NEW p \in Pairs, stamp'[p] = stamp[p]
          PROVE  /\ named[p] <= 1 + mishaps
                 /\ sender # "digest" /\ p \notin notices /\ ~(batch.step = "record" /\ p \in Group) =>
                        named[p] <= mishaps
                 /\ sender = "digest" /\ watermark < stamp'[p]
                        /\ ~(batch.step = "advance" /\ stamp'[p] <= batch.cutoff) =>
                        named[p] <= mishaps
        BY <2>2 DEF Repeats
    <2>3. ASSUME NEW p \in Pairs, stamp'[p] # stamp[p]
          PROVE  named[p] <= mishaps /\ named[p] <= 1 + mishaps
        BY <1>3, <1>6, <2>1, <2>3
    <2>4. QED
        BY <1>1, <2>2, <2>3 DEF Repeats, Group
<1>12. NoTradeSkipped'
    BY <1>1, <1>6, <1>9 DEF NoTradeSkipped, Settled
<1>13. QED
    BY <1>2, <1>7, <1>8, <1>10, <1>11, <1>12

\* What a message changes: the trades of its group are named, or its recipient closed.
Named(group) ==
    \/ Says(group) /\ UNCHANGED closed
    \/ closed' = closed \union group /\ UNCHANGED named

\* Naming a group adds one message at most to each of its pairs.
LEMMA NamedAre ==
    ASSUME TradeTypes, NEW group \in SUBSET Pairs, Named(group)
    PROVE  /\ named' \in [Pairs -> Nat] /\ closed' \in SUBSET Pairs
           /\ \A p \in Pairs : /\ HasIt(p) => HasIt(p)'
                               /\ p \in group => HasIt(p)'
                               /\ named'[p] <= named[p] + 1
                               /\ p \notin group => named'[p] = named[p]
<1>1. CASE Says(group) /\ UNCHANGED closed
    BY <1>1 DEF TradeTypes, Says, HasIt
<1>2. CASE closed' = closed \union group /\ UNCHANGED named
    BY <1>2 DEF TradeTypes, HasIt
<1>3. QED
    BY <1>1, <1>2 DEF Named

\* A message of a batch: its group is named, and is what the record takes.
LEMMA MessageKeeps ==
    ASSUME TradeInv, batch.step = "send", sender # "digest",
           NEW r \in Nat,
           Named({p \in batch.rows : To[p] = r}),
           batch' = [batch EXCEPT !.step = "record", !.to = r],
           UNCHANGED <<sender, clock, site, watermark, notices, origin, raised, mishaps>>
    PROVE  TradeInv'
<1> USE DEF TradeInv
<1> DEFINE group == {p \in batch.rows : To[p] = r}
<1>1. UNCHANGED <<sender, clock, entry, stamp, watermark, notices, origin, mishaps>>
    BY DEF site
<1>2. batch \in Batches /\ batch.rows \in SUBSET Pairs
    BY BatchIs
<1>3. /\ batch' \in Batches /\ batch'.step = "record" /\ batch'.to = r
      /\ batch'.rows = batch.rows /\ batch'.cutoff = batch.cutoff /\ batch'.over = batch.over
    BY <1>2 DEF Batches
<1>4. group \in SUBSET Pairs /\ Group' = group
    BY <1>1, <1>2, <1>3 DEF Group
<1> HIDE DEF group
<1>5. Named(group)
    BY DEF group
<1>6. /\ named' \in [Pairs -> Nat] /\ closed' \in SUBSET Pairs
      /\ \A p \in Pairs : /\ HasIt(p) => HasIt(p)'
                          /\ p \in group => HasIt(p)'
                          /\ named'[p] <= named[p] + 1
                          /\ p \notin group => named'[p] = named[p]
    BY <1>4, <1>5, NamedAre
<1>7. group \subseteq batch.rows
    BY DEF group
<1>8. TradeTypes'
    BY <1>1, <1>3, <1>6 DEF TradeTypes
<1>9. Clocks'
    <2>1. \A p \in Pairs : entry[p] = "absent" => p \notin group
        BY <1>7 DEF BatchHolds
    <2>2. \A p \in Pairs : entry[p] = "absent" => named'[p] = 0
        BY <1>6, <2>1 DEF Clocks
    <2>3. QED
        BY <1>1, <1>3, <2>2 DEF Clocks
<1>10. ToldFirst'
    <2>1. \A p \in notices : HasIt(p)'
        BY <1>6 DEF ToldFirst, TradeTypes
    <2>2. \A p \in Group' : HasIt(p)'
        BY <1>4, <1>6
    <2>3. QED
        BY <1>1, <2>1, <2>2 DEF ToldFirst, HasIt
<1>11. BatchHolds'
    <2>1. \A p \in batch.rows : /\ watermark < stamp[p] /\ stamp[p] <= batch.cutoff
                                /\ p \notin notices /\ entry[p] # "absent"
        BY DEF BatchHolds
    <2>2. ~batch.over /\ watermark # 0 =>
              \A p \in Pairs : entry[p] = "in" /\ watermark < stamp[p]
                                /\ stamp[p] <= batch.cutoff => HasIt(p)' \/ p \in batch.rows
        BY <1>6 DEF BatchHolds
    <2>3. watermark # 0
        BY DEF BatchHolds
    <2>4. QED
        BY <1>1, <1>3, <2>1, <2>2, <2>3 DEF BatchHolds, HasIt
<1>12. Repeats'
    <2>1. named \in [Pairs -> Nat] /\ mishaps \in Nat
        BY DEF TradeTypes
    <2>2. \A p \in Pairs : p \in group => named[p] <= mishaps
        BY <1>7 DEF Repeats, BatchHolds
    <2>3. \A p \in Pairs : named'[p] <= 1 + mishaps
        BY <1>6, <2>1, <2>2 DEF Repeats
    <2>4. \A p \in Pairs : p \notin group /\ p \notin notices => named'[p] <= mishaps
        BY <1>6 DEF Repeats
    <2>5. QED
        BY <1>1, <1>3, <1>4, <2>3, <2>4 DEF Repeats
<1>13. NoTradeSkipped'
    BY <1>1, <1>6 DEF NoTradeSkipped, Settled, HasIt
<1>14. QED
    BY <1>8, <1>9, <1>10, <1>11, <1>12, <1>13

\* What a message may name was told before only when something broke.
LEMMA InBatch ==
    ASSUME TradeInv, batch.step = "send", NEW p \in Pairs, p \in batch.rows
    PROVE  named[p] <= mishaps
BY DEF TradeInv, BatchHolds, Repeats

\* The digest names its whole batch at once.
LEMMA PostDigestKeeps ==
    ASSUME TradeInv, PostDigest
    PROVE  TradeInv'
<1> USE DEF TradeInv
<1>1. /\ UNCHANGED <<sender, clock, entry, stamp, watermark, notices, origin, mishaps>>
      /\ sender = "digest" /\ batch.step = "send"
    BY DEF site, PostDigest
<1>2. batch \in Batches /\ batch.rows \in SUBSET Pairs
    BY BatchIs
<1>3. /\ batch' \in Batches /\ batch'.step = "advance" /\ batch'.rows = {}
      /\ batch'.cutoff = batch.cutoff /\ batch'.over = batch.over
    BY <1>2 DEF Batches, PostDigest
<1>4. Named(batch.rows)
    BY DEF PostDigest, Named
<1>5. /\ named' \in [Pairs -> Nat] /\ closed' \in SUBSET Pairs
      /\ \A p \in Pairs : /\ HasIt(p) => HasIt(p)'
                          /\ p \in batch.rows => HasIt(p)'
                          /\ named'[p] <= named[p] + 1
                          /\ p \notin batch.rows => named'[p] = named[p]
    BY <1>2, <1>4, NamedAre
<1>6. TradeTypes'
    BY <1>1, <1>3, <1>5 DEF TradeTypes
<1>7. Clocks'
    <2>1. \A p \in Pairs : entry[p] = "absent" => named'[p] = 0
        BY <1>5 DEF Clocks, BatchHolds
    <2>2. QED
        BY <1>1, <1>3, <2>1 DEF Clocks
<1>8. ToldFirst'
    BY <1>1, <1>3, <1>5 DEF ToldFirst
\* The digest is never capped: only a batch of the DM job is over.
<1>9. ~batch.over
    BY <1>1 DEF BatchHolds
<1>10. BatchHolds'
    BY <1>1, <1>3, <1>5, <1>9 DEF BatchHolds, HasIt
<1>11. Repeats'
    <2>1. named \in [Pairs -> Nat] /\ mishaps \in Nat /\ stamp \in [Pairs -> Nat]
          /\ watermark \in Nat /\ batch.cutoff \in Nat
        BY BatchIs DEF TradeTypes
    <2>2. \A p \in batch.rows : named[p] <= mishaps /\ watermark < stamp[p] /\ stamp[p] <= batch.cutoff
        BY <1>1, <1>2 DEF Repeats, BatchHolds
    <2>3. \A p \in Pairs : named'[p] <= 1 + mishaps
        BY <1>2, <1>5, <2>1, <2>2 DEF Repeats
    <2>4. \A p \in Pairs : p \notin batch.rows /\ watermark < stamp[p] => named'[p] <= mishaps
        BY <1>1, <1>5 DEF Repeats
    <2>5. QED
        BY <1>1, <1>3, <2>1, <2>2, <2>3, <2>4 DEF Repeats
<1>12. NoTradeSkipped'
    BY <1>1, <1>5 DEF NoTradeSkipped, Settled, HasIt
<1>13. QED
    BY <1>6, <1>7, <1>8, <1>10, <1>11, <1>12

\* A tick that ends early: nothing of it is lost, for the watermark did not move.
LEMMA RaisesKeeps ==
    ASSUME TradeInv, Raises
    PROVE  TradeInv'
<1> USE DEF TradeInv
<1>1. /\ UNCHANGED <<sender, clock, entry, stamp, watermark, notices, origin, named, closed, mishaps>>
      /\ batch.step = "send" /\ batch' = Idle
    BY DEF site, told, Raises
<1>2. TradeTypes' /\ Clocks'
    BY <1>1, IdleIs DEF TradeTypes, Clocks
<1>3. ToldFirst' /\ BatchHolds'
    BY <1>1, IdleIs DEF ToldFirst, BatchHolds, HasIt
<1>4. Repeats' /\ NoTradeSkipped'
    BY <1>1, IdleIs DEF Repeats, BatchHolds, NoTradeSkipped, Settled
<1>5. QED
    BY <1>2, <1>3, <1>4

\* A tick that breaks off forgets its batch, and only a slip explains what it told.
LEMMA BreaksKeeps ==
    ASSUME TradeInv, Breaks
    PROVE  TradeInv'
<1> USE DEF TradeInv
<1>1. /\ UNCHANGED <<sender, clock, entry, stamp, watermark, notices, origin>>
      /\ mishaps' = mishaps + 1 /\ mishaps' \in Nat /\ batch' = Idle
    BY DEF site, Breaks, TradeTypes
<1>2. PICK group \in SUBSET batch.rows :
          \/ Named(group) /\ batch.step = "send"
          \/ UNCHANGED told /\ group = {}
    <2>1. CASE UNCHANGED told
        BY <2>1
    <2>2. CASE /\ batch.step = "send"
               /\ \E r \in Whose(batch.rows) :
                    Says({p \in batch.rows : sender = "digest" \/ To[p] = r}) /\ UNCHANGED closed
        <3>1. PICK r : /\ Says({p \in batch.rows : sender = "digest" \/ To[p] = r})
                       /\ UNCHANGED closed
            BY <2>2
        <3>2. Named({p \in batch.rows : sender = "digest" \/ To[p] = r})
            BY <3>1 DEF Named
        <3>3. QED
            BY <2>2, <3>2
    <2>3. QED
        BY <2>1, <2>2 DEF Breaks
<1>3. batch.rows \in SUBSET Pairs /\ named \in [Pairs -> Nat] /\ mishaps \in Nat
    BY BatchIs DEF TradeTypes
<1>4. /\ named' \in [Pairs -> Nat] /\ closed' \in SUBSET Pairs
      /\ \A p \in Pairs : /\ HasIt(p) => HasIt(p)'
                          /\ named'[p] <= named[p] + 1
                          /\ p \notin group => named'[p] = named[p]
    <2>1. CASE Named(group)
        BY <1>3, <2>1, NamedAre
    <2>2. CASE UNCHANGED told
        BY <1>3, <2>2 DEF TradeTypes, told, HasIt
    <2>3. QED
        BY <1>2, <2>1, <2>2
<1>5. TradeTypes'
    BY <1>1, <1>4, IdleIs DEF TradeTypes
<1>6. Clocks'
    <2>1. \A p \in Pairs : entry[p] = "absent" => p \notin group /\ named[p] = 0
        BY DEF Clocks, BatchHolds
    <2>2. QED
        BY <1>1, <1>4, <2>1, IdleIs DEF Clocks
<1>7. ToldFirst'
    BY <1>1, <1>4, IdleIs DEF ToldFirst, TradeTypes
<1>8. BatchHolds'
    BY <1>1, IdleIs DEF BatchHolds
<1>9. Repeats'
    <2>1. ASSUME NEW p \in Pairs
          PROVE  named'[p] <= 1 + mishaps'
        <3>1. p \in group => named[p] <= mishaps
            BY <1>2, InBatch
        <3>2. QED
            BY <1>1, <1>3, <1>4, <3>1 DEF Repeats
    <2>2. ASSUME NEW p \in Pairs
          PROVE  named'[p] <= mishaps'
        <3>1. p \in group => named[p] <= mishaps
            BY <1>2, InBatch
        <3>2. CASE p \in group
            BY <1>1, <1>3, <1>4, <3>1, <3>2
        <3>3. CASE p \notin group
            BY <1>1, <1>3, <1>4, <3>3 DEF Repeats
        <3>4. QED
            BY <3>2, <3>3
    <2>3. QED
        BY <1>1, <2>1, <2>2 DEF Repeats
<1>10. NoTradeSkipped'
    BY <1>1, <1>4 DEF NoTradeSkipped, Settled, HasIt
<1>11. QED
    BY <1>5, <1>6, <1>7, <1>8, <1>9, <1>10

\* What was told is recorded; the watermark waits for the rest, and for those behind the cap.
LEMMA RecordKeeps ==
    ASSUME TradeInv, RecordDM \/ RecordMatches
    PROVE  TradeInv'
<1> USE DEF TradeInv
<1>1. /\ UNCHANGED <<sender, clock, entry, stamp, watermark, origin, named, closed, mishaps>>
      /\ batch.step = "record" /\ sender # "digest" /\ notices' = notices \union Group /\ Rest
    BY DEF site, told, RecordDM, RecordMatches
<1>2. batch \in Batches /\ batch.rows \in SUBSET Pairs /\ batch.cutoff \in Nat
    BY BatchIs
<1>3. Group \in SUBSET batch.rows /\ notices' \in SUBSET Pairs
    BY <1>1, <1>2 DEF Group, TradeTypes
<1> DEFINE left == batch.rows \ Group
<1>4. left \in SUBSET batch.rows /\ left \in SUBSET Pairs
    BY <1>2
<1>5. \/ /\ batch' \in Batches /\ batch'.step = "send" /\ batch'.rows = left
         /\ batch'.cutoff = batch.cutoff /\ batch'.over = batch.over
      \/ /\ batch' \in Batches /\ batch'.step = "idle" /\ batch'.rows = {} /\ ~batch'.over
      \/ /\ batch' \in Batches /\ batch'.step = "advance" /\ batch'.rows = {} /\ left = {}
         /\ batch'.cutoff = batch.cutoff /\ ~batch.over /\ batch'.over = batch.over
    <2>1. CASE left # {}
        BY <1>1, <1>2, <1>4, <2>1 DEF Rest, Batches
    <2>2. CASE left = {} /\ batch.over
        BY <1>1, <2>2, IdleIs DEF Rest
    <2>3. CASE left = {} /\ ~batch.over
        BY <1>1, <1>2, <2>3 DEF Rest, Batches
    <2>4. QED
        BY <2>1, <2>2, <2>3
<1> DEFINE group == Group
<1>6. group = Group
    OBVIOUS
<1>7. \A p \in Group : HasIt(p)
    BY <1>1 DEF ToldFirst
<1> HIDE DEF left, group
<1>8. left = batch.rows \ Group
    BY DEF left
<1>9. TradeTypes'
    BY <1>1, <1>3, <1>5 DEF TradeTypes
<1>10. Clocks'
    BY <1>1, <1>5 DEF Clocks
<1>11. ToldFirst'
    <2>1. \A p \in notices' : HasIt(p)
        BY <1>1, <1>7 DEF ToldFirst
    <2>2. QED
        BY <1>1, <1>5, <2>1 DEF ToldFirst, HasIt
<1>12. BatchHolds'
    <2>1. \A p \in left : /\ watermark < stamp[p] /\ stamp[p] <= batch.cutoff
                          /\ p \notin notices' /\ entry[p] # "absent"
        BY <1>1, <1>4, <1>8 DEF BatchHolds
    <2>2. ~batch.over /\ watermark # 0 =>
              \A p \in Pairs : entry[p] = "in" /\ watermark < stamp[p]
                                /\ stamp[p] <= batch.cutoff => HasIt(p) \/ p \in left
        BY <1>1, <1>7, <1>8 DEF BatchHolds
    <2>3. watermark # 0 /\ (batch.over => sender = "dm")
        BY <1>1 DEF BatchHolds
    <2>4. QED
        BY <1>1, <1>5, <2>1, <2>2, <2>3 DEF BatchHolds, HasIt
<1>13. Repeats'
    <2>1. \A p \in Pairs : p \notin notices' => p \notin notices /\ p \notin Group
        BY <1>1
    <2>2. \A p \in Pairs : named[p] <= 1 + mishaps /\ (p \notin notices' => named[p] <= mishaps)
        BY <1>1, <2>1 DEF Repeats
    <2>3. QED
        BY <1>1, <2>2 DEF Repeats
<1>14. NoTradeSkipped'
    BY <1>1 DEF NoTradeSkipped, Settled
<1>15. QED
    BY <1>9, <1>10, <1>11, <1>12, <1>13, <1>14

\* The watermark passes only what the recipient has had or refused.
LEMMA AdvanceKeeps ==
    ASSUME TradeInv, Advance
    PROVE  TradeInv'
<1> USE DEF TradeInv
<1>1. /\ UNCHANGED <<sender, clock, entry, stamp, notices, named, closed, mishaps>>
      /\ batch.step = "advance" /\ watermark' = batch.cutoff /\ batch' = Idle
      /\ origin' = IF watermark = 0 THEN batch.cutoff ELSE origin
    BY DEF site, told, Advance
<1>2. /\ batch.cutoff \in Nat /\ watermark \in Nat /\ origin \in Nat
      /\ stamp \in [Pairs -> Nat] /\ batch.rows = {} /\ ~batch.over
      /\ batch.cutoff > 0 /\ watermark <= batch.cutoff /\ origin <= watermark
    BY <1>1, BatchIs DEF TradeTypes, BatchHolds, Clocks
<1>3. TradeTypes'
    BY <1>1, <1>2, IdleIs DEF TradeTypes
<1>4. Clocks'
    <2>1. batch.cutoff + Settle[sender] <= clock
        BY <1>1 DEF Clocks
    <2>2. origin' <= batch.cutoff
        BY <1>1, <1>2
    <2>3. QED
        BY <1>1, <2>1, <2>2, IdleIs DEF Clocks
<1>5. ToldFirst'
    BY <1>1, IdleIs DEF ToldFirst, HasIt
<1>6. BatchHolds'
    BY <1>1, IdleIs DEF BatchHolds
<1>7. Repeats'
    <2>1. \A p \in Pairs : sender = "digest" /\ batch.cutoff < stamp[p] => named[p] <= mishaps
        BY <1>2 DEF Repeats
    <2>2. \A p \in Pairs : named[p] <= 1 + mishaps
        BY DEF Repeats
    <2>3. \A p \in Pairs : sender # "digest" /\ p \notin notices => named[p] <= mishaps
        BY <1>1 DEF Repeats
    <2>4. QED
        BY <1>1, <2>1, <2>2, <2>3, IdleIs DEF Repeats
<1>8. NoTradeSkipped'
    <2>1. CASE watermark = 0
        BY <1>1, <1>2, <2>1 DEF NoTradeSkipped, Settled
    <2>2. ASSUME watermark # 0, NEW p \in Pairs, entry[p] = "in",
                 origin < stamp[p], stamp[p] <= batch.cutoff
          PROVE  HasIt(p)
        <3>1. CASE stamp[p] <= watermark
            BY <2>2, <3>1 DEF NoTradeSkipped, Settled, HasIt
        <3>2. CASE watermark < stamp[p]
            BY <1>1, <1>2, <2>2, <3>2 DEF BatchHolds
        <3>3. QED
            BY <1>2, <3>1, <3>2
    <2>3. QED
        BY <1>1, <2>1, <2>2 DEF NoTradeSkipped, Settled, HasIt
<1>9. QED
    BY <1>3, <1>4, <1>5, <1>6, <1>7, <1>8

\* At the start nothing was told and the watermark is behind every confirmation to come.
LEMMA TradeStarts ==
    ASSUME TradeInit
    PROVE  TradeInv
<1>1. /\ sender \in Senders /\ clock = Start /\ watermark = 0 /\ origin = 0 /\ mishaps = 0
      /\ entry = [p \in Pairs |-> "absent"] /\ stamp = [p \in Pairs |-> 0]
      /\ named = [p \in Pairs |-> 0] /\ notices = {} /\ closed = {} /\ batch = Idle
    BY DEF TradeInit
<1>2. Start = 4 /\ (Settle[sender] \in Nat /\ Settle[sender] <= 3)
    BY <1>1 DEF Settle, Senders, DMSettle, AnnounceSettle, Start
<1>3. TradeTypes
    BY <1>1, <1>2, IdleIs DEF TradeTypes
<1>4. Clocks
    BY <1>1, <1>2, IdleIs DEF Clocks
<1>5. ToldFirst /\ BatchHolds
    BY <1>1, IdleIs DEF ToldFirst, BatchHolds
<1>6. Repeats /\ NoTradeSkipped
    BY <1>1, IdleIs DEF Repeats, NoTradeSkipped, Settled
<1>7. QED
    BY <1>3, <1>4, <1>5, <1>6 DEF TradeInv

\* Every step of the sender keeps its invariant.
LEMMA TradeStep ==
    ASSUME TradeInv, [TradeNext]_tradeVars
    PROVE  TradeInv'
<1>1. CASE ReadMutuals \/ ReadConnections \/ ReadAdditions
    BY <1>1, ReadsKeepInv
<1>2. CASE Passes \/ \E p \in Pairs : Adds(p) \/ Commits(p) \/ Withdraws(p)
    BY <1>2, SiteKeeps
<1>3. ASSUME NEW p \in Pairs, SendDM(To[p]) \/ PostMatches(To[p])
      PROVE  TradeInv'
    <2>1. To[p] \in Nat
        OBVIOUS
    <2>2. /\ batch.step = "send" /\ sender # "digest"
          /\ Named({q \in batch.rows : To[q] = To[p]})
          /\ batch' = [batch EXCEPT !.step = "record", !.to = To[p]]
          /\ UNCHANGED <<sender, clock, site, watermark, notices, origin, raised, mishaps>>
        BY <1>3 DEF SendDM, PostMatches, Named
    <2>3. QED
        BY <2>1, <2>2, MessageKeeps
<1>4. CASE PostDigest
    BY <1>4, PostDigestKeeps
<1>5. CASE Raises
    BY <1>5, RaisesKeeps
<1>6. CASE Breaks
    BY <1>6, BreaksKeeps
<1>7. CASE RecordDM \/ RecordMatches
    BY <1>7, RecordKeeps
<1>8. CASE Advance
    BY <1>8, AdvanceKeeps
<1>9. CASE UNCHANGED tradeVars
    <2>1. UNCHANGED <<sender, clock, entry, stamp, watermark, notices, batch, origin, named,
                      closed, mishaps>>
        BY <1>9 DEF tradeVars
    <2>2. TradeTypes' /\ Clocks'
        BY <2>1 DEF TradeInv, TradeTypes, Clocks
    <2>3. ToldFirst' /\ BatchHolds'
        BY <2>1 DEF TradeInv, ToldFirst, BatchHolds, HasIt, Group
    <2>4. Repeats' /\ NoTradeSkipped'
        BY <2>1 DEF TradeInv, Repeats, Group, NoTradeSkipped, Settled
    <2>5. QED
        BY <2>2, <2>3, <2>4 DEF TradeInv
<1>10. QED
    BY <1>1, <1>2, <1>3, <1>4, <1>5, <1>6, <1>7, <1>8, <1>9 DEF TradeNext, TradeTick

\* TradeDM.tick, TradeAnnouncer.tick and TradeDigest.tick: a spare that was there in time has
\* been told to its recipient, or refused, before the watermark is past it, and is named again
\* only when something broke between a message and its record.
THEOREM TradesTold == TradeSpec => []TradesAreTold
<1>1. TradeInit => TradeInv
    BY TradeStarts
<1>2. TradeInv /\ [TradeNext]_tradeVars => TradeInv'
    BY TradeStep
<1>3. TradeInv => TradesAreTold
    BY DEF TradeInv, TradesAreTold, Repeats, RepeatsCostMishaps
<1>4. QED
    BY <1>1, <1>2, <1>3, PTL DEF TradeSpec

HIDE TradeNoticesAssumption DEF TradeNoticesAssumption

-------------------------------------------------------------------------------
USE ShinyRequestsAssumption DEF ShinyRequestsAssumption

\* ShinyRequests.  Lives(n, s): the row of the stamp is what the timer's query finds.
Lives(n, s) == \E p \in Players :
    /\ ~entries[p].left
    /\ IF n = "failures" THEN entries[p].access /\ entries[p].failure = s
       ELSE ~entries[p].access /\ entries[p].request = s

Entries == [request : 0..MaxStamps, failure : 0..MaxStamps, access : BOOLEAN, left : BOOLEAN]
Runs == [step : {"read", "send", "save"}, at : Notices, found : SUBSET Stamps, sent : SUBSET Stamps]

RequestTypes ==
    /\ entries \in [Players -> Entries]
    /\ files \in [Notices -> SUBSET Stamps]
    /\ timer \in Runs
    /\ posted \in [Notices -> [Stamps -> Nat]] /\ decided \in [Stamps -> Nat]
    /\ slips \in Nat /\ stamps \in 0..MaxStamps
    /\ back \in [Stamps -> Nat]

\* A stamp is one player's; who has access asks for none.
StampsAreOwn ==
    /\ \A p \in Players : /\ entries[p].request <= stamps /\ entries[p].failure <= stamps
                          /\ entries[p].access => entries[p].request = 0
    /\ \A p, q \in Players : entries[p].request = entries[q].request /\ entries[p].request # 0 => p = q
    /\ \A n \in Notices : \A s \in files[n] : s <= stamps
    /\ \A s \in timer.found \union timer.sent : s <= stamps

\* A request that can be decided was not, and a stamp to come was neither told nor decided.
DecidedOnce ==
    /\ \A s \in Stamps : decided[s] <= 1
    /\ \A p \in Players : \A s \in Stamps : entries[p].request = s => decided[s] = 0
    /\ \A s \in Stamps : s > stamps => decided[s] = 0 /\ \A n \in Notices : posted[n][s] = 0

\* What the file of its kind has, or is about to have.
OnFile(n, s) == s \in files[n] \/ (timer.at = n /\ timer.step = "save" /\ s \in timer.sent)

\* What may be told again was told only as often as a run broke or its player came back.
Excused(s) == slips + back[s]

ToldOnce ==
    \A n \in Notices : \A s \in Stamps :
        /\ posted[n][s] <= 1 + Excused(s)
        /\ Lives(n, s) /\ ~OnFile(n, s) => posted[n][s] <= Excused(s)
        /\ timer.at = n /\ timer.step # "read" /\ s \in timer.found \ timer.sent =>
              posted[n][s] <= Excused(s)
        /\ timer.at = n /\ timer.step # "read" /\ Lives(n, s) /\ s \in files[n] =>
              s \in timer.sent \/ posted[n][s] <= Excused(s)

RequestInv == RequestTypes /\ StampsAreOwn /\ DecidedOnce /\ ToldOnce

\* The records of a player and of a run, for a proof.
LEMMA RequestsAre ==
    ASSUME RequestTypes
    PROVE  /\ \A p \in Players : /\ entries[p].request \in Nat /\ entries[p].failure \in Nat
                                 /\ entries[p].access \in BOOLEAN /\ entries[p].left \in BOOLEAN
                                 /\ entries[p] \in Entries
           /\ timer.step \in {"read", "send", "save"} /\ timer.at \in Notices
           /\ timer.found \in SUBSET Stamps /\ timer.sent \in SUBSET Stamps
           /\ \A s \in Stamps : s \in Nat /\ s # 0
           /\ stamps \in Nat /\ slips \in Nat
           /\ \A s \in Stamps : back[s] \in Nat /\ Excused(s) \in Nat
           /\ \A n \in Notices, s \in Stamps : posted[n][s] \in Nat
BY DEF RequestTypes, Entries, Runs, Stamps, Excused

\* A row that the site, the linker or a moderator changes stays a row.
LEMMA EntryChanges ==
    ASSUME NEW e \in Entries, NEW v \in 0..MaxStamps, NEW b \in BOOLEAN, NEW w \in 0..MaxStamps
    PROVE  /\ [e EXCEPT !.request = v] \in Entries
           /\ [e EXCEPT !.failure = v] \in Entries
           /\ [e EXCEPT !.access = b] \in Entries
           /\ [e EXCEPT !.left = b] \in Entries
           /\ [e EXCEPT !.access = b, !.request = v, !.failure = w] \in Entries
<1>1. [e EXCEPT !.request = v] \in Entries
    BY DEF Entries
<1>2. [e EXCEPT !.failure = v] \in Entries
    BY DEF Entries
<1>3. [e EXCEPT !.access = b] \in Entries
    BY DEF Entries
<1>4. [e EXCEPT !.left = b] \in Entries
    BY DEF Entries
<1>5. [e EXCEPT !.access = b, !.request = v, !.failure = w] \in Entries
    BY DEF Entries
<1>6. QED
    BY <1>1, <1>2, <1>3, <1>4, <1>5

\* The timer at rest is a run with nothing found.
LEMMA NoRunIs ==
    /\ NoRun \in Runs /\ NoRun.step = "read" /\ NoRun.found = {} /\ NoRun.sent = {}
    /\ \A n \in Notices : /\ [NoRun EXCEPT !.at = Other(n)] \in Runs
                          /\ [NoRun EXCEPT !.at = Other(n)].step = "read"
                          /\ [NoRun EXCEPT !.at = Other(n)].found = {}
                          /\ [NoRun EXCEPT !.at = Other(n)].sent = {}
BY DEF NoRun, Runs, Notices, Other

\* The rows of a query are the stamps that live.
LEMMA RowsLive ==
    ASSUME RequestTypes, NEW n \in Notices
    PROVE  /\ Rows(n) \in SUBSET Stamps
           /\ \A s \in Rows(n) : Lives(n, s)
<1>1. \A p \in Players : entries[p].request \in 0..MaxStamps /\ entries[p].failure \in 0..MaxStamps
    BY DEF RequestTypes, Entries
<1>2. Pending \in SUBSET Stamps /\ Failed \in SUBSET Stamps
    BY <1>1 DEF Pending, Failed, Stamps
<1>3. (\A s \in Pending : Lives("requests", s)) /\ (\A s \in Failed : Lives("failures", s))
    BY DEF Pending, Failed, Lives
<1>4. QED
    BY <1>2, <1>3 DEF Rows, Notices

\* The timer finds no stamp that was not given yet.
LEMMA RowsAreOld ==
    ASSUME RequestTypes, StampsAreOwn, NEW n \in Notices
    PROVE  \A s \in Rows(n) : s <= stamps
<1>1. \A s \in Pending : s <= stamps
    BY DEF Pending, StampsAreOwn
<1>2. \A s \in Failed : s <= stamps
    BY DEF Failed, StampsAreOwn
<1>3. QED
    BY <1>1, <1>2 DEF Rows

\* A step of the site, the linker or a moderator: a stamp lives again when its player is back.
LEMMA EntriesKeep ==
    ASSUME RequestInv,
           UNCHANGED <<files, timer, posted, slips>>,
           back' \in [Stamps -> Nat], \A s \in Stamps : back[s] <= back'[s],
           stamps' \in 0..MaxStamps, stamps <= stamps',
           \A n \in Notices, s \in Stamps :
               Lives(n, s)' => Lives(n, s) \/ s > stamps \/ back'[s] = back[s] + 1
    PROVE  ToldOnce'
<1> USE DEF RequestInv
<1>1. ASSUME NEW n \in Notices, NEW s \in Stamps, s > stamps
      PROVE  posted[n][s] = 0 /\ s \notin files[n]
    <2>1. stamps \in Nat /\ s \in Nat /\ \A t \in files[n] : t <= stamps /\ t \in Nat
        BY <1>1, RequestsAre DEF StampsAreOwn, RequestTypes
    <2>2. QED
        BY <1>1, <2>1 DEF DecidedOnce
<1>2. ASSUME NEW s \in Stamps
      PROVE  /\ Excused(s) \in Nat /\ Excused(s)' \in Nat /\ Excused(s) <= Excused(s)'
             /\ back'[s] = back[s] + 1 => Excused(s)' = Excused(s) + 1
             /\ \A n \in Notices : posted[n][s] \in Nat
    BY RequestsAre DEF Excused
<1>3. SUFFICES ASSUME NEW n \in Notices, NEW s \in Stamps
      PROVE  /\ posted[n][s] <= 1 + Excused(s)'
             /\ Lives(n, s)' /\ ~OnFile(n, s) => posted[n][s] <= Excused(s)'
             /\ timer.at = n /\ timer.step # "read" /\ s \in timer.found \ timer.sent =>
                   posted[n][s] <= Excused(s)'
             /\ timer.at = n /\ timer.step # "read" /\ Lives(n, s)' /\ s \in files[n] =>
                   s \in timer.sent \/ posted[n][s] <= Excused(s)'
    BY DEF ToldOnce, OnFile
<1>4. posted[n][s] <= 1 + Excused(s)
    BY DEF ToldOnce
<1>5. CASE back'[s] = back[s] + 1
    BY <1>2, <1>4, <1>5
<1>6. CASE s > stamps
    BY <1>1, <1>2, <1>6
<1>7. CASE ~(s > stamps) /\ back'[s] # back[s] + 1
    <2>1. Lives(n, s)' => Lives(n, s)
        BY <1>7
    <2>2. QED
        BY <1>2, <2>1 DEF ToldOnce
<1>8. QED
    BY <1>5, <1>6, <1>7

\* What the site writes on a profile keeps the stamps and the decisions apart.
LEMMA RequestSiteKeeps ==
    ASSUME RequestInv, NEW p \in Players,
           RequestAccess(p) \/ LoseAccess(p) \/ Leave(p) \/ Return(p) \/ LinkFails(p)
    PROVE  RequestInv'
<1> USE DEF RequestInv
<1>1. UNCHANGED <<files, timer, posted, decided, slips>>
    BY DEF RequestAccess, LoseAccess, Leave, Return, LinkFails
<1>2. /\ \A q \in Players : /\ entries[q].request \in Nat /\ entries[q].failure \in Nat
                            /\ entries[q].access \in BOOLEAN /\ entries[q].left \in BOOLEAN
                            /\ entries[q] \in Entries
      /\ stamps \in Nat /\ stamps \in 0..MaxStamps
    BY RequestsAre DEF RequestTypes
<1>3. stamps' \in 0..MaxStamps /\ stamps' \in Nat /\ stamps <= stamps'
    BY <1>2 DEF RequestAccess, LoseAccess, Leave, Return, LinkFails, Stamped
<1>4. /\ entries' \in [Players -> Entries]
      /\ \A q \in Players : q # p => entries'[q] = entries[q]
    <2>1. stamps < MaxStamps => stamps + 1 \in 0..MaxStamps
        BY <1>2
    <2>2. \E e \in Entries : entries' = [entries EXCEPT ![p] = e]
        <3>1. CASE RequestAccess(p)
            BY <1>2, <2>1, <3>1, EntryChanges DEF RequestAccess, Stamped, SiteSets
        <3>2. CASE LoseAccess(p)
            BY <1>2, <3>2, EntryChanges DEF LoseAccess, SiteSets
        <3>3. CASE Leave(p)
            BY <1>2, <3>3, EntryChanges DEF Leave, SiteSets
        <3>4. CASE LinkFails(p)
            BY <1>2, <2>1, <3>4, EntryChanges DEF LinkFails, Stamped, SiteSets
        <3>5. CASE Return(p)
            BY <1>2, <3>5, EntryChanges DEF Return, SiteSets
        <3>6. QED
            BY <3>1, <3>2, <3>3, <3>4, <3>5
    <2>3. QED
        BY <2>2 DEF RequestTypes
\* What the step makes of its player.
<1>5. \/ /\ entries'[p].request = stamps + 1 /\ stamps' = stamps + 1
         /\ entries'[p].failure = entries[p].failure
         /\ ~entries[p].access /\ ~entries'[p].access /\ entries'[p].left = entries[p].left
      \/ /\ entries'[p].request = entries[p].request /\ entries'[p].failure = entries[p].failure
         /\ stamps' = stamps
         /\ \/ entries[p].access /\ ~entries'[p].access /\ entries'[p].left = entries[p].left
            \/ entries'[p].access = entries[p].access /\ entries'[p].left
      \/ /\ entries'[p].request = entries[p].request
         /\ entries'[p].failure = stamps + 1 /\ stamps' = stamps + 1
         /\ entries[p].access /\ entries'[p].access = entries[p].access
         /\ entries'[p].left = entries[p].left
      \/ /\ entries'[p].request = entries[p].request /\ entries'[p].failure = entries[p].failure
         /\ stamps' = stamps /\ entries'[p].access = entries[p].access
         /\ \A s \in Stamps : s \in {entries[p].request, entries[p].failure} =>
                                back'[s] = back[s] + 1
    <2>1. entries[p] \in Entries
        BY <1>2
    <2>2. CASE RequestAccess(p)
        BY <2>1, <2>2 DEF RequestAccess, Stamped, SiteSets, Entries, RequestTypes
    <2>3. CASE LoseAccess(p)
        BY <2>1, <2>3 DEF LoseAccess, SiteSets, Entries, RequestTypes
    <2>4. CASE Leave(p)
        BY <2>1, <2>4 DEF Leave, SiteSets, Entries, RequestTypes
    <2>5. CASE LinkFails(p)
        BY <2>1, <2>5 DEF LinkFails, Stamped, SiteSets, Entries, RequestTypes
    <2>6. CASE Return(p)
        <3>1. \A s \in Stamps : s \in {entries[p].request, entries[p].failure} =>
                                   back'[s] = back[s] + 1
            BY <2>6 DEF Return
        <3>2. QED
            BY <2>1, <2>6, <3>1 DEF Return, SiteSets, Entries, RequestTypes
    <2>7. QED
        BY <2>2, <2>3, <2>4, <2>5, <2>6
<1>12. back' \in [Stamps -> Nat] /\ \A s \in Stamps : back[s] <= back'[s]
    <2>1. CASE back' = back
        BY <2>1, RequestsAre DEF RequestTypes
    <2>2. CASE Return(p)
        <3>1. PICK mine \in SUBSET Nat : back' =
                  [s \in Stamps |-> IF s \in mine THEN back[s] + 1 ELSE back[s]]
            BY <1>2, <2>2 DEF Return
        <3>2. QED
            BY <3>1, RequestsAre
    <2>3. QED
        BY <2>1, <2>2 DEF RequestAccess, LoseAccess, Leave, LinkFails
<1>6. RequestTypes'
    BY <1>1, <1>3, <1>4, <1>12 DEF RequestTypes
<1>7. StampsAreOwn'
    <2>1. \A q \in Players : /\ entries[q].request <= stamps /\ entries[q].failure <= stamps
                             /\ entries[q].access => entries[q].request = 0
        BY DEF StampsAreOwn
    <2>2. \A q \in Players : /\ entries'[q].request <= stamps' /\ entries'[q].failure <= stamps'
                             /\ entries'[q].access => entries'[q].request = 0
        BY <1>2, <1>3, <1>4, <1>5, <2>1
    <2>3. ASSUME NEW a \in Players, NEW b \in Players,
                 entries'[a].request = entries'[b].request, entries'[a].request # 0
          PROVE  a = b
        <3>1. entries'[p].request = entries[p].request \/ entries'[p].request > stamps
            BY <1>2, <1>5
        <3>2. \A q \in Players : entries[q].request <= stamps
            BY <2>1
        <3>3. QED
            BY <1>2, <1>4, <2>3, <3>1, <3>2 DEF StampsAreOwn
    <2>4. \A n \in Notices : \A s \in files[n] : s <= stamps'
        BY <1>2, <1>3 DEF StampsAreOwn, RequestTypes, Stamps
    <2>5. \A s \in timer.found \union timer.sent : s <= stamps'
        BY <1>2, <1>3, RequestsAre DEF StampsAreOwn
    <2>6. QED
        BY <1>1, <2>2, <2>3, <2>4, <2>5 DEF StampsAreOwn
<1>8. DecidedOnce'
    <2>1. \A s \in Stamps : s > stamps' => s > stamps
        BY <1>2, <1>3 DEF Stamps
    <2>2. \A q \in Players : \A s \in Stamps : entries'[q].request = s => entries[q].request = s
                                                                   \/ s > stamps
        BY <1>2, <1>4, <1>5
    <2>3. QED
        BY <1>1, <2>1, <2>2 DEF DecidedOnce
<1>9. \A n \in Notices, s \in Stamps :
          Lives(n, s)' => Lives(n, s) \/ s > stamps \/ back'[s] = back[s] + 1
    <2>1. ASSUME NEW n \in Notices, NEW s \in Stamps, NEW q \in Players,
                 ~entries'[q].left,
                 IF n = "failures" THEN entries'[q].access /\ entries'[q].failure = s
                 ELSE ~entries'[q].access /\ entries'[q].request = s,
                 ~(s > stamps), back'[s] # back[s] + 1
          PROVE  Lives(n, s)
        <3>1. s \in Nat /\ s # 0
            BY DEF Stamps
        <3>2. CASE q # p
            BY <1>4, <2>1, <3>2 DEF Lives
        <3>3. CASE q = p
            <4>1. entries[p].access => entries[p].request = 0
                BY DEF StampsAreOwn
            <4>2. ~entries[p].left
                BY <1>5, <2>1, <3>3
            <4>3. CASE n = "failures"
                <5>1. entries[p].access /\ entries[p].failure = s
                    BY <1>2, <1>5, <2>1, <3>1, <3>3, <4>3
                <5>2. QED
                    BY <4>2, <4>3, <5>1 DEF Lives
            <4>4. CASE n # "failures"
                <5>1. ~entries[p].access /\ entries[p].request = s
                    BY <1>2, <1>5, <2>1, <3>1, <3>3, <4>1, <4>4
                <5>2. QED
                    BY <4>2, <4>4, <5>1 DEF Lives
            <4>5. QED
                BY <4>3, <4>4
        <3>4. QED
            BY <3>2, <3>3
    <2>2. QED
        BY <2>1 DEF Lives
<1>10. ToldOnce'
    BY <1>1, <1>3, <1>9, <1>12, EntriesKeep
<1>11. QED
    BY <1>6, <1>7, <1>8, <1>10

\* The decision ends the request it was made for, and revives nothing.
LEMMA DecideRequestKeeps ==
    ASSUME RequestInv, NEW p \in Players, NEW s \in Stamps, NEW accept \in BOOLEAN,
           DecideRequest(p, s, accept)
    PROVE  RequestInv'
<1> USE DEF RequestInv
<1>1. UNCHANGED <<files, timer, posted, slips, back, stamps>>
    BY DEF DecideRequest
<1>2. /\ \A q \in Players : /\ entries[q].request \in Nat /\ entries[q].failure \in Nat
                            /\ entries[q].access \in BOOLEAN /\ entries[q].left \in BOOLEAN
                            /\ entries[q] \in Entries
      /\ stamps \in Nat /\ stamps \in 0..MaxStamps
      /\ s \in Nat /\ s # 0
    BY RequestsAre DEF RequestTypes
<1>3. entries[p].request = s /\ ~entries[p].access
    BY DEF DecideRequest, MayDecide
<1>4. /\ entries' \in [Players -> Entries]
      /\ \A q \in Players : q # p => entries'[q] = entries[q]
    <2>1. PICK f \in 0..MaxStamps : f = IF accept THEN 0 ELSE entries[p].failure
        BY <1>2 DEF Entries
    <2>2. [entries[p] EXCEPT !.access = accept, !.request = 0, !.failure = f] \in Entries
        <3>1. 0 \in 0..MaxStamps
            OBVIOUS
        <3>2. QED
            BY <1>2, <3>1, EntryChanges
    <2>3. QED
        BY <2>1, <2>2 DEF DecideRequest, SiteSets, RequestTypes
<1>5. /\ entries'[p].request = 0
      /\ entries'[p].failure = entries[p].failure \/ entries'[p].failure = 0
      /\ entries'[p].access => entries'[p].failure = 0
    BY <1>2 DEF DecideRequest, SiteSets, Entries, RequestTypes
<1>6. /\ decided' \in [Stamps -> Nat] /\ decided[s] = 0 /\ decided'[s] = 1
      /\ \A t \in Stamps : t # s => decided'[t] = decided[t]
    <2>1. decided[s] = 0
        BY <1>3 DEF DecidedOnce
    <2>2. QED
        BY <2>1 DEF DecideRequest, RequestTypes
<1>7. RequestTypes'
    BY <1>1, <1>2, <1>4, <1>6 DEF RequestTypes
<1>8. StampsAreOwn'
    BY <1>1, <1>2, <1>4, <1>5 DEF StampsAreOwn
<1>9. DecidedOnce'
    <2>1. \A q \in Players : \A t \in Stamps : entries'[q].request = t =>
                                  entries[q].request = t /\ t # s
        <3>1. \A q \in Players : q # p => entries[q].request # s
            BY <1>2, <1>3 DEF StampsAreOwn
        <3>2. \A t \in Stamps : t # 0
            BY RequestsAre
        <3>3. QED
            BY <1>4, <1>5, <3>1, <3>2
    <2>2. s <= stamps
        BY <1>3 DEF StampsAreOwn
    <2>3. \A t \in Stamps : t > stamps => t # s
        BY <1>2, <2>2 DEF Stamps
    <2>4. \A t \in Stamps : decided'[t] <= 1
        BY <1>6 DEF DecidedOnce
    <2>5. QED
        BY <1>1, <1>6, <2>1, <2>3, <2>4 DEF DecidedOnce
<1>10. \A n \in Notices, t \in Stamps : Lives(n, t)' => Lives(n, t)
    <2>1. ASSUME NEW n \in Notices, NEW t \in Stamps, NEW q \in Players,
                 ~entries'[q].left,
                 IF n = "failures" THEN entries'[q].access /\ entries'[q].failure = t
                 ELSE ~entries'[q].access /\ entries'[q].request = t
          PROVE  Lives(n, t)
        <3>1. t # 0
            BY RequestsAre
        <3>2. q # p
            BY <1>5, <2>1, <3>1
        <3>3. QED
            BY <1>4, <2>1, <3>2 DEF Lives
    <2>2. QED
        BY <2>1 DEF Lives
<1>11. ToldOnce'
    <2>1. back \in [Stamps -> Nat] /\ \A t \in Stamps : back[t] <= back[t]
        BY RequestsAre DEF RequestTypes
    <2>2. QED
        BY <1>1, <1>2, <1>10, <2>1, EntriesKeep
<1>12. QED
    BY <1>7, <1>8, <1>9, <1>11

\* What a step of the timer leaves alone.
LEMMA TimerOnly ==
    ASSUME RequestInv, UNCHANGED <<entries, decided, back, stamps>>
    PROVE  /\ \A n, s : Lives(n, s)' <=> Lives(n, s)
           /\ /\ \A n \in Notices : \A s \in files'[n] : s <= stamps
              /\ \A s \in timer'.found \union timer'.sent : s <= stamps
              => StampsAreOwn'
           /\ (\A n \in Notices, s \in Stamps : s > stamps => posted'[n][s] = 0) => DecidedOnce'
BY DEF RequestInv, Lives, StampsAreOwn, DecidedOnce

\* The timer takes up the rows that are not on file.
LEMMA ReadRowsKeeps ==
    ASSUME RequestInv, ReadRows
    PROVE  RequestInv'
<1> USE DEF RequestInv
<1>1. UNCHANGED <<entries, files, posted, decided, slips, back, stamps>> /\ timer.step = "read"
    BY DEF ReadRows
<1>2. timer.at \in Notices /\ timer \in Runs /\ files[timer.at] \in SUBSET Stamps
    BY RequestsAre DEF RequestTypes
<1>3. PICK found \in SUBSET Stamps : found = Rows(timer.at)
    BY <1>2, RowsLive
<1>4. PICK sent \in SUBSET found : sent = files[timer.at] \intersect found
    OBVIOUS
<1>5. /\ timer' \in Runs /\ timer'.at = timer.at /\ timer'.found = found /\ timer'.sent = sent
      /\ timer'.step # "read" /\ (timer'.step = "save" => found = sent)
    BY <1>2, <1>3, <1>4 DEF ReadRows, Runs
<1>6. RequestTypes'
    BY <1>1, <1>5 DEF RequestTypes
<1>7. StampsAreOwn' /\ DecidedOnce'
    <2>1. \A s \in sent : s <= stamps
        BY <1>2, <1>4 DEF StampsAreOwn
    <2>2. \A s \in found : s <= stamps
        BY <1>2, <1>3, RowsAreOld
    <2>3. QED
        BY <1>1, <1>5, <2>1, <2>2, TimerOnly DEF StampsAreOwn, DecidedOnce
<1>8. ToldOnce'
    <2>1. \A s \in Stamps : Lives(timer.at, s) => s \in found
        <3>1. \A s \in Stamps : s # 0
            BY RequestsAre
        <3>2. QED
            BY <1>2, <1>3, <3>1 DEF Lives, Rows, Pending, Failed, Notices
    <2>2. \A s \in found : Lives(timer.at, s)
        BY <1>2, <1>3, RowsLive
    <2>3. \A n \in Notices, s \in Stamps : OnFile(n, s) => s \in files[n]
        BY <1>1 DEF OnFile
    <2>4. \A n \in Notices, s \in Stamps : s \in files[n] => OnFile(n, s)'
        BY <1>1 DEF OnFile
    <2>5. \A n \in Notices, s \in Stamps :
              /\ posted[n][s] <= 1 + Excused(s)
              /\ Lives(n, s) /\ s \notin files[n] => posted[n][s] <= Excused(s)
        BY <2>3 DEF ToldOnce
    <2>6. \A s \in found \ sent : s \notin files[timer.at]
        BY <1>4
    <2>7. \A n \in Notices, s \in Stamps : Lives(n, s)' <=> Lives(n, s)
        BY <1>1, TimerOnly
    <2>8. \A s \in Stamps : Excused(s)' = Excused(s)
        BY <1>1 DEF Excused
    <2>9. QED
        BY <1>1, <1>3, <1>4, <1>5, <2>1, <2>2, <2>4, <2>5, <2>6, <2>7, <2>8 DEF ToldOnce
<1>9. QED
    BY <1>6, <1>7, <1>8

\* A notice is sent for a stamp that no notice told of, unless a save was lost.
LEMMA SendNoticeKeeps ==
    ASSUME RequestInv, NEW s \in Stamps, SendNotice(s)
    PROVE  RequestInv'
<1> USE DEF RequestInv
<1>1. /\ UNCHANGED <<entries, files, decided, slips, back, stamps>>
      /\ timer.step = "send" /\ s \in timer.found \ timer.sent
      /\ posted' = [posted EXCEPT ![timer.at][s] = @ + 1]
    BY DEF SendNotice, Oldest, Posts
<1>2. timer.at \in Notices /\ timer \in Runs /\ timer.found \in SUBSET Stamps
    BY RequestsAre DEF RequestTypes
<1>3. /\ timer' \in Runs /\ timer'.at = timer.at /\ timer'.found = timer.found
      /\ timer'.sent = timer.sent \union {s} /\ timer'.step = "save"
    BY <1>2 DEF SendNotice, Runs
<1>4. /\ posted' \in [Notices -> [Stamps -> Nat]]
      /\ posted'[timer.at][s] = posted[timer.at][s] + 1
      /\ \A n \in Notices, t \in Stamps : n # timer.at \/ t # s => posted'[n][t] = posted[n][t]
    BY <1>1, <1>2 DEF RequestTypes
<1>5. posted[timer.at][s] <= Excused(s)
    BY <1>1, <1>2 DEF ToldOnce
<1>6. RequestTypes'
    BY <1>1, <1>3, <1>4 DEF RequestTypes
<1>7. s <= stamps
    BY <1>1, <1>2 DEF StampsAreOwn
<1>8. StampsAreOwn' /\ DecidedOnce'
    <2>1. stamps \in Nat /\ s \in Nat
        BY RequestsAre
    <2>2. \A n \in Notices, t \in Stamps : t > stamps => posted'[n][t] = 0
        <3>1. \A t \in Stamps : t > stamps => t # s
            BY <1>7, <2>1 DEF Stamps
        <3>2. QED
            BY <1>4, <3>1 DEF DecidedOnce
    <2>3. \A t \in timer'.found \union timer'.sent : t <= stamps
        BY <1>3, <1>7 DEF StampsAreOwn
    <2>4. QED
        BY <1>1, <2>2, <2>3, TimerOnly DEF StampsAreOwn
<1>9. ToldOnce'
    <2>1. \A n \in Notices, t \in Stamps : OnFile(n, t)' <=> OnFile(n, t) \/ (n = timer.at /\
                                                t \in timer.sent \union {s})
        BY <1>1, <1>3 DEF OnFile
    <2>2. Excused(s) \in Nat /\ posted[timer.at][s] \in Nat
        BY <1>2, RequestsAre
    <2>3. \A n \in Notices, t \in Stamps : Lives(n, t)' <=> Lives(n, t)
        BY <1>1, TimerOnly
    <2>4. ASSUME NEW n \in Notices, NEW t \in Stamps
          PROVE  /\ posted'[n][t] <= 1 + Excused(t)
                 /\ Lives(n, t) /\ ~OnFile(n, t)' => posted'[n][t] <= Excused(t)
                 /\ n = timer.at /\ t \in timer'.found \ timer'.sent => posted'[n][t] <= Excused(t)
                 /\ n = timer.at /\ Lives(n, t) /\ t \in files[n] =>
                        t \in timer'.sent \/ posted'[n][t] <= Excused(t)
        <3>1. CASE n = timer.at /\ t = s
            BY <1>3, <1>4, <1>5, <2>1, <2>2, <3>1
        <3>2. CASE n # timer.at \/ t # s
            BY <1>1, <1>3, <1>4, <2>1, <3>2 DEF ToldOnce
        <3>3. QED
            BY <3>1, <3>2
    <2>5. \A t \in Stamps : Excused(t)' = Excused(t)
        BY <1>1 DEF Excused
    <2>6. QED
        BY <1>1, <1>3, <2>3, <2>4, <2>5 DEF ToldOnce
<1>10. QED
    BY <1>6, <1>8, <1>9

\* What was sent is on file.
LEMMA SaveSentKeeps ==
    ASSUME RequestInv, SaveSent
    PROVE  RequestInv'
<1> USE DEF RequestInv
<1>1. /\ UNCHANGED <<entries, posted, decided, slips, back, stamps>>
      /\ timer.step = "save" /\ files' = [files EXCEPT ![timer.at] = timer.sent]
    BY DEF SaveSent
<1>2. timer.at \in Notices /\ timer \in Runs /\ timer.sent \in SUBSET Stamps
    BY RequestsAre DEF RequestTypes
<1>3. \/ /\ timer' \in Runs /\ timer'.at = timer.at /\ timer'.found = timer.found
         /\ timer'.sent = timer.sent /\ timer'.step = "send"
      \/ timer' \in Runs /\ timer'.step = "read" /\ timer'.found = {} /\ timer'.sent = {}
    <2>1. CASE timer.sent # timer.found
        BY <1>2, <2>1 DEF SaveSent, Runs
    <2>2. CASE timer.sent = timer.found
        BY <1>2, <2>2, NoRunIs DEF SaveSent
    <2>3. QED
        BY <2>1, <2>2
<1>4. /\ files' \in [Notices -> SUBSET Stamps] /\ files'[timer.at] = timer.sent
      /\ \A n \in Notices : n # timer.at => files'[n] = files[n]
    BY <1>1, <1>2 DEF RequestTypes
<1>5. RequestTypes'
    BY <1>1, <1>3, <1>4 DEF RequestTypes
<1>6. StampsAreOwn' /\ DecidedOnce'
    <2>1. \A s \in timer.sent : s <= stamps
        BY <1>1, <1>2 DEF StampsAreOwn
    <2>2. \A n \in Notices : \A s \in files'[n] : s <= stamps
        BY <1>4, <2>1 DEF StampsAreOwn
    <2>3. \A n \in Notices, s \in Stamps : s > stamps => posted'[n][s] = 0
        BY <1>1 DEF DecidedOnce
    <2>4. \A s \in timer'.found \union timer'.sent : s <= stamps
        BY <1>3, NoRunIs DEF StampsAreOwn
    <2>5. QED
        BY <1>1, <2>2, <2>3, <2>4, TimerOnly
<1>7. ToldOnce'
    <2>1. \A n \in Notices, s \in Stamps : Lives(n, s)' <=> Lives(n, s)
        BY <1>1, TimerOnly
    <2>2. ASSUME NEW n \in Notices, NEW s \in Stamps, Lives(n, s), ~(OnFile(n, s)')
          PROVE  posted[n][s] <= Excused(s)
        <3>1. s \notin files'[n]
            BY <2>2 DEF OnFile
        <3>2. CASE n = timer.at
            <4>1. s \notin timer.sent
                BY <1>4, <3>1, <3>2
            <4>2. CASE s \in files[n]
                BY <1>1, <2>2, <3>2, <4>1, <4>2 DEF ToldOnce
            <4>3. CASE s \notin files[n]
                BY <2>2, <4>1, <4>3 DEF ToldOnce, OnFile
            <4>4. QED
                BY <4>2, <4>3
        <3>3. CASE n # timer.at
            BY <1>4, <2>2, <3>1, <3>3 DEF OnFile, ToldOnce
        <3>4. QED
            BY <3>2, <3>3
    <2>3. \A n \in Notices, s \in Stamps :
              Lives(n, s) /\ ~(OnFile(n, s)') => posted[n][s] <= Excused(s)
        BY <2>2
    <2>4. \A s \in timer.found \ timer.sent : posted[timer.at][s] <= Excused(s)
        BY <1>1, <1>2 DEF ToldOnce, Runs
    <2>5. \A n \in Notices, s \in Stamps : posted[n][s] <= 1 + Excused(s)
        BY DEF ToldOnce
    <2>6. \A s \in Stamps : Excused(s)' = Excused(s)
        BY <1>1 DEF Excused
    <2>7. QED
        BY <1>1, <1>2, <1>3, <1>4, <2>1, <2>3, <2>4, <2>5, <2>6 DEF ToldOnce
<1>8. QED
    BY <1>5, <1>6, <1>7

\* A run that breaks: what it told and did not record is told again, and counted as a slip.
LEMMA RunBreaksKeeps ==
    ASSUME RequestInv, RunBreaks
    PROVE  RequestInv'
<1> USE DEF RequestInv
<1>1. UNCHANGED <<entries, files, decided, back, stamps>>
    BY DEF RunBreaks
<1>2. timer.at \in Notices /\ timer \in Runs /\ timer.found \in SUBSET Stamps /\ slips \in Nat
    BY RequestsAre DEF RequestTypes
<1>3. timer' \in Runs /\ timer'.step = "read" /\ timer'.found = {} /\ timer'.sent = {}
    BY <1>2, NoRunIs DEF RunBreaks
<1>4. \/ posted' = posted /\ slips' = slips /\ timer.step # "save"
      \/ posted' = posted /\ slips' = slips + 1
      \/ /\ slips' = slips + 1 /\ timer.step = "send"
         /\ \E s \in timer.found \ timer.sent : posted' = [posted EXCEPT ![timer.at][s] = @ + 1]
    BY DEF RunBreaks, Oldest, Posts
<1>10. \A s \in Stamps : /\ Excused(s) \in Nat /\ Excused(s)' \in Nat
                         /\ slips' = slips + 1 => Excused(s)' = Excused(s) + 1
                         /\ slips' = slips => Excused(s)' = Excused(s)
    BY <1>1, <1>4, RequestsAre DEF Excused
\* Whatever was told, a slip more pays for it.
<1>5. /\ posted' \in [Notices -> [Stamps -> Nat]] /\ slips' \in Nat /\ slips <= slips'
      /\ \A n \in Notices, s \in Stamps : posted'[n][s] <= 1 + Excused(s)'
      /\ \A n \in Notices, s \in Stamps : s > stamps => posted'[n][s] = 0
      /\ \A n \in Notices, s \in Stamps :
             Lives(n, s) /\ s \notin files[n] => posted'[n][s] <= Excused(s)'
    <2>1. CASE posted' = posted /\ slips' = slips /\ timer.step # "save"
        BY <1>2, <1>10, <2>1 DEF ToldOnce, OnFile, DecidedOnce, RequestTypes
    <2>2. CASE posted' = posted /\ slips' = slips + 1
        <3>1. \A n \in Notices, s \in Stamps : posted[n][s] <= 1 + Excused(s) /\ posted[n][s] \in Nat
            BY RequestsAre DEF ToldOnce
        <3>2. QED
            BY <1>2, <1>10, <2>2, <3>1 DEF DecidedOnce, RequestTypes
    <2>3. ASSUME slips' = slips + 1, timer.step = "send", NEW t \in timer.found \ timer.sent,
                 posted' = [posted EXCEPT ![timer.at][t] = @ + 1]
          PROVE  /\ posted' \in [Notices -> [Stamps -> Nat]] /\ slips' \in Nat /\ slips <= slips'
                 /\ \A n \in Notices, s \in Stamps : posted'[n][s] <= 1 + Excused(s)'
                 /\ \A n \in Notices, s \in Stamps : s > stamps => posted'[n][s] = 0
                 /\ \A n \in Notices, s \in Stamps :
                        Lives(n, s) /\ s \notin files[n] => posted'[n][s] <= Excused(s)'
        <3>1. \A n \in Notices, s \in Stamps : posted[n][s] <= 1 + Excused(s) /\ posted[n][s] \in Nat
            BY RequestsAre DEF ToldOnce
        <3>2. posted[timer.at][t] <= Excused(t) /\ t \in Stamps
            BY <1>2, <2>3 DEF ToldOnce
        <3>3. /\ posted' \in [Notices -> [Stamps -> Nat]]
              /\ posted'[timer.at][t] = posted[timer.at][t] + 1
              /\ \A n \in Notices, s \in Stamps : n # timer.at \/ s # t => posted'[n][s] = posted[n][s]
            BY <1>2, <2>3, <3>2 DEF RequestTypes
        <3>4. t <= stamps /\ stamps \in Nat
            BY <2>3, RequestsAre DEF StampsAreOwn
        <3>5. \A n \in Notices, s \in Stamps : posted'[n][s] <= 1 + Excused(s)'
            <4>1. ASSUME NEW n \in Notices, NEW s \in Stamps
                  PROVE  posted'[n][s] <= 1 + Excused(s)'
                <5>1. Excused(s)' = Excused(s) + 1 /\ Excused(s) \in Nat
                    BY <1>10, <2>3
                <5>2. posted'[n][s] = posted[n][s] \/ (n = timer.at /\ s = t)
                    BY <3>3
                <5>3. CASE n = timer.at /\ s = t
                    BY <1>2, <3>2, <3>3, <5>1, <5>3, RequestsAre
                <5>4. CASE posted'[n][s] = posted[n][s]
                    BY <3>1, <5>1, <5>4
                <5>5. QED
                    BY <5>2, <5>3, <5>4
            <4>2. QED
                BY <4>1
        <3>6. \A n \in Notices, s \in Stamps : s > stamps => posted'[n][s] = 0
            <4>1. \A s \in Stamps : s > stamps => s # t
                BY <3>2, <3>4 DEF Stamps
            <4>2. QED
                BY <3>3, <4>1 DEF DecidedOnce
        <3>7. QED
            <4>1. ASSUME NEW n \in Notices, NEW s \in Stamps, Lives(n, s), s \notin files[n]
                  PROVE  posted'[n][s] <= Excused(s)'
                <5>1. Excused(s)' = Excused(s) + 1 /\ Excused(s) \in Nat /\ posted[n][s] \in Nat
                    BY <1>10, <2>3, RequestsAre
                <5>2. CASE n = timer.at /\ s = t
                    BY <3>2, <3>3, <5>1, <5>2
                <5>3. CASE n # timer.at \/ s # t
                    BY <3>1, <3>3, <5>1, <5>3
                <5>4. QED
                    BY <5>2, <5>3
            <4>2. QED
                BY <1>2, <2>3, <3>3, <3>5, <3>6, <4>1
    <2>4. QED
        BY <1>4, <2>1, <2>2, <2>3
<1>6. RequestTypes'
    BY <1>1, <1>3, <1>5 DEF RequestTypes
<1>7. StampsAreOwn' /\ DecidedOnce'
    BY <1>1, <1>3, <1>5, TimerOnly DEF StampsAreOwn
<1>8. ToldOnce'
    <2>1. \A n \in Notices, s \in Stamps : Lives(n, s)' <=> Lives(n, s)
        BY <1>1, TimerOnly
    <2>2. QED
        BY <1>1, <1>3, <1>5, <2>1 DEF ToldOnce, OnFile
<1>9. QED
    BY <1>6, <1>7, <1>8

\* At the start nothing was asked, decided or told.
LEMMA RequestStarts ==
    ASSUME RequestInit
    PROVE  RequestInv
<1>1. /\ entries = [p \in Players |-> [request |-> 0, failure |-> 0, access |-> FALSE, left |-> FALSE]]
      /\ files = [n \in Notices |-> {}] /\ timer = NoRun
      /\ posted = [n \in Notices |-> [s \in Stamps |-> 0]] /\ decided = [s \in Stamps |-> 0]
      /\ slips = 0 /\ stamps = 0 /\ back = [s \in Stamps |-> 0]
    BY DEF RequestInit
<1>2. RequestTypes
    BY <1>1, NoRunIs DEF RequestTypes, Entries
<1>3. StampsAreOwn
    BY <1>1, NoRunIs DEF StampsAreOwn
<1>4. DecidedOnce
    BY <1>1 DEF DecidedOnce
<1>5. ToldOnce
    BY <1>1, NoRunIs DEF ToldOnce, Excused
<1>6. QED
    BY <1>2, <1>3, <1>4, <1>5 DEF RequestInv

\* Every step of the site, the admins and the timer keeps the invariant.
LEMMA RequestStep ==
    ASSUME RequestInv, [RequestNext]_requestVars
    PROVE  RequestInv'
<1>1. CASE \E p \in Players : RequestAccess(p) \/ LoseAccess(p) \/ Leave(p) \/ Return(p) \/ LinkFails(p)
    BY <1>1, RequestSiteKeeps
<1>2. CASE \E p \in Players, s \in Stamps, accept \in BOOLEAN : DecideRequest(p, s, accept)
    BY <1>2, DecideRequestKeeps
<1>3. CASE ReadRows
    BY <1>3, ReadRowsKeeps
<1>4. CASE SaveSent
    BY <1>4, SaveSentKeeps
<1>5. CASE \E s \in Stamps : SendNotice(s)
    BY <1>5, SendNoticeKeeps
<1>6. CASE RunBreaks
    BY <1>6, RunBreaksKeeps
<1>7. CASE UNCHANGED requestVars
    BY <1>7 DEF requestVars, RequestInv, RequestTypes, StampsAreOwn, DecidedOnce, ToldOnce,
        OnFile, Lives, Excused
<1>8. QED
    BY <1>1, <1>2, <1>3, <1>4, <1>5, <1>6, <1>7 DEF RequestNext, TimerStep

\* shiny_access_requests.decide_request and pokedex_moderation_alert: a request is decided once,
\* and a request or a failure is told again only when a run broke before its record,
\* or when its player left and came back.
THEOREM DecidedAndTold == RequestSpec => []OneDecisionEach
<1>1. RequestInit => RequestInv
    BY RequestStarts
<1>2. RequestInv /\ [RequestNext]_requestVars => RequestInv'
    BY RequestStep
<1>3. RequestInv => OneDecisionEach
    <2>1. ASSUME RequestInv, NEW n \in Notices, NEW s \in Stamps
          PROVE  posted[n][s] <= 1 + slips + back[s]
        <3>1. slips \in Nat /\ back[s] \in Nat /\ posted[n][s] <= 1 + (slips + back[s])
            BY <2>1, RequestsAre DEF RequestInv, ToldOnce, Excused
        <3>2. QED
            BY <3>1
    <2>2. QED
        BY <2>1 DEF RequestInv, OneDecisionEach, DecidedOnce
<1>4. QED
    BY <1>1, <1>2, <1>3, PTL DEF RequestSpec

HIDE ShinyRequestsAssumption DEF ShinyRequestsAssumption

-------------------------------------------------------------------------------
USE ShinyAccessAssumption DEF ShinyAccessAssumption

\* ShinyAccess.  Only the revisions matter here: what a save has, what the tick took up, read
\* and confirms.
Profiles == [access : BOOLEAN, map : BOOLEAN, notify : BOOLEAN, left : BOOLEAN,
             revision : Nat, applied : Nat]
Ticks == [step : {"idle", "ensure", "alerts", "confirm"}, pending : Nat]

AccessTypes == player \in Profiles /\ tick \in Ticks /\ read \in Nat

\* What is to be confirmed was there when the tick began, and so when it read the switches.
AccessInv ==
    /\ AccessTypes
    /\ player.applied <= read /\ read <= player.revision
    /\ tick.pending <= player.revision
    /\ tick.step = "confirm" => tick.pending <= read

\* What the profile and the tick are made of.
LEMMA AccessIs ==
    ASSUME AccessTypes
    PROVE  /\ player.access \in BOOLEAN /\ player.map \in BOOLEAN /\ player.left \in BOOLEAN
           /\ player.notify \in BOOLEAN
           /\ player.revision \in Nat /\ player.applied \in Nat
           /\ tick.pending \in Nat /\ read \in Nat
BY DEF AccessTypes, Profiles, Ticks

\* A step that may take a tick to its alerts, and may change the switches but no revision.
LEMMA SameRevisions ==
    ASSUME AccessInv, UNCHANGED read,
           player' \in Profiles, player'.revision = player.revision,
           player'.applied = player.applied,
           tick' = tick \/ tick' = [tick EXCEPT !.step = "alerts"]
    PROVE  AccessInv'
<1>1. tick' \in Ticks /\ tick'.pending = tick.pending
      /\ (tick'.step = "confirm" => tick.step = "confirm")
    BY DEF AccessInv, AccessTypes, Ticks
<1>2. QED
    BY <1>1, AccessIs DEF AccessInv, AccessTypes

\* The helper holds the message of the settings without touching a revision.
LEMMA EnsureStepsKeep ==
    ASSUME AccessInv, HolderStep \/ EnsureReads \/ EnsureFails
    PROVE  AccessInv'
<1>1. UNCHANGED <<player, read>>
    BY DEF HolderStep, Make, SetChannel, Show, Recheck, Intro, Open, Archive, Hide, SaysOff,
        EnsureReads, EnsureFails, ChannelOnly
<1>2. tick' = tick \/ tick' = [tick EXCEPT !.step = "alerts"]
    <2>1. CASE Make \/ SetChannel \/ Show \/ Recheck \/ Intro
        BY <2>1 DEF Make, SetChannel, Show, Recheck, Intro, Ends
    <2>2. CASE Open \/ Archive \/ Hide \/ SaysOff
        BY <2>2 DEF Open, Archive, Hide, SaysOff, Ends
    <2>3. CASE EnsureReads
        BY <2>3 DEF EnsureReads
    <2>4. CASE EnsureFails
        BY <2>4 DEF EnsureFails, Ends
    <2>5. QED
        BY <2>1, <2>2, <2>3, <2>4 DEF HolderStep
<1>3. player' \in Profiles
    BY <1>1 DEF AccessInv, AccessTypes
<1>4. QED
    BY <1>1, <1>2, <1>3, SameRevisions

\* A save is a revision more.
LEMMA SavesKeep ==
    ASSUME AccessInv, SavesSettings
    PROVE  AccessInv'
<1>1. UNCHANGED <<tick, read>>
    BY DEF SavesSettings, Site
<1>2. PICK access \in BOOLEAN, map \in BOOLEAN, notify \in BOOLEAN :
          player' = [player EXCEPT !.access = access, !.map = map /\ access, !.notify = notify,
                                   !.revision = @ + 1]
    BY DEF SavesSettings
<1>3. player'.revision = player.revision + 1 /\ player'.applied = player.applied
    BY <1>2 DEF AccessInv, AccessTypes, Profiles
<1>4. player' \in Profiles
    <2>1. PICK r \in Nat : r = player.revision + 1
        BY AccessIs DEF AccessInv
    <2>2. PICK m \in BOOLEAN : m = (map /\ access)
        OBVIOUS
    <2>3. [player EXCEPT !.access = access, !.map = m, !.notify = notify, !.revision = r] \in Profiles
        BY DEF AccessInv, AccessTypes, Profiles
    <2>4. QED
        BY <1>2, <2>1, <2>2, <2>3
<1>5. QED
    BY <1>1, <1>3, <1>4, AccessIs DEF AccessInv, AccessTypes

\* A departure, a link or a permission by hand touches no revision.
LEMMA HandsKeep ==
    ASSUME AccessInv, Departs \/ Links \/ OpenByHand
    PROVE  AccessInv'
<1>1. UNCHANGED <<tick, read>>
    BY DEF Departs, Links, OpenByHand, Site
<1>2. /\ player' \in Profiles /\ player'.revision = player.revision
      /\ player'.applied = player.applied
    <2>1. CASE Links
        BY <2>1 DEF Links, AccessInv, AccessTypes
    <2>2. CASE Departs
        BY <2>2 DEF Departs, AccessInv, AccessTypes, Profiles
    <2>3. CASE OpenByHand
        <3>1. PICK m \in BOOLEAN : m = (player.map \/ ~player.left)
            BY AccessIs DEF AccessInv
        <3>2. player' = [player EXCEPT !.map = m]
            BY <2>3, <3>1 DEF OpenByHand
        <3>3. QED
            BY <3>2 DEF AccessInv, AccessTypes, Profiles
    <2>4. QED
        BY <2>1, <2>2, <2>3
<1>3. QED
    BY <1>1, <1>2, SameRevisions

\* The tick takes up a revision that was saved.
LEMMA TickBeginsKeeps ==
    ASSUME AccessInv, TickBegins
    PROVE  AccessInv'
<1>1. UNCHANGED <<player, read>>
    BY DEF TickBegins, ChannelOnly
<1>2. PICK pending \in Nat : pending = IF player.applied < player.revision THEN player.revision
                                       ELSE 0
    BY AccessIs DEF AccessInv
<1>3. tick' \in Ticks /\ tick'.pending = pending /\ tick'.step # "confirm"
    BY <1>2 DEF TickBegins, Ticks
<1>4. pending <= player.revision
    BY <1>2, AccessIs DEF AccessInv
<1>5. QED
    BY <1>1, <1>3, <1>4, AccessIs DEF AccessInv, AccessTypes

\* The settings are read at the revision the player has now, which is no older.
LEMMA ReadsSettingsKeeps ==
    ASSUME AccessInv, ReadsSettings
    PROVE  AccessInv'
<1>1. player' = player /\ read' = player.revision
    BY DEF ReadsSettings
<1>2. tick' \in Ticks /\ tick'.pending = tick.pending
    BY DEF ReadsSettings, AccessInv, AccessTypes, Ticks
<1>3. QED
    BY <1>1, <1>2, AccessIs DEF AccessInv, AccessTypes

\* Only what was read is confirmed.
LEMMA ConfirmsKeeps ==
    ASSUME AccessInv, Confirms
    PROVE  AccessInv'
<1>1. read' = read /\ tick.pending <= read
    BY DEF Confirms, AccessInv
<1>2. tick' \in Ticks /\ tick'.pending = 0 /\ tick'.step # "confirm"
    BY DEF Confirms, Ticks
<1>3. player' = player \/ player' = [player EXCEPT !.applied = tick.pending]
    BY DEF Confirms
<1>4. /\ player' \in Profiles /\ player'.revision = player.revision
      /\ player'.applied = player.applied \/ player'.applied = tick.pending
    <2>1. player \in Profiles /\ tick.pending \in Nat
        BY AccessIs DEF AccessInv, AccessTypes
    <2>2. QED
        BY <1>3, <2>1 DEF Profiles
<1>5. QED
    BY <1>1, <1>2, <1>4, AccessIs DEF AccessInv, AccessTypes

\* Every step of the player and of the helper keeps the invariant.
LEMMA AccessStep ==
    ASSUME AccessInv, [ShinyNext]_shinyVars
    PROVE  AccessInv'
<1>1. CASE HolderStep \/ EnsureReads \/ EnsureFails
    BY <1>1, EnsureStepsKeep
<1>2. CASE SavesSettings
    BY <1>2, SavesKeep
<1>3. CASE Departs \/ Links \/ OpenByHand
    BY <1>3, HandsKeep
<1>4. CASE TickBegins
    BY <1>4, TickBeginsKeeps
<1>5. CASE ReadsSettings
    BY <1>5, ReadsSettingsKeeps
<1>6. CASE Confirms
    BY <1>6, ConfirmsKeeps
<1>7. CASE UNCHANGED shinyVars
    BY <1>7 DEF shinyVars, AccessInv, AccessTypes
<1>8. QED
    BY <1>1, <1>2, <1>3, <1>4, <1>5, <1>6, <1>7 DEF ShinyNext, TickStep

\* shiny_store.confirm_settings: a save is confirmed to the site only when the tick has read
\* it, and so was in force for the alerts; a save during the tick waits.
THEOREM ConfirmsWhatWasRead == ShinySpec => []ConfirmedWasRead
<1>1. ShinyInit => AccessInv
    BY DEF ShinyInit, AccessInv, AccessTypes, Profiles, Ticks
<1>2. AccessInv /\ [ShinyNext]_shinyVars => AccessInv'
    BY AccessStep
<1>3. AccessInv => ConfirmedWasRead
    BY DEF AccessInv, ConfirmedWasRead
<1>4. QED
    BY <1>1, <1>2, <1>3, PTL DEF ShinySpec

HIDE ShinyAccessAssumption DEF ShinyAccessAssumption

-------------------------------------------------------------------------------
USE ShinyAlertsAssumption DEF ShinyAlertsAssumption

\* ShinyAlerts.
RoundsOf == [step : {"read", "judge", "send", "digest",
                     "record", "summary", "delivered", "refused"},
             rows : SUBSET Spawns, todo : SUBSET Spawns, one : SUBSET Spawns]

AlertTypes ==
    /\ time \in Nat /\ mark \in Nat /\ losses \in Nat
    /\ spawn \in [Spawns -> [is : {"unseen", "here", "over"}, first : Nat]]
    /\ alerts \in [Spawns -> {"none", "alert", "pending", "sent", "failed"}]
    /\ round \in RoundsOf
    /\ heard \in [Spawns -> Nat] /\ excused \in SUBSET Spawns

\* What was told is on record, and what is about to be told was not heard of.
RecordFirst ==
    /\ \A s \in Spawns : heard[s] <= 1 + losses
    /\ \A s \in Spawns : alerts[s] = "none" => heard[s] = 0
    /\ \A s \in Spawns : alerts[s] = "sent" => heard[s] > 0
    /\ round.step \in {"read", "digest"} => round.one = {}
    /\ round.step = "send" => \A s \in round.one : alerts[s] = "alert" /\ heard[s] = 0
    /\ round.step \in {"record", "summary"} =>
          \A s \in round.one : alerts[s] = "pending" /\ heard[s] = 0
    /\ round.step = "delivered" => \A s \in round.one : heard[s] > 0

\* Who waits to be told: on the map, on no record, and not excused.
Untold(s) == s \notin excused /\ spawn[s].is = "here" /\ alerts[s] = "none"

\* The watermark is no more than LookBack ahead of whoever waits, and who is read and not judged
\* waits for its IV.
MarkBehind ==
    /\ mark <= time
    /\ \A s \in Spawns : spawn[s].first <= time
    /\ mark # 0 => \A s \in Spawns : Untold(s) => mark <= spawn[s].first + LookBack
    /\ round.step \in {"judge", "send"} =>
          \A s \in Spawns : Untold(s) => /\ s \in round.rows
                                         /\ s \notin round.todo => time < spawn[s].first + WaitForIV

AlertInv == AlertTypes /\ RecordFirst /\ MarkBehind

\* What the types of the alerts say, part by part.
LEMMA AlertsAre ==
    ASSUME AlertTypes
    PROVE  /\ time \in Nat /\ mark \in Nat /\ losses \in Nat
           /\ \A s \in Spawns : /\ spawn[s].is \in {"unseen", "here", "over"}
                                /\ spawn[s].first \in Nat /\ heard[s] \in Nat
           /\ round \in RoundsOf
           /\ round.rows \in SUBSET Spawns /\ round.todo \in SUBSET Spawns
           /\ round.one \in SUBSET Spawns
BY DEF AlertTypes, RoundsOf

\* No round is a round with no row.
LEMMA NoRoundIs ==
    /\ NoRound \in RoundsOf /\ NoRound.step = "read" /\ NoRound.one = {}
    /\ [NoRound EXCEPT !.step = "digest"] \in RoundsOf
    /\ [NoRound EXCEPT !.step = "digest"].step = "digest"
    /\ [NoRound EXCEPT !.step = "digest"].one = {}
BY DEF NoRound, RoundsOf

\* A step of a tick, which only ever takes a spawn from those that wait.
LEMMA MarkStays ==
    ASSUME AlertInv, UNCHANGED <<time, spawn, mark>>,
           \A s \in Spawns : Untold(s)' => Untold(s),
           round'.step \in {"judge", "send"} =>
              /\ round.step \in {"judge", "send"} /\ round'.rows = round.rows
              /\ \A s \in Spawns : Untold(s)' /\ s \notin round'.todo => s \notin round.todo
    PROVE  MarkBehind'
<1>1. \A s \in Spawns : Untold(s)' => Untold(s)
    OBVIOUS
<1>2. CASE round'.step \in {"judge", "send"}
    BY <1>1, <1>2 DEF AlertInv, MarkBehind
<1>3. CASE round'.step \notin {"judge", "send"}
    BY <1>1, <1>3 DEF AlertInv, MarkBehind
<1>4. QED
    BY <1>2, <1>3

\* The game and the clock.
LEMMA GameKeeps ==
    ASSUME AlertInv, TimePasses \/ \E s \in Spawns : Sighted(s) \/ Expires(s)
    PROVE  AlertInv'
<1> USE DEF AlertInv
<1>1. /\ UNCHANGED <<mark, alerts, round, heard, excused, losses>>
      /\ round.step \notin {"judge", "send"}
      /\ time \in Nat /\ mark \in Nat
    BY AlertsAre DEF TimePasses, Sighted, Expires, Looks
<1>2. time' \in Nat /\ time <= time'
    BY <1>1 DEF TimePasses, Sighted, Expires
<1>3. spawn' \in [Spawns -> [is : {"unseen", "here", "over"}, first : Nat]]
    <2>1. CASE TimePasses
        BY <2>1 DEF TimePasses, AlertTypes
    <2>2. ASSUME NEW s \in Spawns, Sighted(s)
          PROVE  spawn' \in [Spawns -> [is : {"unseen", "here", "over"}, first : Nat]]
        BY <1>1, <2>2 DEF Sighted, AlertTypes
    <2>3. ASSUME NEW s \in Spawns, Expires(s)
          PROVE  spawn' \in [Spawns -> [is : {"unseen", "here", "over"}, first : Nat]]
        BY <2>3 DEF Expires, AlertTypes
    <2>4. QED
        BY <2>1, <2>2, <2>3
<1>4. \A s \in Spawns : \/ spawn'[s].first = spawn[s].first /\ (spawn'[s].is = "here" => spawn[s].is = "here")
                        \/ spawn'[s].first = time
    <2>1. CASE TimePasses
        BY <2>1 DEF TimePasses
    <2>2. ASSUME NEW t \in Spawns, Sighted(t), NEW s \in Spawns
          PROVE  spawn'[s] = spawn[s] \/ spawn'[s].first = time
        BY <2>2 DEF Sighted, AlertTypes
    <2>3. ASSUME NEW t \in Spawns, Expires(t), NEW s \in Spawns
          PROVE  spawn'[s] = spawn[s] \/ (spawn'[s].first = spawn[s].first /\ spawn'[s].is = "over")
        BY <2>3 DEF Expires, AlertTypes
    <2>4. QED
        BY <2>1, <2>2, <2>3
<1>5. AlertTypes'
    BY <1>1, <1>2, <1>3 DEF AlertTypes
<1>6. RecordFirst'
    BY <1>1 DEF RecordFirst
<1>7. MarkBehind'
    <2>1. mark <= time /\ \A s \in Spawns : spawn[s].first <= time /\ spawn[s].first \in Nat
        BY AlertsAre DEF MarkBehind
    <2>2. \A s \in Spawns : spawn'[s].first <= time'
        BY <1>1, <1>2, <1>4, <2>1
    <2>3. ASSUME mark # 0, NEW s \in Spawns, Untold(s)'
          PROVE  mark <= spawn'[s].first + LookBack
        <3>1. CASE spawn'[s].first = time
            BY <1>1, <2>1, <3>1 DEF LookBack
        <3>2. CASE spawn'[s].first = spawn[s].first /\ (spawn'[s].is = "here" => spawn[s].is = "here")
            BY <1>1, <2>3, <3>2 DEF Untold, MarkBehind
        <3>3. QED
            BY <1>4, <3>1, <3>2
    <2>4. QED
        BY <1>1, <1>2, <2>1, <2>2, <2>3 DEF MarkBehind
<1>8. QED
    BY <1>5, <1>6, <1>7

\* A link that starts from now leaves nothing behind its mark untold.
LEMMA StartsFromNowKeeps ==
    ASSUME AlertInv, StartsFromNow
    PROVE  AlertInv'
<1> USE DEF AlertInv
<1>1. /\ UNCHANGED <<time, spawn, alerts, heard, losses>> /\ mark' = time
      /\ excused' = excused \union {s \in Spawns : spawn[s].is # "unseen" /\ alerts[s] = "none"}
      /\ round.step = "read" /\ round' = [round EXCEPT !.step = "digest"]
    BY DEF StartsFromNow, Proceeds
<1>2. round' \in RoundsOf /\ round'.step = "digest" /\ round'.one = round.one
    BY <1>1, AlertsAre DEF RoundsOf
<1>3. AlertTypes'
    BY <1>1, <1>2 DEF AlertTypes
<1>4. RecordFirst'
    BY <1>1, <1>2 DEF RecordFirst
<1>5. MarkBehind'
    <2>1. \A s \in Spawns : ~(Untold(s)')
        BY <1>1 DEF Untold
    <2>2. mark' <= time'
        BY <1>1, AlertsAre
    <2>3. QED
        BY <1>1, <1>2, <2>1, <2>2 DEF MarkBehind
<1>6. QED
    BY <1>3, <1>4, <1>5

\* Whoever waits is read; who is not taken up waits for its IV.
LEMMA ReadSpawnsKeeps ==
    ASSUME AlertInv, ReadSpawns
    PROVE  AlertInv'
<1> USE DEF AlertInv
<1>1. /\ UNCHANGED <<time, spawn, mark, alerts, heard, excused, losses>>
      /\ round.step = "read" /\ mark # 0
    BY DEF ReadSpawns
<1>2. PICK measured \in SUBSET Worth :
          round' = [round EXCEPT !.step = "judge", !.rows = Worth,
                                 !.todo = measured \union
                                          {s \in Worth : time - spawn[s].first >= WaitForIV}]
    BY DEF ReadSpawns
<1>3. Worth \in SUBSET Spawns
    BY DEF Worth
<1>4. PICK todo \in SUBSET Spawns :
          todo = measured \union {s \in Worth : time - spawn[s].first >= WaitForIV}
    BY <1>3
<1>5. round' \in RoundsOf /\ round'.step = "judge" /\ round'.rows = Worth /\ round'.todo = todo
    BY <1>2, <1>3, <1>4, AlertsAre DEF RoundsOf
<1>6. AlertTypes'
    BY <1>1, <1>5 DEF AlertTypes
<1>7. RecordFirst'
    BY <1>1, <1>5 DEF RecordFirst
<1>8. MarkBehind'
    <2>1. \A s \in Spawns : Untold(s) => s \in Worth
        BY <1>1, AlertsAre DEF MarkBehind, Worth, Untold, LookBack
    <2>2. \A s \in Spawns : s \in Worth /\ s \notin todo => time < spawn[s].first + WaitForIV
        BY <1>4, AlertsAre DEF WaitForIV
    <2>3. \A s \in Spawns : Untold(s)' <=> Untold(s)
        BY <1>1 DEF Untold
    <2>4. QED
        BY <1>1, <1>5, <2>1, <2>2, <2>3 DEF MarkBehind
<1>9. QED
    BY <1>6, <1>7, <1>8

\* A spawn that is passed over is excused.
LEMMA PassesOverKeeps ==
    ASSUME AlertInv, NEW s \in Spawns, PassesOver(s)
    PROVE  AlertInv'
<1> USE DEF AlertInv
<1>1. /\ UNCHANGED <<time, spawn, mark, alerts, heard, losses>>
      /\ excused' = excused \union {s} /\ round.step = "judge"
    BY DEF PassesOver
<1>2. /\ round' \in RoundsOf /\ round'.step = "judge" /\ round'.rows = round.rows
      /\ round'.todo = round.todo \ {s}
    BY <1>1, AlertsAre DEF PassesOver, RoundsOf
<1>3. AlertTypes'
    BY <1>1, <1>2 DEF AlertTypes
<1>4. RecordFirst'
    BY <1>1, <1>2 DEF RecordFirst
<1>5. MarkBehind'
    <2>1. \A t \in Spawns : Untold(t)' => Untold(t) /\ t # s
        BY <1>1 DEF Untold
    <2>2. QED
        BY <1>1, <1>2, <2>1, MarkStays
<1>6. QED
    BY <1>3, <1>4, <1>5

\* The record comes before the message.
LEMMA RecordAlertKeeps ==
    ASSUME AlertInv, NEW s \in Spawns, RecordAlert(s)
    PROVE  AlertInv'
<1> USE DEF AlertInv
<1>1. UNCHANGED <<time, spawn, mark, heard, excused, losses>> /\ round.step = "judge"
    BY DEF RecordAlert
<1>2. /\ round' \in RoundsOf /\ round'.rows = round.rows
      /\ round'.todo = round.todo \ {s} /\ round'.one = {s}
      /\ round'.step = IF alerts[s] = "none" THEN "send" ELSE "judge"
    BY <1>1, AlertsAre DEF RecordAlert, RoundsOf
<1>3. /\ alerts' \in [Spawns -> {"none", "alert", "pending", "sent", "failed"}]
      /\ alerts[s] = "none" => alerts'[s] = "alert"
      /\ alerts[s] # "none" => alerts'[s] = alerts[s]
      /\ \A t \in Spawns : t # s => alerts'[t] = alerts[t]
    BY DEF RecordAlert, AlertTypes
<1>4. AlertTypes'
    BY <1>1, <1>2, <1>3 DEF AlertTypes
<1>5. RecordFirst'
    <2>1. \A t \in Spawns : alerts'[t] = "none" => alerts[t] = "none"
        BY <1>3
    <2>2. \A t \in Spawns : alerts'[t] = "sent" => alerts[t] = "sent"
        BY <1>3
    <2>3. round'.step = "send" => alerts'[s] = "alert" /\ heard[s] = 0
        BY <1>2, <1>3 DEF RecordFirst
    <2>4. QED
        BY <1>1, <1>2, <2>1, <2>2, <2>3 DEF RecordFirst
<1>6. MarkBehind'
    <2>1. \A t \in Spawns : Untold(t)' => Untold(t) /\ t # s
        BY <1>1, <1>3 DEF Untold
    <2>2. QED
        BY <1>1, <1>2, <2>1, MarkStays
<1>7. QED
    BY <1>4, <1>5, <1>6

\* Told twice only when an answer is lost.
LEMMA SendAlertKeeps ==
    ASSUME AlertInv, SendAlert
    PROVE  AlertInv'
<1> USE DEF AlertInv
<1>1. UNCHANGED <<time, spawn, mark, alerts, excused>> /\ round.step = "send"
    BY DEF SendAlert
<1>2. /\ round' \in RoundsOf /\ round'.rows = round.rows /\ round'.todo = round.todo
      /\ round'.one = round.one /\ round'.step = "judge"
    BY <1>1, AlertsAre DEF SendAlert, Proceeds, RoundsOf
<1>3. PICK times \in 0..2 : /\ Tells(round.one, times) /\ losses' \in Nat /\ losses <= losses'
                            /\ times <= 1 + losses'
    BY AlertsAre DEF SendAlert
<1>4. /\ heard' \in [Spawns -> Nat]
      /\ \A s \in Spawns : s \in round.one => heard'[s] = heard[s] + times
      /\ \A s \in Spawns : s \notin round.one => heard'[s] = heard[s]
    BY <1>3 DEF Tells, AlertTypes
<1>5. \A s \in round.one : alerts[s] = "alert" /\ heard[s] = 0
    BY <1>1 DEF RecordFirst
<1>6. AlertTypes'
    BY <1>1, <1>2, <1>3, <1>4 DEF AlertTypes
<1>7. RecordFirst'
    <2>1. ASSUME NEW s \in Spawns
          PROVE  /\ heard'[s] <= 1 + losses'
                 /\ alerts[s] = "none" => heard'[s] = 0
                 /\ alerts[s] = "sent" => heard'[s] > 0
        <3>1. CASE s \in round.one
            <4>1. heard'[s] = times
                BY <1>3, <1>4, <1>5, <3>1
            <4>2. alerts[s] # "none" /\ alerts[s] # "sent"
                BY <1>5, <3>1
            <4>3. QED
                BY <1>3, <4>1, <4>2
        <3>2. CASE s \notin round.one
            BY <1>3, <1>4, <3>2, AlertsAre DEF RecordFirst
        <3>3. QED
            BY <3>1, <3>2
    <2>2. QED
        BY <1>1, <1>2, <2>1 DEF RecordFirst
<1>8. MarkBehind'
    <2>1. \A t \in Spawns : Untold(t)' <=> Untold(t)
        BY <1>1 DEF Untold
    <2>2. QED
        BY <1>1, <1>2, <2>1, MarkStays
<1>9. QED
    BY <1>6, <1>7, <1>8

\* The watermark follows what was read, and who still waits is not far behind it.
LEMMA MovesMarkKeeps ==
    ASSUME AlertInv, MovesMark
    PROVE  AlertInv'
<1> USE DEF AlertInv
<1>1. /\ UNCHANGED <<time, spawn, alerts, heard, excused, losses>>
      /\ round.step = "judge" /\ round.todo = {}
    BY DEF MovesMark
<1>2. round' \in RoundsOf /\ round'.step = "digest" /\ round'.one = {}
    BY NoRoundIs DEF MovesMark
<1>3. mark' \in Nat /\ mark' <= time
    <2>1. CASE round.rows = {}
        BY <2>1, AlertsAre DEF MovesMark, MarkBehind
    <2>2. CASE round.rows # {}
        <3> DEFINE firsts == {spawn[s].first : s \in round.rows}
        <3>1. time \in Nat /\ firsts \subseteq 0..time /\ firsts # {}
            BY <2>2, AlertsAre DEF MarkBehind
        <3>2. \E m \in firsts : \A y \in firsts : y <= m
            BY <3>1, HasNewest
        <3>3. \E m \in firsts : \A s \in round.rows : spawn[s].first <= m
            BY <3>2
        <3>4. mark' = CHOOSE m \in firsts : \A s \in round.rows : spawn[s].first <= m
            BY <2>2 DEF MovesMark
        <3> HIDE DEF firsts
        <3>5. mark' \in firsts
            BY <3>3, <3>4
        <3>6. QED
            BY <3>1, <3>5
    <2>3. QED
        BY <2>1, <2>2
<1>4. AlertTypes'
    BY <1>1, <1>2, <1>3 DEF AlertTypes
<1>5. RecordFirst'
    BY <1>1, <1>2 DEF RecordFirst
<1>6. MarkBehind'
    <2>1. \A s \in Spawns : Untold(s)' <=> Untold(s)
        BY <1>1 DEF Untold
    <2>2. \A s \in Spawns : Untold(s) => time < spawn[s].first + WaitForIV
        BY <1>1 DEF MarkBehind
    <2>3. \A s \in Spawns : Untold(s) => mark' <= spawn[s].first + LookBack
        BY <1>3, <2>2, AlertsAre DEF WaitForIV, LookBack
    <2>4. QED
        BY <1>1, <1>2, <1>3, <2>1, <2>3 DEF MarkBehind
<1>7. QED
    BY <1>4, <1>5, <1>6

\* The end of a round touches no record.
LEMMA RoundEndsKeeps ==
    ASSUME AlertInv, RoundEnds
    PROVE  AlertInv'
<1> USE DEF AlertInv
<1>1. /\ UNCHANGED <<time, spawn, mark, alerts, heard, excused>>
      /\ round' = NoRound /\ losses' = losses + 1
    BY DEF RoundEnds
<1>2. AlertTypes'
    BY <1>1, NoRoundIs DEF AlertTypes
<1>3. RecordFirst'
    BY <1>1, NoRoundIs, AlertsAre DEF RecordFirst
<1>4. MarkBehind'
    BY <1>1, NoRoundIs, MarkStays DEF Untold
<1>5. QED
    BY <1>2, <1>3, <1>4

\* The digest takes up no spawn before its records.
LEMMA DigestKeeps ==
    ASSUME AlertInv, ClaimDigest
    PROVE  AlertInv'
<1> USE DEF AlertInv
<1>1. /\ UNCHANGED <<time, spawn, mark, alerts, heard, excused, losses>>
      /\ round.step = "digest"
    BY DEF ClaimDigest
<1>2. /\ round' \in RoundsOf /\ round'.one = {}
      /\ round'.step = "record" \/ round'.step = "read"
    <2>1. CASE round' = NoRound
        BY <2>1, NoRoundIs
    <2>2. PICK found : found = {s \in AtEvent : alerts[s] = "none" /\ spawn[s].is = "here"}
        OBVIOUS
    <2>3. CASE round' = [round EXCEPT !.step = "record", !.todo = found]
        <3>1. found \in SUBSET Spawns /\ round.one = {}
            BY <1>1, <2>2 DEF RecordFirst
        <3>2. QED
            BY <2>3, <3>1, AlertsAre DEF RoundsOf
    <2>4. QED
        BY <2>1, <2>2, <2>3 DEF ClaimDigest
<1>3. AlertTypes'
    BY <1>1, <1>2 DEF AlertTypes
<1>4. RecordFirst'
    BY <1>1, <1>2 DEF RecordFirst
<1>5. MarkBehind'
    BY <1>1, <1>2, MarkStays DEF Untold
<1>6. QED
    BY <1>3, <1>4, <1>5

\* A spawn is recorded before the digest tells of it.
LEMMA RecordDigestKeeps ==
    ASSUME AlertInv, NEW s \in Spawns, RecordDigest(s)
    PROVE  AlertInv'
<1> USE DEF AlertInv
<1>1. UNCHANGED <<time, spawn, mark, heard, excused, losses>> /\ round.step = "record"
    BY DEF RecordDigest
<1>2. PICK one \in SUBSET Spawns : one = IF alerts[s] = "none" THEN round.one \union {s}
                                         ELSE round.one
    BY AlertsAre
<1>3. /\ round' \in RoundsOf /\ round'.one = one
      /\ round'.step = "record" \/ round'.step = "summary"
    <2>1. PICK step \in {"record", "summary"} :
              step = IF round.todo = {s} THEN "summary" ELSE "record"
        OBVIOUS
    <2>2. round' = [round EXCEPT !.todo = @ \ {s}, !.one = one, !.step = step]
        BY <1>2, <2>1 DEF RecordDigest
    <2>3. QED
        BY <2>1, <2>2, AlertsAre DEF RoundsOf
<1>4. /\ alerts' \in [Spawns -> {"none", "alert", "pending", "sent", "failed"}]
      /\ alerts[s] = "none" => alerts'[s] = "pending"
      /\ alerts[s] # "none" => alerts'[s] = alerts[s]
      /\ \A t \in Spawns : t # s => alerts'[t] = alerts[t]
    BY DEF RecordDigest, AlertTypes
<1>5. AlertTypes'
    BY <1>1, <1>3, <1>4 DEF AlertTypes
<1>6. RecordFirst'
    <2>1. \A t \in Spawns : /\ alerts'[t] = "none" => alerts[t] = "none"
                            /\ alerts'[t] = "sent" => alerts[t] = "sent"
        BY <1>4
    <2>2. \A t \in one : alerts'[t] = "pending" /\ heard[t] = 0
        BY <1>1, <1>2, <1>4 DEF RecordFirst
    <2>3. QED
        BY <1>1, <1>3, <2>1, <2>2 DEF RecordFirst
<1>7. MarkBehind'
    <2>1. \A t \in Spawns : Untold(t)' => Untold(t)
        BY <1>1, <1>4 DEF Untold
    <2>2. QED
        BY <1>1, <1>3, <2>1, MarkStays
<1>8. QED
    BY <1>5, <1>6, <1>7

\* The digest tells what it recorded.
LEMMA SendDigestKeeps ==
    ASSUME AlertInv, SendDigest
    PROVE  AlertInv'
<1> USE DEF AlertInv
<1>1. UNCHANGED <<time, spawn, mark, alerts, excused, losses>> /\ round.step = "summary"
    BY DEF SendDigest
<1>2. /\ round' \in RoundsOf /\ round'.one = round.one
      /\ round'.step = "delivered" \/ round'.step = "refused"
    BY <1>1, AlertsAre DEF SendDigest, Proceeds, RoundsOf
<1>3. /\ heard' \in [Spawns -> Nat]
      /\ \A s \in Spawns : heard'[s] = heard[s] \/ (s \in round.one /\ heard'[s] = heard[s] + 1)
      /\ round'.step = "delivered" => \A s \in round.one : heard'[s] = heard[s] + 1
    <2>1. CASE Tells(round.one, 1)
        BY <2>1, AlertsAre DEF Tells, AlertTypes
    <2>2. CASE UNCHANGED heard /\ Proceeds("refused")
        <3>1. round'.step = "refused"
            BY <2>2, AlertsAre DEF Proceeds, RoundsOf
        <3>2. QED
            BY <2>2, <3>1 DEF AlertTypes
    <2>3. QED
        BY <2>1, <2>2 DEF SendDigest
<1>4. \A s \in round.one : alerts[s] = "pending" /\ heard[s] = 0
    BY <1>1 DEF RecordFirst
<1>5. AlertTypes'
    BY <1>1, <1>2, <1>3 DEF AlertTypes
<1>6. RecordFirst'
    <2>1. ASSUME NEW s \in Spawns
          PROVE  /\ heard'[s] <= 1 + losses
                 /\ alerts[s] = "none" => heard'[s] = 0
                 /\ alerts[s] = "sent" => heard'[s] > 0
        BY <1>3, <1>4, AlertsAre DEF RecordFirst
    <2>2. round'.step = "delivered" => \A s \in round.one : heard'[s] > 0
        BY <1>3, <1>4
    <2>3. QED
        BY <1>1, <1>2, <2>1, <2>2 DEF RecordFirst
<1>7. MarkBehind'
    BY <1>1, <1>2, MarkStays DEF Untold
<1>8. QED
    BY <1>5, <1>6, <1>7

\* The time of the digest is no record of a spawn.
LEMMA MarkDeliveryKeeps ==
    ASSUME AlertInv, MarkDelivery
    PROVE  AlertInv'
<1> USE DEF AlertInv
<1>1. /\ UNCHANGED <<time, spawn, mark, heard, excused, losses>>
      /\ round' = NoRound /\ round.step \in {"delivered", "refused"}
    BY DEF MarkDelivery
<1>2. /\ alerts' \in [Spawns -> {"none", "alert", "pending", "sent", "failed"}]
      /\ \A s \in Spawns : alerts'[s] = "none" => alerts[s] = "none"
      /\ \A s \in Spawns : alerts'[s] = "sent" => \/ alerts[s] = "sent"
                                                  \/ s \in round.one /\ round.step = "delivered"
    BY <1>1 DEF MarkDelivery, AlertTypes
<1>3. AlertTypes'
    BY <1>1, <1>2, NoRoundIs DEF AlertTypes
<1>4. RecordFirst'
    BY <1>1, <1>2, NoRoundIs DEF RecordFirst
<1>5. MarkBehind'
    BY <1>1, <1>2, NoRoundIs, MarkStays DEF Untold
<1>6. QED
    BY <1>3, <1>4, <1>5

\* At the start no spawn was seen or recorded.
LEMMA AlertStarts ==
    ASSUME AlertInit
    PROVE  AlertInv
<1>1. /\ time = 1 /\ mark \in {0, 1} /\ losses = 0 /\ excused = {} /\ round = NoRound
      /\ spawn = [s \in Spawns |-> [is |-> "unseen", first |-> 0]]
      /\ alerts = [s \in Spawns |-> "none"] /\ heard = [s \in Spawns |-> 0]
    BY DEF AlertInit
<1>2. AlertTypes
    BY <1>1, NoRoundIs DEF AlertTypes
<1>3. RecordFirst
    BY <1>1, NoRoundIs DEF RecordFirst
<1>4. MarkBehind
    BY <1>1, NoRoundIs DEF MarkBehind, Untold
<1>5. QED
    BY <1>2, <1>3, <1>4 DEF AlertInv

\* Every step of the game and of the alerts keeps the invariant.
LEMMA AlertStep ==
    ASSUME AlertInv, [AlertsNext]_alertVars
    PROVE  AlertInv'
<1>1. CASE TimePasses \/ \E s \in Spawns : Sighted(s) \/ Expires(s)
    BY <1>1, GameKeeps
<1>2. CASE \E s \in Spawns : PassesOver(s)
    BY <1>2, PassesOverKeeps
<1>3. CASE \E s \in Spawns : RecordAlert(s)
    BY <1>3, RecordAlertKeeps
<1>4. CASE \E s \in Spawns : RecordDigest(s)
    BY <1>4, RecordDigestKeeps
<1>5. CASE StartsFromNow
    BY <1>5, StartsFromNowKeeps
<1>6. CASE ReadSpawns
    BY <1>6, ReadSpawnsKeeps
<1>7. CASE SendAlert
    BY <1>7, SendAlertKeeps
<1>8. CASE MovesMark
    BY <1>8, MovesMarkKeeps
<1>9. CASE RoundEnds
    BY <1>9, RoundEndsKeeps
<1>10. CASE ClaimDigest
    BY <1>10, DigestKeeps
<1>11. CASE SendDigest
    BY <1>11, SendDigestKeeps
<1>12. CASE MarkDelivery
    BY <1>12, MarkDeliveryKeeps
<1>13. CASE UNCHANGED alertVars
    BY <1>13 DEF alertVars, AlertInv, AlertTypes, RecordFirst, MarkBehind, Untold
<1>14. QED
    BY <1>1, <1>2, <1>3, <1>4, <1>5, <1>6, <1>7, <1>8, <1>9, <1>10, <1>11, <1>12, <1>13
       DEF AlertsNext

\* ShinyAlerts._alert_spawns and ShinyEventDigests.tick: no spawn is told twice but for answers
\* of Poracle that got lost, what is called sent was sent, and the watermark leaves nobody
\* behind who waits for its IV.
THEOREM AlertsTellSpawns == AlertsSpec => []SpawnsAreTold
<1>1. AlertInit => AlertInv
    BY AlertStarts
<1>2. AlertInv /\ [AlertsNext]_alertVars => AlertInv'
    BY AlertStep
<1>3. AlertInv => SpawnsAreTold
    <2>1. AlertInv => ShinyToldOnce
        BY DEF AlertInv, RecordFirst, ShinyToldOnce
    <2>2. AlertInv => NoSpawnSkipped
        BY AlertsAre DEF AlertInv, MarkBehind, NoSpawnSkipped, Untold, Worth, LookBack
    <2>3. QED
        BY <2>1, <2>2 DEF SpawnsAreTold
<1>4. QED
    BY <1>1, <1>2, <1>3, PTL DEF AlertsSpec

HIDE ShinyAlertsAssumption DEF ShinyAlertsAssumption

-------------------------------------------------------------------------------
USE PoracleAssumption DEF PoracleAssumption

\* PoracleRules.
Cmds == [op : Reloading \union {"none", "register", "list", "test"},
         phase : {"idle", "lookup", "check", "call", "start", "reload", "reply"},
         todo : Seq(Item), done : SUBSET Item, kept : SUBSET Item, failed : SUBSET Item]

RuleTypes ==
    /\ humans \in [Channels -> {"unknown", "stopped", "active"}]
    /\ tracked \in SUBSET Item /\ uids \in 0..MaxRules
    /\ cmd \in [Admins -> Cmds]
    /\ alone \in [Admins -> BOOLEAN]

\* A rule is of a channel that Poracle knows, and it never forgets one.
RulesKnown == \A r \in tracked : humans[r.channel] # "unknown"

\* What a command has under way goes with its phase.
CommandFits(a) ==
    /\ cmd[a].phase = "idle" => cmd[a] = Idling
    /\ cmd[a].phase = "lookup" =>
          cmd[a].op \in {"remove", "uid"} /\ cmd[a].done = {} /\ cmd[a].kept = {}
    /\ cmd[a].phase = "check" => cmd[a].op = "add"
    /\ cmd[a].phase = "start" => cmd[a].op = "register"
    /\ cmd[a].phase \in {"check", "call", "start"} => cmd[a].todo # <<>>
    /\ cmd[a].phase \in {"reload", "reply"} /\ cmd[a].op = "remove" => cmd[a].todo = <<>>
    /\ cmd[a].op = "add" => \A i \in Range(cmd[a].todo) : humans[i.channel] # "unknown"

\* Who runs alone has nobody beside him.
AloneIsAlone == \A a, b \in Admins : alone[a] /\ Busy(a) /\ b # a => ~Busy(b)

\* Without overlapping add commands, what is about to be posted is not there.
RulesOnce ==
    ~crowded =>
        /\ \A r, s \in tracked : Alert(r) = Alert(s) => r = s
        /\ \A a, b \in Admins : cmd[a].op = "add" /\ cmd[b].op = "add" => a = b
        /\ \A a \in Admins : cmd[a].op = "add" /\ cmd[a].phase = "call" =>
                                Matching(Head(cmd[a].todo)) = {}

\* What a reply would say, as far as the command has come.
SoundSoFar(a) ==
    /\ cmd[a].op = "add" => \A i \in cmd[a].done \union cmd[a].kept : Matching(i) # {}
    /\ cmd[a].op \in {"remove", "uid"} => cmd[a].done \intersect tracked = {}
    /\ cmd[a].op = "remove" =>
          \A i \in cmd[a].kept : Matching(i) \subseteq Range(cmd[a].todo) \union cmd[a].failed
    /\ cmd[a].op \in {"enable", "register"} =>
          \A i \in cmd[a].done : humans[i.channel] = "active"
    /\ cmd[a].op = "disable" => \A i \in cmd[a].done : humans[i.channel] = "stopped"
    /\ cmd[a].op = "list" => cmd[a].done \subseteq tracked

RulesInv ==
    /\ RuleTypes /\ RulesKnown /\ AloneIsAlone /\ RulesOnce
    /\ \A a \in Admins : CommandFits(a) /\ (alone[a] => SoundSoFar(a))
    /\ ChangesTakeEffect

\* A finite set as a sequence holds what the set holds.
LEMMA SeqOfSet ==
    ASSUME NEW S, IsFiniteSet(S)
    PROVE  /\ SetToSeq(S) \in Seq(S)
           /\ Range(SetToSeq(S)) = S
           /\ S # {} => SetToSeq(S) # <<>>
           /\ S = {} => SetToSeq(S) = <<>>
<1> DEFINE n == Cardinality(S)
           t == SetToSeq(S)
<1>1. n \in Nat /\ ExistsBijection(1..n, S)
    BY FS_CardinalityType
<1>2. \E f \in [1..n -> S] : IsInjective(f)
    <2>1. PICK f : f \in Bijection(1..n, S)
        BY <1>1 DEF ExistsBijection
    <2>2. QED
        BY <2>1 DEF Bijection, Injection, IsInjective
<1>3. t \in [1..n -> S] /\ IsInjective(t)
    BY <1>2 DEF SetToSeq
<1> HIDE DEF t
<1>4. t \in Injection(1..n, S)
    BY <1>3 DEF Injection, IsInjective
<1>5. IsFiniteSet(1..n) /\ Cardinality(1..n) = n
    BY <1>1, FS_Interval
<1>6. t \in Surjection(1..n, S)
    BY <1>4, <1>5, FS_Injection
<1>7. t \in Seq(S) /\ DOMAIN t = 1..n
    BY <1>1, <1>3
<1>8. Range(t) = S
    BY <1>3, <1>6, <1>7 DEF Surjection, Range
<1>9. S # {} => t # <<>>
    BY <1>8 DEF Range
<1>10. S = {} => t = <<>>
    BY <1>7, EmptySeq
<1>11. QED
    BY <1>7, <1>8, <1>9, <1>10 DEF t

\* The head and the tail of a sequence hold what it holds.
LEMMA HeadAndTail ==
    ASSUME NEW S, NEW t \in Seq(S), t # <<>>
    PROVE  /\ Head(t) \in S /\ Tail(t) \in Seq(S)
           /\ Range(t) = Range(Tail(t)) \union {Head(t)}
           /\ Head(t) \in Range(t)
<1>1. /\ Head(t) \in S /\ Head(t) = t[1] /\ Tail(t) \in Seq(S)
      /\ Len(t) \in Nat /\ Len(t) > 0 /\ DOMAIN t = 1..Len(t)
      /\ DOMAIN Tail(t) = 1..(Len(t) - 1)
      /\ \A i \in 1..(Len(t) - 1) : Tail(t)[i] = t[i+1]
    BY HeadTailProperties, LenProperties
<1>2. ASSUME NEW x \in Range(t)
      PROVE  x \in Range(Tail(t)) \union {Head(t)}
    <2>1. PICK i \in 1..Len(t) : t[i] = x
        BY <1>1 DEF Range
    <2>2. CASE i = 1
        BY <1>1, <2>1, <2>2
    <2>3. CASE i # 1
        <3>1. i - 1 \in 1..(Len(t) - 1) /\ t[(i-1)+1] = x
            BY <1>1, <2>1, <2>3
        <3>2. QED
            BY <1>1, <3>1 DEF Range
    <2>4. QED
        BY <2>2, <2>3
<1>3. ASSUME NEW x \in Range(Tail(t))
      PROVE  x \in Range(t)
    <2>1. PICK i \in 1..(Len(t) - 1) : Tail(t)[i] = x
        BY <1>1 DEF Range
    <2>2. i + 1 \in 1..Len(t) /\ t[i+1] = x
        BY <1>1, <2>1
    <2>3. QED
        BY <1>1, <2>2 DEF Range
<1>4. Head(t) \in Range(t)
    BY <1>1 DEF Range
<1>5. QED
    BY <1>1, <1>2, <1>3, <1>4

\* There are finitely many rules and targets.
LEMMA ItemsFinite == IsFiniteSet(Item)
<1> DEFINE Kinds  == Pokemon \union {AnyPokemon}
           Triple == (0..MaxRules) \X (Kinds \X Channels)
           f == [x \in Triple |-> [uid |-> x[1], pokemon |-> x[2][1], channel |-> x[2][2]]]
<1>1. IsFiniteSet(Kinds)
    <2>1. IsFiniteSet(Pokemon) /\ IsFiniteSet({AnyPokemon})
        BY FS_Singleton
    <2>2. QED
        BY <2>1, FS_Union
<1>2. IsFiniteSet(0..MaxRules)
    BY FS_Interval
<1>3. IsFiniteSet(Triple)
    <2>1. IsFiniteSet(Kinds \X Channels)
        BY <1>1, FS_Product
    <2>2. QED
        BY <1>2, <2>1, FS_Product
<1>4. f \in Surjection(Triple, Item)
    <2>1. f \in [Triple -> Item]
        BY DEF Item
    <2>2. ASSUME NEW r \in Item
          PROVE  \E x \in Triple : f[x] = r
        <3>1. <<r.uid, <<r.pokemon, r.channel>>>> \in Triple
            BY DEF Item
        <3>2. f[<<r.uid, <<r.pokemon, r.channel>>>>] = r
            BY <3>1 DEF Item
        <3>3. QED
            BY <3>1, <3>2
    <2>3. QED
        BY <2>1, <2>2 DEF Surjection
<1>5. QED
    BY <1>3, <1>4, FS_Surjection

\* What a command is made of.
LEMMA CmdsAre ==
    ASSUME RuleTypes, NEW a \in Admins
    PROVE  /\ cmd[a] \in Cmds /\ cmd[a].todo \in Seq(Item)
           /\ cmd[a].done \in SUBSET Item /\ cmd[a].kept \in SUBSET Item
           /\ cmd[a].failed \in SUBSET Item
           /\ \A i \in Range(cmd[a].todo) : i \in Item
           /\ cmd[a].todo # <<>> => /\ Head(cmd[a].todo) \in Item
                                    /\ Head(cmd[a].todo) \in Range(cmd[a].todo)
           /\ tracked \in SUBSET Item
<1>1. cmd[a] \in Cmds /\ tracked \in SUBSET Item
    BY DEF RuleTypes
<1>2. /\ cmd[a].todo \in Seq(Item) /\ cmd[a].done \in SUBSET Item
      /\ cmd[a].kept \in SUBSET Item /\ cmd[a].failed \in SUBSET Item
    BY <1>1 DEF Cmds
<1>3. \A i \in Range(cmd[a].todo) : i \in Item
    BY <1>2 DEF Range
<1>4. cmd[a].todo # <<>> => /\ Head(cmd[a].todo) \in Item
                            /\ Head(cmd[a].todo) \in Range(cmd[a].todo)
    BY <1>2, HeadAndTail
<1>5. QED
    BY <1>1, <1>2, <1>3, <1>4

\* An admin without a command.
LEMMA IdlingIs ==
    /\ Idling \in Cmds /\ Idling.op = "none" /\ Idling.phase = "idle"
    /\ Idling.todo = <<>> /\ Idling.done = {} /\ Idling.kept = {} /\ Idling.failed = {}
BY DEF Idling, Cmds

\* A command with its first item dealt with.
LEMMA DealtIs ==
    ASSUME NEW c \in Cmds, c.todo # <<>>
    PROVE  /\ Dealt(c) \in Cmds
           /\ Dealt(c).op = c.op /\ Dealt(c).todo = Tail(c.todo) /\ Dealt(c).done = c.done
           /\ Dealt(c).kept = c.kept /\ Dealt(c).failed = c.failed
           /\ Dealt(c).phase \in {"check", "call", "reload", "reply"}
           /\ Tail(c.todo) # <<>> => Dealt(c).phase = IF c.op = "add" THEN "check" ELSE "call"
           /\ Tail(c.todo) = <<>> => /\ Dealt(c).phase \in {"reload", "reply"}
                                     /\ c.op \in Reloading /\ c.done # {} => Dealt(c).phase = "reload"
<1>1. Tail(c.todo) \in Seq(Item)
    BY HeadAndTail DEF Cmds
<1>2. PICK step \in {"check", "call", "reload", "reply"} :
          step = IF Tail(c.todo) # <<>> THEN IF c.op = "add" THEN "check" ELSE "call"
                 ELSE IF c.op \in Reloading /\ c.done # {} THEN "reload" ELSE "reply"
    OBVIOUS
<1>3. Dealt(c) = [c EXCEPT !.todo = Tail(c.todo), !.phase = step]
    BY <1>2 DEF Dealt
<1>4. /\ Dealt(c) \in Cmds /\ Dealt(c).op = c.op /\ Dealt(c).todo = Tail(c.todo)
      /\ Dealt(c).done = c.done /\ Dealt(c).kept = c.kept /\ Dealt(c).failed = c.failed
      /\ Dealt(c).phase = step
    BY <1>1, <1>3 DEF Cmds
<1>5. QED
    BY <1>2, <1>4

\* What an answer makes of the command: the other admins' stay as they are.
LEMMA AnsweredIs ==
    ASSUME RuleTypes, NEW a \in Admins, NEW o, NEW results \in SUBSET Item,
           cmd[a].todo # <<>>, Answered(a, o, results)
    PROVE  /\ cmd' \in [Admins -> Cmds]
           /\ \A b \in Admins : b # a => cmd'[b] = cmd[b]
           /\ cmd'[a].op = cmd[a].op /\ cmd'[a].todo = Tail(cmd[a].todo)
           /\ cmd'[a].kept = cmd[a].kept
           /\ o = "ok" => /\ cmd'[a].done = cmd[a].done \union results
                          /\ cmd'[a].failed = cmd[a].failed
           /\ o # "ok" => /\ cmd'[a].done = cmd[a].done
                          /\ cmd'[a].failed = cmd[a].failed \union {Head(cmd[a].todo)}
           /\ cmd'[a].phase \in {"check", "call", "reload", "reply"}
           /\ cmd'[a].todo # <<>> => cmd'[a].phase = IF cmd[a].op = "add" THEN "check" ELSE "call"
           /\ cmd'[a].todo = <<>> =>
                 /\ cmd'[a].phase \in {"reload", "reply"}
                 /\ cmd[a].op \in Reloading /\ cmd'[a].done # {} => cmd'[a].phase = "reload"
<1>1. cmd[a] \in Cmds /\ Head(cmd[a].todo) \in Item
    BY CmdsAre
<1>2. PICK c \in Cmds : /\ c = IF o = "ok" THEN [cmd[a] EXCEPT !.done = @ \union results]
                               ELSE [cmd[a] EXCEPT !.failed = @ \union {Head(cmd[a].todo)}]
                        /\ c.op = cmd[a].op /\ c.todo = cmd[a].todo /\ c.kept = cmd[a].kept
                        /\ o = "ok" => /\ c.done = cmd[a].done \union results
                                       /\ c.failed = cmd[a].failed
                        /\ o # "ok" => /\ c.done = cmd[a].done
                                       /\ c.failed = cmd[a].failed \union {Head(cmd[a].todo)}
    <2> DEFINE more == cmd[a].done \union results
               lost == cmd[a].failed \union {Head(cmd[a].todo)}
    <2>1. more \in SUBSET Item /\ lost \in SUBSET Item
        BY <1>1, CmdsAre
    <2> HIDE DEF more, lost
    <2>2. CASE o = "ok"
        <3>1. /\ [cmd[a] EXCEPT !.done = more] \in Cmds
              /\ [cmd[a] EXCEPT !.done = more].done = more
              /\ [cmd[a] EXCEPT !.done = more].failed = cmd[a].failed
              /\ [cmd[a] EXCEPT !.done = more].op = cmd[a].op
              /\ [cmd[a] EXCEPT !.done = more].todo = cmd[a].todo
              /\ [cmd[a] EXCEPT !.done = more].kept = cmd[a].kept
            BY <1>1, <2>1 DEF Cmds
        <3>2. QED
            BY <2>2, <3>1 DEF more
    <2>3. CASE o # "ok"
        <3>1. /\ [cmd[a] EXCEPT !.failed = lost] \in Cmds
              /\ [cmd[a] EXCEPT !.failed = lost].failed = lost
              /\ [cmd[a] EXCEPT !.failed = lost].done = cmd[a].done
              /\ [cmd[a] EXCEPT !.failed = lost].op = cmd[a].op
              /\ [cmd[a] EXCEPT !.failed = lost].todo = cmd[a].todo
              /\ [cmd[a] EXCEPT !.failed = lost].kept = cmd[a].kept
            BY <1>1, <2>1 DEF Cmds
        <3>2. QED
            BY <2>3, <3>1 DEF lost
    <2>4. QED
        BY <2>2, <2>3
<1>3. cmd' = [cmd EXCEPT ![a] = Dealt(c)]
    BY <1>2 DEF Answered, Set
<1>4. /\ cmd' \in [Admins -> Cmds] /\ cmd'[a] = Dealt(c)
      /\ \A b \in Admins : b # a => cmd'[b] = cmd[b]
    BY <1>2, <1>3, DealtIs DEF RuleTypes
<1>5. PICK d \in Cmds : d = Dealt(c)
    BY <1>2, DealtIs
<1>6. /\ d.op = c.op /\ d.todo = Tail(c.todo) /\ d.done = c.done
      /\ d.kept = c.kept /\ d.failed = c.failed
      /\ d.phase \in {"check", "call", "reload", "reply"}
    BY <1>2, <1>5, DealtIs
<1>7. /\ d.todo # <<>> => d.phase = IF c.op = "add" THEN "check" ELSE "call"
      /\ d.todo = <<>> => /\ d.phase \in {"reload", "reply"}
                          /\ c.op \in Reloading /\ c.done # {} => d.phase = "reload"
    BY <1>2, <1>5, DealtIs
<1>8. cmd'[a] = d
    BY <1>4, <1>5
<1>9. /\ cmd'[a].op = cmd[a].op /\ cmd'[a].todo = Tail(cmd[a].todo)
      /\ cmd'[a].kept = cmd[a].kept
    BY <1>2, <1>6, <1>8
<1>10. /\ o = "ok" => /\ cmd'[a].done = cmd[a].done \union results
                      /\ cmd'[a].failed = cmd[a].failed
       /\ o # "ok" => /\ cmd'[a].done = cmd[a].done
                      /\ cmd'[a].failed = cmd[a].failed \union {Head(cmd[a].todo)}
    BY <1>2, <1>6, <1>8
<1>11. /\ cmd'[a].phase \in {"check", "call", "reload", "reply"}
       /\ cmd'[a].todo # <<>> => cmd'[a].phase = IF cmd[a].op = "add" THEN "check" ELSE "call"
       /\ cmd'[a].todo = <<>> =>
             /\ cmd'[a].phase \in {"reload", "reply"}
             /\ cmd[a].op \in Reloading /\ cmd'[a].done # {} => cmd'[a].phase = "reload"
    <2>1. c.op = cmd[a].op /\ d.done = cmd'[a].done /\ d.done = c.done
        BY <1>2, <1>6, <1>8
    <2>2. /\ cmd'[a].phase = d.phase /\ cmd'[a].todo = d.todo /\ cmd'[a].done = c.done
        BY <1>6, <1>8
    <2>3. cmd'[a].todo # <<>> => cmd'[a].phase = IF cmd[a].op = "add" THEN "check" ELSE "call"
        BY <1>7, <2>1, <2>2
    <2>4. cmd'[a].todo = <<>> =>
             /\ cmd'[a].phase \in {"reload", "reply"}
             /\ cmd[a].op \in Reloading /\ cmd'[a].done # {} => cmd'[a].phase = "reload"
        <3>1. ASSUME cmd'[a].todo = <<>>
              PROVE  cmd'[a].phase \in {"reload", "reply"}
            BY <1>7, <2>2, <3>1
        <3>2. ASSUME cmd'[a].todo = <<>>, cmd[a].op \in Reloading, cmd'[a].done # {}
              PROVE  cmd'[a].phase = "reload"
            <4>1. d.todo = <<>> /\ c.op \in Reloading /\ c.done # {}
                BY <2>1, <2>2, <3>2
            <4>2. QED
                BY <1>7, <2>2, <4>1
        <3>3. QED
            BY <3>1, <3>2
    <2>5. QED
        BY <1>6, <2>2, <2>3, <2>4
<1>12. QED
    BY <1>4, <1>9, <1>10, <1>11

\* One admin's step: the other commands stay as they are, and as true as they were.
LEMMA OneSteps ==
    ASSUME RulesInv, NEW a \in Admins, Busy(a),
           cmd' \in [Admins -> Cmds], \A b \in Admins : b # a => cmd'[b] = cmd[b],
           cmd'[a].op \in {cmd[a].op, "none"},
           UNCHANGED <<alone, crowded>>,
           humans' \in [Channels -> {"unknown", "stopped", "active"}],
           \A c \in Channels : humans[c] # "unknown" => humans'[c] # "unknown",
           tracked' \in SUBSET Item, uids' \in 0..MaxRules,
           \A r \in tracked' : humans'[r.channel] # "unknown",
           CommandFits(a)', alone[a] => SoundSoFar(a)',
           ~crowded =>
               /\ \A r, s \in tracked' : Alert(r) = Alert(s) => r = s
               /\ cmd'[a].op = "add" /\ cmd'[a].phase = "call" => Matching(Head(cmd[a].todo))' = {}
               /\ cmd[a].op # "add" => tracked' \subseteq tracked,
           ChangesTakeEffect'
    PROVE  RulesInv'
<1> USE DEF RulesInv
<1>1. RuleTypes'
    BY DEF RuleTypes
<1>2. RulesKnown'
    BY DEF RulesKnown
<1>3. AloneIsAlone'
    BY DEF AloneIsAlone, Busy
<1>4. \A b \in Admins : CommandFits(b)'
    <2>1. ASSUME NEW b \in Admins, b # a
          PROVE  CommandFits(b)'
        <3>1. cmd'[b] = cmd[b] /\ CommandFits(b)
            BY <2>1
        <3>2. \A i \in Range(cmd[b].todo) : i.channel \in Channels
            BY CmdsAre DEF Item
        <3>3. QED
            BY <3>1, <3>2 DEF CommandFits
    <2>2. QED
        BY <2>1
<1>5. \A b \in Admins : alone'[b] => SoundSoFar(b)'
    <2>1. ASSUME NEW b \in Admins, b # a, alone[b]
          PROVE  SoundSoFar(b)'
        <3>1. ~Busy(b)
            BY <2>1 DEF AloneIsAlone
        <3>2. cmd'[b] = Idling
            BY <2>1, <3>1 DEF Busy, CommandFits
        <3>3. QED
            BY <3>2, IdlingIs DEF SoundSoFar
    <2>2. QED
        BY <2>1
<1>6. RulesOnce'
    <2>1. ASSUME ~crowded
          PROVE  /\ \A r, s \in tracked' : Alert(r) = Alert(s) => r = s
                 /\ \A b, c \in Admins : cmd'[b].op = "add" /\ cmd'[c].op = "add" => b = c
                 /\ \A b \in Admins : cmd'[b].op = "add" /\ cmd'[b].phase = "call" =>
                                          Matching(Head(cmd[b].todo))' = {}
        <3>1. \A b \in Admins : cmd'[b].op = "add" => cmd[b].op = "add"
            OBVIOUS
        <3>2. \A b, c \in Admins : cmd'[b].op = "add" /\ cmd'[c].op = "add" => b = c
            BY <2>1, <3>1 DEF RulesOnce
        <3>3. ASSUME NEW b \in Admins, cmd'[b].op = "add", cmd'[b].phase = "call"
              PROVE  Matching(Head(cmd[b].todo))' = {}
            <4>1. CASE b = a
                BY <2>1, <3>3, <4>1
            <4>2. CASE b # a
                <5>1. cmd[b].op = "add" /\ cmd[b].phase = "call" /\ cmd[a].op # "add"
                    BY <2>1, <3>3, <4>2 DEF RulesOnce
                <5>2. Matching(Head(cmd[b].todo)) = {} /\ tracked' \subseteq tracked
                    BY <2>1, <5>1 DEF RulesOnce
                <5>3. cmd'[b].todo = cmd[b].todo
                    BY <4>2
                <5>4. QED
                    BY <5>2, <5>3 DEF Matching
            <4>3. QED
                BY <4>1, <4>2
        <3>4. QED
            BY <2>1, <3>2, <3>3
    <2>2. QED
        BY <2>1 DEF RulesOnce
<1>7. QED
    BY <1>1, <1>2, <1>3, <1>4, <1>5, <1>6

\* A step that changes no rule in force, and does not lose a reload that is due.
LEMMA NothingToReload ==
    ASSUME RulesInv, NEW a \in Admins,
           \A b \in Admins : b # a => cmd'[b] = cmd[b],
           UNCHANGED alerting, Effective' = Effective,
           unloaded => unloaded',
           Unreloaded(cmd[a]) => Unreloaded(cmd'[a]) \/ unloaded'
    PROVE  ChangesTakeEffect'
<1>1. ASSUME \A b \in Admins : ~Unreloaded(cmd'[b]), ~unloaded'
      PROVE  \A b \in Admins : ~Unreloaded(cmd[b])
    BY <1>1
<1>2. QED
    BY <1>1 DEF RulesInv, ChangesTakeEffect, Unreloaded

\* A change that is followed by a reload, or noted as one that is not.
LEMMA ReloadIsDue ==
    ASSUME NEW a \in Admins, Unreloaded(cmd'[a]) \/ unloaded'
    PROVE  ChangesTakeEffect'
BY DEF ChangesTakeEffect, Unreloaded

\* The rules in force are those of the database.
LEMMA SameRules ==
    ASSUME UNCHANGED <<humans, tracked>>
    PROVE  /\ Effective' = Effective
           /\ \A i : Matching(i)' = Matching(i)
BY DEF Effective, Matching, Alert

\* The rule is there already, or its post comes next.
LEMMA CheckRuleKeeps ==
    ASSUME RulesInv, NEW a \in Admins, CheckRule(a)
    PROVE  RulesInv'
<1> USE DEF RulesInv
<1>1. /\ UNCHANGED <<humans, tracked, uids, alerting, unloaded, alone, crowded>>
      /\ cmd[a].op = "add" /\ cmd[a].phase = "check"
    BY DEF CheckRule, ruleStore, Keep
<1>2. /\ cmd[a] \in Cmds /\ cmd[a].todo # <<>> /\ CommandFits(a)
      /\ cmd[a].todo \in Seq(Item) /\ Head(cmd[a].todo) \in Item
    BY <1>1, CmdsAre DEF CommandFits
\* The rule is there, or it will be posted.
<1>3. CASE Matching(Head(cmd[a].todo)) # {}
    <2> DEFINE kept == cmd[a].kept \union {Head(cmd[a].todo)}
               c == [cmd[a] EXCEPT !.kept = kept]
    <2>1. kept \in SUBSET Item
        BY <1>2, CmdsAre
    <2> HIDE DEF kept
    <2>2. /\ c \in Cmds /\ c.op = "add" /\ c.todo = cmd[a].todo /\ c.done = cmd[a].done
          /\ c.kept = kept /\ c.failed = cmd[a].failed
        BY <1>1, <1>2, <2>1 DEF Cmds
    <2>3. cmd' = [cmd EXCEPT ![a] = Dealt(c)]
        BY <1>3 DEF CheckRule, Set, kept
    <2> HIDE DEF c
    <2>4. PICK d \in Cmds : d = Dealt(c)
        BY <1>2, <2>2, DealtIs
    <2>5. /\ d.op = "add" /\ d.todo = Tail(cmd[a].todo) /\ d.done = cmd[a].done /\ d.kept = kept
          /\ d.phase \in {"check", "call", "reload", "reply"}
          /\ d.todo # <<>> => d.phase = "check"
          /\ d.todo = <<>> => /\ d.phase \in {"reload", "reply"}
                              /\ d.done # {} => d.phase = "reload"
        BY <1>2, <2>2, <2>4, DealtIs DEF Reloading
    <2>6. /\ cmd' \in [Admins -> Cmds] /\ cmd'[a] = d
          /\ \A b \in Admins : b # a => cmd'[b] = cmd[b]
        BY <2>3, <2>4 DEF RuleTypes
    <2>7. CommandFits(a)'
        <3>1. \A i \in Range(d.todo) : humans[i.channel] # "unknown"
            BY <1>1, <1>2, <2>5, HeadAndTail DEF CommandFits
        <3>2. QED
            BY <1>1, <2>5, <2>6, <3>1 DEF CommandFits
    <2>8. alone[a] => SoundSoFar(a)'
        <3>1. alone[a] => \A i \in d.done \union d.kept : Matching(i) # {}
            BY <1>1, <1>3, <2>5 DEF SoundSoFar, kept
        <3>2. QED
            BY <1>1, <2>5, <2>6, <3>1, SameRules DEF SoundSoFar
    <2>9. ChangesTakeEffect'
        <3>1. Unreloaded(cmd[a]) => Unreloaded(cmd'[a])
            BY <1>1, <2>5, <2>6 DEF Unreloaded, Reloading
        <3>2. QED
            BY <1>1, <2>6, <3>1, SameRules, NothingToReload
    <2>10. cmd'[a].phase # "call"
        BY <2>5, <2>6
    <2>11. QED
        BY <1>1, <2>5, <2>6, <2>7, <2>8, <2>9, <2>10, OneSteps
           DEF Busy, RuleTypes, RulesKnown, RulesOnce
<1>4. CASE Matching(Head(cmd[a].todo)) = {}
    <2>1. cmd' = [cmd EXCEPT ![a] = [cmd[a] EXCEPT !.phase = "call"]]
        BY <1>4 DEF CheckRule, Set
    <2>2. PICK d \in Cmds : d = [cmd[a] EXCEPT !.phase = "call"]
        BY <1>2 DEF Cmds
    <2>3. /\ d.op = "add" /\ d.todo = cmd[a].todo /\ d.done = cmd[a].done /\ d.kept = cmd[a].kept
          /\ d.phase = "call" /\ d.failed = cmd[a].failed
        BY <1>1, <1>2, <2>2 DEF Cmds
    <2>4. /\ cmd' \in [Admins -> Cmds] /\ cmd'[a] = d
          /\ \A b \in Admins : b # a => cmd'[b] = cmd[b]
        BY <2>1, <2>2 DEF RuleTypes
    <2>5. CommandFits(a)'
        BY <1>1, <1>2, <2>3, <2>4 DEF CommandFits
    <2>6. alone[a] => SoundSoFar(a)'
        BY <1>1, <2>3, <2>4, SameRules DEF SoundSoFar
    <2>7. ChangesTakeEffect'
        <3>1. Unreloaded(cmd[a]) => Unreloaded(cmd'[a])
            BY <1>1, <2>3, <2>4 DEF Unreloaded, Reloading
        <3>2. QED
            BY <1>1, <2>4, <3>1, SameRules, NothingToReload
    <2>8. Matching(Head(cmd[a].todo))' = {}
        BY <1>1, <1>4, <2>3, <2>4 DEF Matching
    <2>9. QED
        BY <1>1, <2>3, <2>4, <2>5, <2>6, <2>7, <2>8, OneSteps
           DEF Busy, RuleTypes, RulesKnown, RulesOnce
<1>5. QED
    BY <1>3, <1>4

\* After an answer the command goes on with the next item, or to its end.
LEMMA AnswerFits ==
    ASSUME RulesInv, NEW a \in Admins, NEW o, NEW results \in SUBSET Item,
           cmd[a].phase \in {"call", "start"}, Answered(a, o, results),
           \A c \in Channels : humans[c] # "unknown" => humans'[c] # "unknown"
    PROVE  /\ Busy(a) /\ cmd[a].todo # <<>>
           /\ Head(cmd[a].todo) \in Item /\ Head(cmd[a].todo) \in Range(cmd[a].todo)
           /\ Range(cmd[a].todo) = Range(cmd'[a].todo) \union {Head(cmd[a].todo)}
           /\ cmd' \in [Admins -> Cmds] /\ \A b \in Admins : b # a => cmd'[b] = cmd[b]
           /\ cmd'[a].op = cmd[a].op /\ cmd'[a].kept = cmd[a].kept
           /\ o = "ok" => /\ cmd'[a].done = cmd[a].done \union results
                          /\ cmd'[a].failed = cmd[a].failed
           /\ o # "ok" => /\ cmd'[a].done = cmd[a].done
                          /\ cmd'[a].failed = cmd[a].failed \union {Head(cmd[a].todo)}
           /\ CommandFits(a)'
           /\ ~(cmd'[a].op = "add" /\ cmd'[a].phase = "call")
           /\ cmd[a].op \in Reloading /\ cmd'[a].done # {} => Unreloaded(cmd'[a])
<1>1. RuleTypes /\ CommandFits(a)
    BY DEF RulesInv
<1>2. Busy(a) /\ cmd[a].todo # <<>>
    BY <1>1 DEF CommandFits, Busy
<1>3. /\ Head(cmd[a].todo) \in Item /\ Head(cmd[a].todo) \in Range(cmd[a].todo)
      /\ cmd[a].todo \in Seq(Item)
    BY <1>1, <1>2, CmdsAre
<1>4. Range(cmd[a].todo) = Range(Tail(cmd[a].todo)) \union {Head(cmd[a].todo)}
    BY <1>2, <1>3, HeadAndTail
<1>5. /\ cmd' \in [Admins -> Cmds]
      /\ \A b \in Admins : b # a => cmd'[b] = cmd[b]
      /\ cmd'[a].op = cmd[a].op /\ cmd'[a].todo = Tail(cmd[a].todo)
      /\ cmd'[a].kept = cmd[a].kept
    BY <1>1, <1>2, AnsweredIs
<1>6. /\ o = "ok" => /\ cmd'[a].done = cmd[a].done \union results
                     /\ cmd'[a].failed = cmd[a].failed
      /\ o # "ok" => /\ cmd'[a].done = cmd[a].done
                     /\ cmd'[a].failed = cmd[a].failed \union {Head(cmd[a].todo)}
    BY <1>1, <1>2, AnsweredIs
<1>7. /\ cmd'[a].phase \in {"check", "call", "reload", "reply"}
      /\ cmd'[a].todo # <<>> => cmd'[a].phase = IF cmd[a].op = "add" THEN "check" ELSE "call"
      /\ cmd'[a].todo = <<>> => cmd'[a].phase \in {"reload", "reply"}
    BY <1>1, <1>2, AnsweredIs
<1>8. cmd'[a].todo = <<>> /\ cmd[a].op \in Reloading /\ cmd'[a].done # {} =>
          cmd'[a].phase = "reload"
    BY <1>1, <1>2, AnsweredIs
<1>9. CommandFits(a)'
    <2>1. cmd'[a].op = "add" => \A i \in Range(cmd'[a].todo) : humans'[i.channel] # "unknown"
        <3>1. \A i \in Range(cmd[a].todo) : i.channel \in Channels
            BY <1>1, CmdsAre DEF Item
        <3>2. QED
            BY <1>1, <1>4, <1>5, <3>1 DEF CommandFits
    <2>2. QED
        BY <1>5, <1>7, <2>1 DEF CommandFits
<1>10. ~(cmd'[a].op = "add" /\ cmd'[a].phase = "call")
    BY <1>5, <1>7
<1>11. cmd[a].op \in Reloading /\ cmd'[a].done # {} => Unreloaded(cmd'[a])
    BY <1>5, <1>7, <1>8 DEF Unreloaded
<1>12. QED
    BY <1>2, <1>3, <1>4, <1>5, <1>6, <1>9, <1>10, <1>11

\* The same, for calls that change no rule in force.
LEMMA AnswerNoChange ==
    ASSUME RulesInv, NEW a \in Admins, NEW o, NEW results \in SUBSET Item,
           cmd[a].phase \in {"call", "start"}, Answered(a, o, results),
           \A c \in Channels : humans[c] # "unknown" => humans'[c] # "unknown",
           UNCHANGED alerting, Effective' = Effective, unloaded => unloaded'
    PROVE  ChangesTakeEffect'
<1>1. /\ \A b \in Admins : b # a => cmd'[b] = cmd[b]
      /\ cmd'[a].op = cmd[a].op /\ cmd[a].done \subseteq cmd'[a].done
      /\ cmd[a].op \in Reloading /\ cmd'[a].done # {} => Unreloaded(cmd'[a])
    BY AnswerFits
<1>2. Unreloaded(cmd[a]) => Unreloaded(cmd'[a])
    BY <1>1 DEF Unreloaded
<1>3. QED
    BY <1>1, <1>2, NothingToReload

\* The rule that is posted is the only one of its kind, unless two add commands overlap.
LEMMA PostRuleKeeps ==
    ASSUME RulesInv, NEW a \in Admins, PostRule(a)
    PROVE  RulesInv'
<1> USE DEF RulesInv
<1>1. /\ UNCHANGED <<humans, alerting, alone, crowded>>
      /\ cmd[a].op = "add" /\ cmd[a].phase = "call" /\ uids < MaxRules
    BY DEF PostRule, Keep
<1>2. CommandFits(a) /\ cmd[a].todo # <<>> /\ Head(cmd[a].todo) \in Item
      /\ Head(cmd[a].todo) \in Range(cmd[a].todo)
    BY <1>1, CmdsAre DEF CommandFits
<1>3. PICK item \in Item : item = Head(cmd[a].todo)
    BY <1>2
<1>4. PICK o : /\ Answered(a, o, {item}) /\ Landed(o)
               /\ tracked' = IF o = "refused" THEN tracked
                             ELSE tracked \union {[item EXCEPT !.uid = uids + 1]}
               /\ uids' = IF o = "refused" THEN uids ELSE uids + 1
               /\ o \in {"ok", "refused", "lost"}
    BY <1>3 DEF PostRule, Outcome
<1>5. PICK new \in Item : /\ new = [item EXCEPT !.uid = uids + 1]
                          /\ Alert(new) = Alert(item) /\ new.channel = item.channel
    <2>1. uids + 1 \in 0..MaxRules
        BY <1>1 DEF RuleTypes
    <2>2. PICK n \in 0..MaxRules : n = uids + 1
        BY <2>1
    <2>3. /\ [item EXCEPT !.uid = n] \in Item /\ [item EXCEPT !.uid = n].channel = item.channel
          /\ [item EXCEPT !.uid = n].pokemon = item.pokemon
        BY DEF Item
    <2>4. QED
        BY <2>2, <2>3 DEF Alert
<1>6. /\ tracked' \in SUBSET Item /\ tracked \subseteq tracked'
      /\ tracked' \subseteq tracked \union {new}
      /\ o # "refused" => new \in tracked'
      /\ o = "refused" => tracked' = tracked
    BY <1>4, <1>5 DEF RuleTypes
<1>7. uids' \in 0..MaxRules
    BY <1>1, <1>4 DEF RuleTypes
<1>8. humans[item.channel] # "unknown"
    BY <1>1, <1>2, <1>3 DEF CommandFits
<1>9. /\ Busy(a) /\ cmd' \in [Admins -> Cmds] /\ \A b \in Admins : b # a => cmd'[b] = cmd[b]
      /\ cmd'[a].op = cmd[a].op /\ cmd'[a].kept = cmd[a].kept
      /\ CommandFits(a)' /\ ~(cmd'[a].op = "add" /\ cmd'[a].phase = "call")
    BY <1>1, <1>3, <1>4, AnswerFits
<1>10. /\ o = "ok" => cmd'[a].done = cmd[a].done \union {item}
       /\ o # "ok" => cmd'[a].done = cmd[a].done
       /\ cmd[a].op \in Reloading /\ cmd'[a].done # {} => Unreloaded(cmd'[a])
    BY <1>1, <1>3, <1>4, AnswerFits
<1>11. alone[a] => SoundSoFar(a)'
    <2>1. \A i : Matching(i) # {} => Matching(i)' # {}
        BY <1>6 DEF Matching
    <2>2. o = "ok" => Matching(item)' # {}
        BY <1>5, <1>6 DEF Matching
    <2>3. alone[a] => \A i \in cmd'[a].done \union cmd'[a].kept : Matching(i)' # {}
        BY <1>1, <1>9, <1>10, <2>1, <2>2 DEF SoundSoFar
    <2>4. QED
        BY <1>1, <1>9, <2>3 DEF SoundSoFar
<1>12. ~crowded => \A r, s \in tracked' : Alert(r) = Alert(s) => r = s
    <2>1. ~crowded => \A r \in tracked : Alert(r) # Alert(new)
        BY <1>1, <1>3, <1>5 DEF RulesOnce, Matching
    <2>2. QED
        BY <1>6, <2>1 DEF RulesOnce
<1>13. \A r \in tracked' : humans[r.channel] # "unknown"
    BY <1>5, <1>6, <1>8 DEF RulesKnown
<1>14. ChangesTakeEffect'
    <2>1. CASE o = "ok"
        BY <1>1, <1>10, <2>1, ReloadIsDue DEF Reloading
    <2>2. CASE o = "lost"
        BY <1>4, <2>2, ReloadIsDue DEF Landed
    <2>3. CASE o = "refused"
        <3>1. Effective' = Effective /\ (unloaded => unloaded')
            BY <1>1, <1>4, <1>6, <2>3, SameRules DEF Landed
        <3>2. QED
            BY <1>1, <1>3, <1>4, <3>1, AnswerNoChange
    <2>4. QED
        BY <1>4, <2>1, <2>2, <2>3
<1>15. QED
    BY <1>1, <1>6, <1>7, <1>9, <1>11, <1>12, <1>13, <1>14, OneSteps DEF RuleTypes

\* A rule that was deleted is gone, and nobody else of his kind brings it back.
LEMMA DeleteRuleKeeps ==
    ASSUME RulesInv, NEW a \in Admins, DeleteRule(a)
    PROVE  RulesInv'
<1> USE DEF RulesInv
<1>1. /\ UNCHANGED <<humans, uids, alerting, alone, crowded>>
      /\ cmd[a].op \in {"remove", "uid"} /\ cmd[a].phase = "call"
    BY DEF DeleteRule, Keep
<1>2. CommandFits(a) /\ cmd[a].todo # <<>> /\ Head(cmd[a].todo) \in Item
    BY <1>1, CmdsAre DEF CommandFits
<1>3. PICK item \in Item : item = Head(cmd[a].todo)
    BY <1>2
<1>4. PICK o : /\ Answered(a, o, {item}) /\ Landed(o)
               /\ tracked' = IF o = "refused" THEN tracked ELSE tracked \ {item}
               /\ o \in {"ok", "refused", "lost"}
    BY <1>3 DEF DeleteRule, Outcome
<1>5. tracked' \in SUBSET Item /\ tracked' \subseteq tracked /\ (o = "ok" => item \notin tracked')
    BY <1>4 DEF RuleTypes
<1>6. /\ Busy(a) /\ cmd' \in [Admins -> Cmds] /\ \A b \in Admins : b # a => cmd'[b] = cmd[b]
      /\ cmd'[a].op = cmd[a].op /\ cmd'[a].kept = cmd[a].kept
      /\ CommandFits(a)' /\ ~(cmd'[a].op = "add" /\ cmd'[a].phase = "call")
    BY <1>1, <1>3, <1>4, AnswerFits
<1>7. /\ o = "ok" => cmd'[a].done = cmd[a].done \union {item} /\ cmd'[a].failed = cmd[a].failed
      /\ o # "ok" => /\ cmd'[a].done = cmd[a].done
                     /\ cmd'[a].failed = cmd[a].failed \union {item}
      /\ cmd[a].op \in Reloading /\ cmd'[a].done # {} => Unreloaded(cmd'[a])
      /\ Range(cmd[a].todo) = Range(cmd'[a].todo) \union {item}
    BY <1>1, <1>3, <1>4, AnswerFits
<1>8. alone[a] => SoundSoFar(a)'
    <2>1. alone[a] => cmd'[a].done \intersect tracked' = {}
        BY <1>1, <1>5, <1>7 DEF SoundSoFar
    <2>2. ASSUME alone[a], cmd[a].op = "remove", NEW i \in cmd[a].kept, NEW r \in Matching(i)'
          PROVE  r \in Range(cmd'[a].todo) \union cmd'[a].failed
        <3>1. r \in tracked' /\ r \in Matching(i)
            BY <1>5, <2>2 DEF Matching
        <3>2. r \in Range(cmd[a].todo) \union cmd[a].failed
            BY <2>2, <3>1 DEF SoundSoFar
        <3>3. QED
            BY <1>5, <1>7, <3>1, <3>2
    <2>3. alone[a] /\ cmd'[a].op = "remove" =>
              \A i \in cmd'[a].kept : Matching(i)' \subseteq Range(cmd'[a].todo) \union cmd'[a].failed
        BY <1>6, <2>2
    <2>4. cmd'[a].op \in {"remove", "uid"}
        BY <1>1, <1>6
    <2>5. QED
        BY <2>1, <2>3, <2>4 DEF SoundSoFar, Matching
<1>9. ChangesTakeEffect'
    <2>1. CASE o = "ok"
        BY <1>1, <1>7, <2>1, ReloadIsDue DEF Reloading
    <2>2. CASE o = "lost"
        BY <1>4, <2>2, ReloadIsDue DEF Landed
    <2>3. CASE o = "refused"
        <3>1. Effective' = Effective /\ (unloaded => unloaded')
            BY <1>1, <1>4, <2>3, SameRules DEF Landed
        <3>2. QED
            BY <1>1, <1>3, <1>4, <3>1, AnswerNoChange
    <2>4. QED
        BY <1>4, <2>1, <2>2, <2>3
<1>10. QED
    BY <1>1, <1>5, <1>6, <1>8, <1>9, OneSteps DEF RuleTypes, RulesKnown, RulesOnce

\* A channel is switched as the command says.
LEMMA StartOrStopKeeps ==
    ASSUME RulesInv, NEW a \in Admins, StartOrStop(a)
    PROVE  RulesInv'
<1> USE DEF RulesInv
<1>1. /\ UNCHANGED <<tracked, uids, alerting, alone, crowded>>
      /\ cmd[a].op \in {"enable", "disable"} /\ cmd[a].phase = "call"
    BY DEF StartOrStop, Keep
<1>2. CommandFits(a) /\ cmd[a].todo # <<>> /\ Head(cmd[a].todo) \in Item
    BY <1>1, CmdsAre DEF CommandFits
<1>3. PICK item \in Item : item = Head(cmd[a].todo)
    BY <1>2
<1>4. PICK put \in {"active", "stopped"} : put = IF cmd[a].op = "enable" THEN "active" ELSE "stopped"
    OBVIOUS
<1>5. PICK o : /\ Answered(a, o, {item}) /\ Landed(o)
               /\ humans' = IF o = "refused" THEN humans ELSE [humans EXCEPT ![item.channel] = put]
               /\ o \in {"ok", "refused", "lost"}
    BY <1>3, <1>4 DEF StartOrStop, Outcome
<1>6. /\ item.channel \in Channels
      /\ humans' \in [Channels -> {"unknown", "stopped", "active"}]
      /\ \A c \in Channels : humans[c] # "unknown" => humans'[c] # "unknown"
      /\ \A c \in Channels : humans'[c] = humans[c] \/ humans'[c] = put
      /\ o = "ok" => humans'[item.channel] = put
    BY <1>5 DEF RuleTypes, Item
<1>7. /\ Busy(a) /\ cmd' \in [Admins -> Cmds] /\ \A b \in Admins : b # a => cmd'[b] = cmd[b]
      /\ cmd'[a].op = cmd[a].op
      /\ CommandFits(a)' /\ ~(cmd'[a].op = "add" /\ cmd'[a].phase = "call")
    BY <1>1, <1>3, <1>5, <1>6, AnswerFits
<1>8. /\ o = "ok" => cmd'[a].done = cmd[a].done \union {item}
      /\ o # "ok" => cmd'[a].done = cmd[a].done
      /\ cmd[a].op \in Reloading /\ cmd'[a].done # {} => Unreloaded(cmd'[a])
    BY <1>1, <1>3, <1>5, <1>6, AnswerFits
<1>9. alone[a] => SoundSoFar(a)'
    <2>1. \A i \in cmd[a].done : i.channel \in Channels
        BY CmdsAre DEF Item
    <2>2. alone[a] => \A i \in cmd[a].done : humans[i.channel] = put
        BY <1>1, <1>4 DEF SoundSoFar
    <2>3. alone[a] => \A i \in cmd'[a].done : humans'[i.channel] = put
        BY <1>6, <1>8, <2>1, <2>2
    <2>4. QED
        BY <1>1, <1>4, <1>7, <2>3 DEF SoundSoFar
<1>10. ChangesTakeEffect'
    <2>1. CASE o = "ok"
        BY <1>1, <1>8, <2>1, ReloadIsDue DEF Reloading
    <2>2. CASE o = "lost"
        BY <1>5, <2>2, ReloadIsDue DEF Landed
    <2>3. CASE o = "refused"
        <3>1. Effective' = Effective /\ (unloaded => unloaded')
            BY <1>1, <1>5, <2>3, SameRules DEF Landed
        <3>2. QED
            BY <1>1, <1>3, <1>5, <1>6, <3>1, AnswerNoChange
    <2>4. QED
        BY <1>5, <2>1, <2>2, <2>3
<1>11. \A r \in tracked : humans'[r.channel] # "unknown"
    BY <1>6 DEF RulesKnown, RuleTypes, Item
<1>12. QED
    BY <1>1, <1>6, <1>7, <1>9, <1>10, <1>11, OneSteps DEF RuleTypes, RulesOnce

\* A step that only changes what its command does next.
LEMMA CommandOnly ==
    ASSUME RulesInv, NEW a \in Admins, Busy(a), NEW d \in Cmds,
           cmd' = [cmd EXCEPT ![a] = d],
           d.op \in {cmd[a].op, "none"}, ~(d.op = "add" /\ d.phase = "call"),
           UNCHANGED <<humans, tracked, uids, alone, crowded>>,
           CommandFits(a)', alone[a] => SoundSoFar(a)', ChangesTakeEffect'
    PROVE  RulesInv'
<1>1. /\ cmd' \in [Admins -> Cmds] /\ cmd'[a] = d
      /\ \A b \in Admins : b # a => cmd'[b] = cmd[b]
    BY DEF RulesInv, RuleTypes
<1>2. QED
    BY <1>1, OneSteps DEF RulesInv, RuleTypes, RulesKnown, RulesOnce

\* A new channel has no rule, so nothing is due.
LEMMA CreateChannelKeeps ==
    ASSUME RulesInv, NEW a \in Admins, CreateChannel(a)
    PROVE  RulesInv'
<1> USE DEF RulesInv
<1>1. /\ UNCHANGED <<tracked, uids, alerting, unloaded, alone, crowded>>
      /\ cmd[a].op = "register" /\ cmd[a].phase = "call"
    BY DEF CreateChannel, Keep
<1>2. /\ CommandFits(a) /\ cmd[a].todo # <<>> /\ Head(cmd[a].todo) \in Item
      /\ cmd[a] \in Cmds /\ Busy(a)
    BY <1>1, CmdsAre DEF CommandFits, Busy
<1>3. PICK item \in Item : item = Head(cmd[a].todo)
    BY <1>2
<1>4. PICK o : /\ o \in {"ok", "refused", "lost"}
               /\ o # "refused" => humans[item.channel] = "unknown"
               /\ cmd' = [cmd EXCEPT ![a] =
                             IF o = "ok" THEN [cmd[a] EXCEPT !.phase = "start"]
                             ELSE [cmd[a] EXCEPT !.phase = "reply", !.failed = {item}]]
               /\ humans' = IF o = "refused" THEN humans
                            ELSE [humans EXCEPT ![item.channel] = "active"]
    BY <1>3 DEF CreateChannel, Outcome, Set
<1>5. PICK d \in Cmds : /\ cmd' = [cmd EXCEPT ![a] = d]
                        /\ d.op = "register" /\ d.done = cmd[a].done /\ d.todo = cmd[a].todo
                        /\ d.phase \in {"start", "reply"}
    <2>1. /\ [cmd[a] EXCEPT !.phase = "start"] \in Cmds
          /\ [cmd[a] EXCEPT !.phase = "start"].op = cmd[a].op
          /\ [cmd[a] EXCEPT !.phase = "start"].done = cmd[a].done
          /\ [cmd[a] EXCEPT !.phase = "start"].todo = cmd[a].todo
          /\ [cmd[a] EXCEPT !.phase = "start"].phase = "start"
        BY <1>2 DEF Cmds
    <2>2. PICK lost \in SUBSET Item : lost = {item}
        OBVIOUS
    <2>3. /\ [cmd[a] EXCEPT !.phase = "reply", !.failed = lost] \in Cmds
          /\ [cmd[a] EXCEPT !.phase = "reply", !.failed = lost].op = cmd[a].op
          /\ [cmd[a] EXCEPT !.phase = "reply", !.failed = lost].done = cmd[a].done
          /\ [cmd[a] EXCEPT !.phase = "reply", !.failed = lost].todo = cmd[a].todo
          /\ [cmd[a] EXCEPT !.phase = "reply", !.failed = lost].phase = "reply"
        BY <1>2 DEF Cmds
    <2>4. CASE o = "ok"
        BY <1>1, <1>4, <2>1, <2>4
    <2>5. CASE o # "ok"
        BY <1>1, <1>4, <2>2, <2>3, <2>5
    <2>6. QED
        BY <2>4, <2>5
<1>6. /\ cmd' \in [Admins -> Cmds] /\ cmd'[a] = d
      /\ \A b \in Admins : b # a => cmd'[b] = cmd[b]
    BY <1>5 DEF RuleTypes
<1>7. /\ item.channel \in Channels
      /\ humans' \in [Channels -> {"unknown", "stopped", "active"}]
      /\ \A c \in Channels : humans'[c] = humans[c] \/ (c = item.channel /\ humans[c] = "unknown"
                                                          /\ humans'[c] = "active")
    BY <1>4 DEF RuleTypes, Item
<1>8. CommandFits(a)'
    BY <1>2, <1>5, <1>6 DEF CommandFits
<1>9. alone[a] => SoundSoFar(a)'
    <2>1. \A i \in cmd[a].done : i.channel \in Channels
        BY <1>2, CmdsAre DEF Item
    <2>2. alone[a] => \A i \in cmd[a].done : humans[i.channel] = "active"
        BY <1>1 DEF SoundSoFar
    <2>3. alone[a] => \A i \in cmd'[a].done : humans'[i.channel] = "active"
        BY <1>5, <1>6, <1>7, <2>1, <2>2
    <2>4. QED
        BY <1>5, <1>6, <2>3 DEF SoundSoFar
\* A channel that was unknown had no rules.
<1>10. \A r \in tracked : humans'[r.channel] = humans[r.channel]
    BY <1>7 DEF RulesKnown, RuleTypes, Item
<1>11. ChangesTakeEffect'
    <2>1. Effective' = Effective
        BY <1>1, <1>10 DEF Effective, Alert
    <2>2. ~Unreloaded(cmd[a])
        BY <1>1 DEF Unreloaded, Reloading
    <2>3. QED
        BY <1>1, <1>6, <2>1, <2>2, NothingToReload
<1>12. /\ \A r \in tracked' : humans'[r.channel] # "unknown"
       /\ \A c \in Channels : humans[c] # "unknown" => humans'[c] # "unknown"
    BY <1>1, <1>7, <1>10 DEF RulesKnown
<1>13. /\ humans' \in [Channels -> {"unknown", "stopped", "active"}]
       /\ tracked' \in SUBSET Item /\ uids' \in 0..MaxRules
    BY <1>1, <1>7 DEF RuleTypes
<1>14. ~(cmd'[a].op = "add" /\ cmd'[a].phase = "call")
    BY <1>2, <1>5, <1>6
<1>15. QED
    BY <1>1, <1>2, <1>5, <1>6, <1>8, <1>9, <1>11, <1>12, <1>13, <1>14, OneSteps
       DEF RulesOnce

\* A channel that was stopped is active again, and noted as unloaded.
LEMMA StartChannelKeeps ==
    ASSUME RulesInv, NEW a \in Admins, StartChannel(a)
    PROVE  RulesInv'
<1> USE DEF RulesInv
<1>1. /\ UNCHANGED <<tracked, uids, alerting, alone, crowded>>
      /\ cmd[a].phase = "start" /\ CommandFits(a)
    BY DEF StartChannel, Keep
<1>2. cmd[a].op = "register" /\ cmd[a].todo # <<>> /\ Head(cmd[a].todo) \in Item
    BY <1>1, CmdsAre DEF CommandFits
<1>3. PICK item \in Item : item = Head(cmd[a].todo)
    BY <1>2
<1>4. PICK o : /\ Answered(a, o, {item}) /\ o \in {"ok", "refused", "lost"}
               /\ unloaded' = (unloaded \/ (o # "refused" /\ humans[item.channel] = "stopped"))
               /\ humans' = IF o = "refused" THEN humans
                            ELSE [humans EXCEPT ![item.channel] = "active"]
    BY <1>3 DEF StartChannel, Outcome
<1>5. /\ item.channel \in Channels
      /\ humans' \in [Channels -> {"unknown", "stopped", "active"}]
      /\ \A c \in Channels : humans[c] # "unknown" => humans'[c] # "unknown"
      /\ \A c \in Channels : humans'[c] = humans[c] \/ (c = item.channel /\ humans'[c] = "active"
                                                                         /\ o # "refused")
      /\ o = "ok" => humans'[item.channel] = "active"
    BY <1>4 DEF RuleTypes, Item
<1>6. /\ Busy(a) /\ cmd' \in [Admins -> Cmds] /\ \A b \in Admins : b # a => cmd'[b] = cmd[b]
      /\ cmd'[a].op = cmd[a].op
      /\ CommandFits(a)' /\ ~(cmd'[a].op = "add" /\ cmd'[a].phase = "call")
    BY <1>1, <1>3, <1>4, <1>5, AnswerFits
<1>7. /\ o = "ok" => cmd'[a].done = cmd[a].done \union {item}
      /\ o # "ok" => cmd'[a].done = cmd[a].done
    BY <1>1, <1>3, <1>4, <1>5, AnswerFits
<1>8. alone[a] => SoundSoFar(a)'
    <2>1. \A i \in cmd[a].done : i.channel \in Channels
        BY CmdsAre DEF Item
    <2>2. alone[a] => \A i \in cmd[a].done : humans[i.channel] = "active"
        BY <1>2 DEF SoundSoFar
    <2>3. alone[a] => \A i \in cmd'[a].done : humans'[i.channel] = "active"
        BY <1>5, <1>7, <2>1, <2>2
    <2>4. QED
        BY <1>2, <1>6, <2>3 DEF SoundSoFar
<1>9. \A r \in tracked : humans'[r.channel] # "unknown"
    BY <1>5 DEF RulesKnown, RuleTypes, Item
<1>10. ChangesTakeEffect'
    <2>1. CASE unloaded'
        BY <2>1, ReloadIsDue
    <2>2. CASE ~unloaded'
        <3>1. \A r \in tracked : r.channel \in Channels /\ humans[r.channel] # "unknown"
            BY DEF RulesKnown, RuleTypes, Item
        <3>2. \A r \in tracked : humans'[r.channel] = "active" <=> humans[r.channel] = "active"
            BY <1>4, <1>5, <2>2, <3>1 DEF RuleTypes
        <3>3. Effective' = Effective
            BY <1>1, <3>2 DEF Effective, Alert
        <3>4. QED
            BY <1>1, <1>3, <1>4, <1>5, <2>2, <3>3, AnswerNoChange
    <2>3. QED
        BY <2>1, <2>2
<1>11. QED
    BY <1>1, <1>5, <1>6, <1>8, <1>9, <1>10, OneSteps DEF RuleTypes, RulesOnce

\* A list shows rules that are there; a test changes nothing.
LEMMA ListAndTestKeep ==
    ASSUME RulesInv, NEW a \in Admins, ListPerChannel(a) \/ TestPokemon(a)
    PROVE  RulesInv'
<1> USE DEF RulesInv
<1>1. /\ UNCHANGED <<humans, tracked, uids, alerting, unloaded, alone, crowded>>
      /\ cmd[a].op \in {"list", "test"} /\ cmd[a].phase = "call"
    BY DEF ListPerChannel, TestPokemon, ruleStore, Keep
<1>2. CommandFits(a) /\ cmd[a].todo # <<>> /\ Head(cmd[a].todo) \in Item
    BY <1>1, CmdsAre DEF CommandFits
<1>3. \E o \in {"ok", "refused", "lost"}, results \in SUBSET Item :
          Answered(a, o, results) /\ (cmd[a].op = "list" => results \subseteq tracked)
    <2>1. CASE ListPerChannel(a)
        <3>1. PICK results \in SUBSET Item :
                  results = {r \in tracked : r.channel = Head(cmd[a].todo).channel}
            BY DEF RuleTypes
        <3>2. PICK o \in {"ok", "refused"} :
                  Answered(a, o, {r \in tracked : r.channel = Head(cmd[a].todo).channel})
            BY <2>1 DEF ListPerChannel
        <3>3. Answered(a, o, results) /\ results \subseteq tracked
            BY <3>1, <3>2
        <3>4. QED
            BY <3>3
    <2>2. CASE TestPokemon(a)
        <3>1. PICK o \in {"ok", "refused", "lost"} : Answered(a, o, {Head(cmd[a].todo)})
            BY <2>2 DEF TestPokemon, Outcome
        <3>2. cmd[a].op # "list"
            BY <2>2 DEF TestPokemon
        <3>3. PICK results \in SUBSET Item : results = {Head(cmd[a].todo)}
            BY <1>2
        <3>4. QED
            BY <3>1, <3>2, <3>3
    <2>3. QED
        BY <1>1, <2>1, <2>2
<1>4. PICK o \in {"ok", "refused", "lost"}, results \in SUBSET Item :
          Answered(a, o, results) /\ (cmd[a].op = "list" => results \subseteq tracked)
    BY <1>3
<1>5. /\ Busy(a) /\ cmd' \in [Admins -> Cmds] /\ \A b \in Admins : b # a => cmd'[b] = cmd[b]
      /\ cmd'[a].op = cmd[a].op
      /\ CommandFits(a)' /\ ~(cmd'[a].op = "add" /\ cmd'[a].phase = "call")
    BY <1>1, <1>4, AnswerFits
<1>6. cmd'[a].done \subseteq cmd[a].done \union results
    BY <1>1, <1>4, AnswerFits
<1>7. alone[a] => SoundSoFar(a)'
    <2>1. alone[a] /\ cmd'[a].op = "list" => cmd'[a].done \subseteq tracked
        BY <1>4, <1>5, <1>6 DEF SoundSoFar
    <2>2. QED
        BY <1>1, <1>5, <2>1 DEF SoundSoFar
<1>8. ChangesTakeEffect'
    BY <1>1, <1>4, SameRules, AnswerNoChange
<1>9. QED
    BY <1>1, <1>5, <1>7, <1>8, OneSteps DEF RuleTypes, RulesKnown, RulesOnce

\* The rules to delete are those that match the targets, or the one that was named.
LEMMA LookupKeeps ==
    ASSUME RulesInv, NEW a \in Admins, Lookup(a)
    PROVE  RulesInv'
<1> USE DEF RulesInv
<1>1. /\ UNCHANGED <<humans, tracked, uids, alerting, unloaded, alone, crowded>>
      /\ cmd[a].phase = "lookup" /\ Busy(a) /\ CommandFits(a)
    BY DEF Lookup, ruleStore, Keep, Busy
<1>2. /\ cmd[a] \in Cmds /\ cmd[a].op \in {"remove", "uid"}
      /\ cmd[a].done = {} /\ cmd[a].todo \in Seq(Item) /\ Range(cmd[a].todo) \in SUBSET Item
    BY <1>1, CmdsAre DEF CommandFits
<1>3. PICK found : found = IF cmd[a].op = "uid" THEN tracked \intersect Range(cmd[a].todo)
                           ELSE UNION {Matching(cmd[a].todo[i]) : i \in DOMAIN cmd[a].todo}
    OBVIOUS
<1>4. found \in SUBSET tracked /\ found \in SUBSET Item
    BY <1>3 DEF Matching, RuleTypes
<1>5. PICK todo \in Seq(Item) : /\ todo = SetToSeq(found) /\ Range(todo) = found
                                /\ found # {} => todo # <<>>
                                /\ found = {} => todo = <<>>
    <2>1. IsFiniteSet(found)
        BY <1>4, ItemsFinite, FS_Subset
    <2>2. SetToSeq(found) \in Seq(Item)
        BY <1>4, <2>1, SeqOfSet
    <2>3. QED
        BY <2>1, <2>2, SeqOfSet
<1>6. PICK kept \in SUBSET Item : kept = Range(cmd[a].todo)
    BY <1>2
<1>7. PICK step \in {"reply", "call"} : step = IF found = {} THEN "reply" ELSE "call"
    OBVIOUS
<1>8. cmd' = [cmd EXCEPT ![a] = [cmd[a] EXCEPT !.todo = todo, !.kept = kept, !.phase = step]]
    BY <1>3, <1>5, <1>6, <1>7 DEF Lookup, Set
<1>9. PICK d \in Cmds : /\ d = [cmd[a] EXCEPT !.todo = todo, !.kept = kept, !.phase = step]
                        /\ d.op = cmd[a].op /\ d.todo = todo /\ d.kept = kept
                        /\ d.done = {} /\ d.phase = step
    <2>1. /\ [cmd[a] EXCEPT !.todo = todo, !.kept = kept, !.phase = step] \in Cmds
          /\ [cmd[a] EXCEPT !.todo = todo, !.kept = kept, !.phase = step].op = cmd[a].op
          /\ [cmd[a] EXCEPT !.todo = todo, !.kept = kept, !.phase = step].todo = todo
          /\ [cmd[a] EXCEPT !.todo = todo, !.kept = kept, !.phase = step].kept = kept
          /\ [cmd[a] EXCEPT !.todo = todo, !.kept = kept, !.phase = step].done = cmd[a].done
          /\ [cmd[a] EXCEPT !.todo = todo, !.kept = kept, !.phase = step].phase = step
        BY <1>2 DEF Cmds
    <2>2. QED
        BY <1>2, <2>1
<1>10. cmd'[a] = d /\ cmd' = [cmd EXCEPT ![a] = d] /\ \A b \in Admins : b # a => cmd'[b] = cmd[b]
    BY <1>8, <1>9 DEF RuleTypes
<1>11. CommandFits(a)'
    BY <1>2, <1>5, <1>7, <1>9, <1>10 DEF CommandFits
<1>12. alone[a] => SoundSoFar(a)'
    <2>1. ASSUME cmd[a].op = "remove", NEW i \in kept
          PROVE  Matching(i) \subseteq found
        <3>1. PICK j \in DOMAIN cmd[a].todo : cmd[a].todo[j] = i
            BY <1>6 DEF Range
        <3>2. QED
            BY <1>3, <2>1, <3>1
    <2>2. cmd'[a].op = "remove" => \A i \in cmd'[a].kept : Matching(i)' \subseteq Range(cmd'[a].todo)
        BY <1>1, <1>5, <1>9, <1>10, <2>1, SameRules
    <2>3. QED
        BY <1>2, <1>9, <1>10, <2>2 DEF SoundSoFar, Matching
<1>13. ChangesTakeEffect'
    <2>1. ~Unreloaded(cmd[a])
        BY <1>2 DEF Unreloaded
    <2>2. QED
        BY <1>1, <1>10, <2>1, SameRules, NothingToReload
<1>14. QED
    BY <1>1, <1>2, <1>9, <1>10, <1>11, <1>12, <1>13, CommandOnly

\* A reload puts the rules in force, or is noted as missing.
LEMMA ReloadPoracleKeeps ==
    ASSUME RulesInv, NEW a \in Admins, ReloadPoracle(a)
    PROVE  RulesInv'
<1> USE DEF RulesInv
<1>1. /\ UNCHANGED <<humans, tracked, uids, alone, crowded>>
      /\ cmd[a].phase = "reload" /\ Busy(a) /\ CommandFits(a) /\ cmd[a] \in Cmds
    BY CmdsAre DEF ReloadPoracle, database, Keep, Busy
<1>2. PICK o : /\ o \in {"ok", "refused", "lost"}
               /\ alerting' = IF o = "refused" THEN alerting ELSE Effective
               /\ unloaded' = (o = "refused" \/ (unloaded /\ o = "lost"))
               /\ cmd' = [cmd EXCEPT ![a] =
                            [cmd[a] EXCEPT !.phase = "reply",
                                !.done = IF cmd[a].op = "uid" /\ o # "ok" THEN {} ELSE @]]
    BY DEF ReloadPoracle, Outcome, Set
<1>3. PICK done \in SUBSET cmd[a].done :
          done = IF cmd[a].op = "uid" /\ o # "ok" THEN {} ELSE cmd[a].done
    OBVIOUS
<1>4. PICK d \in Cmds : /\ d = [cmd[a] EXCEPT !.phase = "reply", !.done = done]
                        /\ d.op = cmd[a].op /\ d.todo = cmd[a].todo /\ d.kept = cmd[a].kept
                        /\ d.done = done /\ d.phase = "reply" /\ d.failed = cmd[a].failed
    <2>1. done \in SUBSET Item
        BY <1>1 DEF Cmds
    <2>2. /\ [cmd[a] EXCEPT !.phase = "reply", !.done = done] \in Cmds
          /\ [cmd[a] EXCEPT !.phase = "reply", !.done = done].op = cmd[a].op
          /\ [cmd[a] EXCEPT !.phase = "reply", !.done = done].todo = cmd[a].todo
          /\ [cmd[a] EXCEPT !.phase = "reply", !.done = done].kept = cmd[a].kept
          /\ [cmd[a] EXCEPT !.phase = "reply", !.done = done].done = done
          /\ [cmd[a] EXCEPT !.phase = "reply", !.done = done].phase = "reply"
          /\ [cmd[a] EXCEPT !.phase = "reply", !.done = done].failed = cmd[a].failed
        BY <1>1, <2>1 DEF Cmds
    <2>3. QED
        BY <2>2
<1>5. cmd' = [cmd EXCEPT ![a] = d] /\ cmd'[a] = d
    BY <1>2, <1>3, <1>4 DEF RuleTypes
<1>6. CommandFits(a)'
    BY <1>1, <1>4, <1>5 DEF CommandFits
<1>7. alone[a] => SoundSoFar(a)'
    <2>1. ASSUME alone[a]
          PROVE  /\ d.op = "add" => \A i \in done \union d.kept : Matching(i) # {}
                 /\ d.op \in {"remove", "uid"} => done \intersect tracked = {}
                 /\ d.op = "remove" =>
                       \A i \in d.kept : Matching(i) \subseteq Range(d.todo) \union d.failed
                 /\ d.op \in {"enable", "register"} => \A i \in done : humans[i.channel] = "active"
                 /\ d.op = "disable" => \A i \in done : humans[i.channel] = "stopped"
                 /\ d.op = "list" => done \subseteq tracked
        BY <1>3, <1>4, <2>1 DEF SoundSoFar
    <2>2. QED
        BY <1>1, <1>4, <1>5, <2>1, SameRules DEF SoundSoFar
<1>8. ChangesTakeEffect'
    <2>1. CASE o = "refused"
        BY <1>2, <2>1, ReloadIsDue
    <2>2. CASE o # "refused"
        BY <1>1, <1>2, <2>2, SameRules DEF ChangesTakeEffect
    <2>3. QED
        BY <2>1, <2>2
<1>9. QED
    BY <1>1, <1>4, <1>5, <1>6, <1>7, <1>8, CommandOnly

\* The command is over; what it left unloaded is noted.
LEMMA CommandEndsKeeps ==
    ASSUME RulesInv, NEW a \in Admins, ReplyToAdmin(a) \/ DatabaseFails(a)
    PROVE  RulesInv'
<1> USE DEF RulesInv
<1>1. /\ UNCHANGED <<humans, tracked, uids, alerting, alone, crowded>>
      /\ Busy(a) /\ cmd' = [cmd EXCEPT ![a] = Idling]
      /\ unloaded => unloaded'
    <2>1. CASE ReplyToAdmin(a)
        BY <2>1 DEF ReplyToAdmin, ruleStore, Keep, Busy, Set
    <2>2. CASE DatabaseFails(a)
        <3>1. unloaded => unloaded'
            BY <2>2 DEF DatabaseFails
        <3>2. Busy(a) /\ cmd' = [cmd EXCEPT ![a] = Idling]
            BY <2>2 DEF DatabaseFails, Busy, Set
        <3>3. QED
            BY <2>2, <3>1, <3>2 DEF DatabaseFails, ruleStore, Keep
    <2>3. QED
        BY <2>1, <2>2
<1>2. cmd'[a] = Idling /\ \A b \in Admins : b # a => cmd'[b] = cmd[b]
    BY <1>1 DEF RuleTypes
<1>3. CommandFits(a)'
    BY <1>2, IdlingIs DEF CommandFits
<1>4. SoundSoFar(a)'
    BY <1>2, IdlingIs DEF SoundSoFar
<1>5. ChangesTakeEffect'
    <2>1. Unreloaded(cmd[a]) => unloaded'
        BY DEF ReplyToAdmin, DatabaseFails, Unreloaded
    <2>2. QED
        BY <1>1, <1>2, <2>1, SameRules, NothingToReload
<1>6. QED
    BY <1>1, <1>3, <1>4, <1>5, IdlingIs, CommandOnly

\* What the restart left unloaded is noted.
LEMMA NotifyRestartKeeps ==
    ASSUME RulesInv, NotifyRestart
    PROVE  RulesInv'
<1> USE DEF RulesInv
<1>1. /\ UNCHANGED <<humans, tracked, uids, alerting, alone, crowded>>
      /\ unloaded' = (unloaded \/ \E a \in Admins : Unreloaded(cmd[a]))
      /\ cmd' = [a \in Admins |-> Idling]
    BY DEF NotifyRestart, ruleStore, Keep
<1>2. RuleTypes'
    BY <1>1, IdlingIs DEF RuleTypes
<1>3. RulesKnown' /\ AloneIsAlone'
    BY <1>1, IdlingIs DEF RulesKnown, AloneIsAlone, Busy
<1>4. RulesOnce'
    BY <1>1, IdlingIs DEF RulesOnce
<1>5. \A a \in Admins : CommandFits(a)' /\ (alone'[a] => SoundSoFar(a)')
    BY <1>1, IdlingIs DEF CommandFits, SoundSoFar
<1>6. ChangesTakeEffect'
    <2>1. Effective' = Effective
        BY <1>1, SameRules
    <2>2. QED
        BY <1>1, <2>1 DEF ChangesTakeEffect
<1>7. QED
    BY <1>2, <1>3, <1>4, <1>5, <1>6

\* A new command: from here on nobody who was under way is alone.
LEMMA OrderKeeps ==
    ASSUME RulesInv, NEW a \in Admins,
           NEW op \in Reloading \union {"register", "list", "test"},
           NEW phase \in {"lookup", "check", "call"}, NEW items \in SUBSET Item,
           phase = "lookup" => op \in {"remove", "uid"},
           phase = "check" <=> op = "add",
           op = "add" => \A i \in items : humans[i.channel] # "unknown",
           Order(a, op, phase, items)
    PROVE  RulesInv'
<1> USE DEF RulesInv
<1>1. /\ UNCHANGED <<humans, tracked, uids, alerting, unloaded>>
      /\ ~Busy(a) /\ items # {}
      /\ alone' = [b \in Admins |-> IF b = a THEN \A o \in Admins : ~Busy(o)
                                    ELSE alone[b] /\ ~Busy(b)]
      /\ crowded' = (crowded \/ (op = "add" /\ \E b \in Admins : cmd[b].op = "add"))
    BY DEF Order, ruleStore
<1>2. PICK todo \in Seq(Item) : todo = SetToSeq(items) /\ Range(todo) = items /\ todo # <<>>
    <2>1. IsFiniteSet(items)
        BY ItemsFinite, FS_Subset
    <2>2. SetToSeq(items) \in Seq(Item)
        BY <2>1, SeqOfSet
    <2>3. QED
        BY <1>1, <2>1, <2>2, SeqOfSet
<1>3. PICK d \in Cmds : /\ d = [Idling EXCEPT !.op = op, !.phase = phase, !.todo = todo]
                        /\ d.op = op /\ d.phase = phase /\ d.todo = todo
                        /\ d.done = {} /\ d.kept = {} /\ d.failed = {}
    <2>1. /\ [Idling EXCEPT !.op = op, !.phase = phase, !.todo = todo] \in Cmds
          /\ [Idling EXCEPT !.op = op, !.phase = phase, !.todo = todo].op = op
          /\ [Idling EXCEPT !.op = op, !.phase = phase, !.todo = todo].phase = phase
          /\ [Idling EXCEPT !.op = op, !.phase = phase, !.todo = todo].todo = todo
          /\ [Idling EXCEPT !.op = op, !.phase = phase, !.todo = todo].done = {}
          /\ [Idling EXCEPT !.op = op, !.phase = phase, !.todo = todo].kept = {}
          /\ [Idling EXCEPT !.op = op, !.phase = phase, !.todo = todo].failed = {}
        BY DEF Idling, Cmds
    <2>2. QED
        BY <2>1
<1>4. /\ cmd' = [cmd EXCEPT ![a] = d] /\ cmd'[a] = d /\ cmd' \in [Admins -> Cmds]
      /\ \A b \in Admins : b # a => cmd'[b] = cmd[b]
    BY <1>2, <1>3 DEF Order, RuleTypes
<1>5. cmd[a] = Idling
    BY <1>1 DEF Busy, CommandFits
<1>6. /\ alone' \in [Admins -> BOOLEAN]
      /\ alone'[a] => \A b \in Admins : ~Busy(b)
      /\ \A b \in Admins : b # a /\ alone'[b] => alone[b] /\ ~Busy(b)
    BY <1>1 DEF RuleTypes, Busy
<1>7. RuleTypes'
    BY <1>1, <1>4, <1>6 DEF RuleTypes
<1>8. RulesKnown'
    BY <1>1 DEF RulesKnown
<1>9. AloneIsAlone'
    <2>1. \A b \in Admins : b # a => (Busy(b)' <=> Busy(b))
        BY <1>4 DEF Busy
    <2>2. QED
        BY <1>6, <2>1 DEF AloneIsAlone
<1>10. RulesOnce'
    <2>1. ASSUME ~crowded'
          PROVE  \A b, c \in Admins : cmd'[b].op = "add" /\ cmd'[c].op = "add" => b = c
        <3>1. ~crowded /\ (op = "add" => \A b \in Admins : cmd[b].op # "add")
            BY <1>1, <2>1
        <3>2. QED
            BY <1>3, <1>4, <3>1 DEF RulesOnce
    <2>2. ASSUME ~crowded', NEW b \in Admins, cmd'[b].op = "add", cmd'[b].phase = "call"
          PROVE  Matching(Head(cmd[b].todo))' = {}
        <3>1. b # a
            BY <1>3, <1>4, <2>2
        <3>2. Matching(Head(cmd[b].todo)) = {} /\ cmd'[b].todo = cmd[b].todo
            BY <1>1, <1>4, <2>2, <3>1 DEF RulesOnce
        <3>3. QED
            BY <1>1, <3>2 DEF Matching
    <2>3. ~crowded' => \A r, s \in tracked' : Alert(r) = Alert(s) => r = s
        BY <1>1 DEF RulesOnce
    <2>4. QED
        BY <2>1, <2>2, <2>3 DEF RulesOnce
<1>11. \A b \in Admins : CommandFits(b)' /\ (alone'[b] => SoundSoFar(b)')
    <2>1. CommandFits(a)'
        BY <1>1, <1>2, <1>3, <1>4 DEF CommandFits
    <2>2. SoundSoFar(a)'
        BY <1>3, <1>4 DEF SoundSoFar
    <2>3. ASSUME NEW b \in Admins, b # a
          PROVE  CommandFits(b)' /\ (alone'[b] => SoundSoFar(b)')
        <3>1. CommandFits(b) /\ cmd'[b] = cmd[b]
            BY <1>4, <2>3
        <3>2. CommandFits(b)'
            BY <1>1, <3>1 DEF CommandFits
        <3>3. alone'[b] => cmd'[b] = Idling
            BY <1>6, <2>3, <3>1 DEF CommandFits, Busy
        <3>4. alone'[b] => SoundSoFar(b)'
            BY <3>3, IdlingIs DEF SoundSoFar
        <3>5. QED
            BY <3>2, <3>4
    <2>4. QED
        BY <2>1, <2>2, <2>3
<1>12. ChangesTakeEffect'
    <2>1. ~Unreloaded(cmd[a])
        BY <1>5, IdlingIs DEF Unreloaded
    <2>2. QED
        BY <1>1, <1>4, <2>1, SameRules, NothingToReload
<1>13. QED
    BY <1>7, <1>8, <1>9, <1>10, <1>11, <1>12

\* Each command is an order of its own phase and items.
LEMMA OrdersKeep ==
    ASSUME RulesInv, NEW a \in Admins,
           \/ \E cs \in SUBSET Channels :
                 \/ \E ps \in SUBSET Pokemon : AddCmd(a, cs, ps) \/ RemoveByName(a, cs, ps)
                 \/ \E op \in {"enable", "disable"} : Toggle(a, op, cs)
                 \/ ListCmd(a, cs) \/ TestCmd(a, cs)
           \/ \E r \in tracked : RemoveByUid(a, r)
           \/ \E c \in Channels : RegisterCmd(a, c)
    PROVE  RulesInv'
<1>1. \A cs \in SUBSET Channels, ps \in SUBSET (Pokemon \union {AnyPokemon}) :
          /\ ForRules(cs, ps) \in SUBSET Item
          /\ \A i \in ForRules(cs, ps) : i.channel \in cs
    BY DEF ForRules, Item
<1>2. \A cs \in SUBSET Channels : /\ Targets(cs) \in SUBSET Channels
                                  /\ \A c \in Targets(cs) : humans[c] # "unknown"
                                  /\ ForChannels(cs) \in SUBSET Item
                                  /\ ForChannels(Targets(cs)) \in SUBSET Item
    BY <1>1 DEF Targets, ForChannels
<1>3. ASSUME NEW cs \in SUBSET Channels, NEW ps \in SUBSET Pokemon, AddCmd(a, cs, ps)
      PROVE  RulesInv'
    <2>1. /\ ForRules(Targets(cs), ps) \in SUBSET Item
          /\ \A i \in ForRules(Targets(cs), ps) : humans[i.channel] # "unknown"
        BY <1>1, <1>2
    <2>2. Order(a, "add", "check", ForRules(Targets(cs), ps))
        BY <1>3 DEF AddCmd
    <2>3. QED
        BY <2>1, <2>2, OrderKeeps DEF Reloading
<1>4. ASSUME NEW cs \in SUBSET Channels, NEW ps \in SUBSET Pokemon, RemoveByName(a, cs, ps)
      PROVE  RulesInv'
    <2>1. ForRules(Targets(cs), ps) \in SUBSET Item
        BY <1>1, <1>2
    <2>2. Order(a, "remove", "lookup", ForRules(Targets(cs), ps))
        BY <1>4 DEF RemoveByName
    <2>3. QED
        BY <2>1, <2>2, OrderKeeps DEF Reloading
<1>5. ASSUME NEW cs \in SUBSET Channels, NEW op \in {"enable", "disable"}, Toggle(a, op, cs)
      PROVE  RulesInv'
    <2>1. Order(a, op, "call", ForChannels(Targets(cs))) /\ op # "add"
        BY <1>5 DEF Toggle
    <2>2. op \in Reloading \union {"register", "list", "test"}
        BY DEF Reloading
    <2>3. QED
        BY <1>2, <2>1, <2>2, OrderKeeps
<1>6. ASSUME NEW cs \in SUBSET Channels, ListCmd(a, cs) \/ TestCmd(a, cs)
      PROVE  RulesInv'
    BY <1>2, <1>6, OrderKeeps DEF ListCmd, TestCmd
<1>7. ASSUME NEW r \in tracked, RemoveByUid(a, r)
      PROVE  RulesInv'
    <2>1. {r} \in SUBSET Item
        BY DEF RulesInv, RuleTypes
    <2>2. QED
        BY <1>7, <2>1, OrderKeeps DEF RemoveByUid, Reloading
<1>8. ASSUME NEW c \in Channels, RegisterCmd(a, c)
      PROVE  RulesInv'
    <2>1. {c} \in SUBSET Channels
        OBVIOUS
    <2>2. ForChannels({c}) \in SUBSET Item
        BY <1>2, <2>1
    <2>3. QED
        BY <1>8, <2>2, OrderKeeps DEF RegisterCmd
<1>9. QED
    BY <1>3, <1>4, <1>5, <1>6, <1>7, <1>8

\* At the start there is no rule and no command.
LEMMA RulesStart ==
    ASSUME RulesInit
    PROVE  RulesInv
<1>1. /\ humans \in [Channels -> {"unknown", "stopped", "active"}]
      /\ tracked = {} /\ uids = 0 /\ alerting = {} /\ cmd = [a \in Admins |-> Idling]
      /\ alone = [a \in Admins |-> TRUE]
    BY DEF RulesInit
<1>2. RuleTypes
    BY <1>1, IdlingIs DEF RuleTypes
<1>3. RulesKnown /\ AloneIsAlone
    BY <1>1, IdlingIs DEF RulesKnown, AloneIsAlone, Busy
<1>4. RulesOnce
    BY <1>1, IdlingIs DEF RulesOnce
<1>5. \A a \in Admins : CommandFits(a) /\ SoundSoFar(a)
    BY <1>1, IdlingIs DEF CommandFits, SoundSoFar
<1>6. ChangesTakeEffect
    BY <1>1 DEF ChangesTakeEffect, Effective
<1>7. QED
    BY <1>2, <1>3, <1>4, <1>5, <1>6 DEF RulesInv

\* Every step of the commands keeps the invariant.
LEMMA RulesStep ==
    ASSUME RulesInv, [RulesNext]_ruleVars
    PROVE  RulesInv'
<1>1. ASSUME NEW a \in Admins,
             CheckRule(a) \/ PostRule(a) \/ Lookup(a) \/ DeleteRule(a)
      PROVE  RulesInv'
    BY <1>1, CheckRuleKeeps, PostRuleKeeps, LookupKeeps, DeleteRuleKeeps
<1>2. ASSUME NEW a \in Admins,
             StartOrStop(a) \/ CreateChannel(a) \/ StartChannel(a)
      PROVE  RulesInv'
    BY <1>2, StartOrStopKeeps, CreateChannelKeeps, StartChannelKeeps
<1>3. ASSUME NEW a \in Admins,
             \/ ListPerChannel(a) \/ TestPokemon(a)
             \/ ReloadPoracle(a) \/ ReplyToAdmin(a) \/ DatabaseFails(a)
      PROVE  RulesInv'
    BY <1>3, ListAndTestKeep, ReloadPoracleKeeps, CommandEndsKeeps
<1>4. CASE NotifyRestart
    BY <1>4, NotifyRestartKeeps
<1>5. ASSUME NEW a \in Admins, NEW cs \in SUBSET Channels,
             \/ \E ps \in SUBSET Pokemon : AddCmd(a, cs, ps) \/ RemoveByName(a, cs, ps)
             \/ \E op \in {"enable", "disable"} : Toggle(a, op, cs)
             \/ ListCmd(a, cs) \/ TestCmd(a, cs)
      PROVE  RulesInv'
    BY <1>5, OrdersKeep
<1>6. ASSUME NEW a \in Admins,
             (\E r \in tracked : RemoveByUid(a, r)) \/ (\E c \in Channels : RegisterCmd(a, c))
      PROVE  RulesInv'
    BY <1>6, OrdersKeep
<1>7. CASE UNCHANGED ruleVars
    <2>1. UNCHANGED <<humans, tracked, uids, alerting, cmd, alone, crowded, unloaded>>
        BY <1>7 DEF ruleVars, ruleStore
    <2>2. RuleTypes' /\ RulesKnown' /\ AloneIsAlone' /\ RulesOnce'
        BY <2>1 DEF RulesInv, RuleTypes, RulesKnown, AloneIsAlone, RulesOnce, Busy, Matching
    <2>3. \A a \in Admins : CommandFits(a)' /\ (alone'[a] => SoundSoFar(a)')
        BY <2>1 DEF RulesInv, CommandFits, SoundSoFar, Matching
    <2>4. ChangesTakeEffect'
        BY <2>1, SameRules DEF RulesInv, ChangesTakeEffect
    <2>5. QED
        BY <2>2, <2>3, <2>4 DEF RulesInv
<1>8. QED
    BY <1>1, <1>2, <1>3, <1>4, <1>5, <1>6, <1>7 DEF RulesNext

\* The !notify commands over PoracleClient: only add commands that overlap make a rule twice,
\* what a command that ran alone says is so, and Poracle alerts on the rules of its database
\* once the commands under way have reloaded it, unless a change was left without a reload.
THEOREM RulesAreAsSaid == RulesSpec => []RulesAsSaid
<1>1. RulesInit => RulesInv
    BY RulesStart
<1>2. RulesInv /\ [RulesNext]_ruleVars => RulesInv'
    BY RulesStep
<1>3. RulesInv => RulesAsSaid
    <2>1. RulesInv => NoRuleTwice
        BY DEF RulesInv, RulesOnce, NoRuleTwice
    <2>2. RulesInv => RepliesAreTrue
        <3>1. ASSUME RulesInv, NEW a \in Admins, cmd[a].phase = "reply", alone[a],
                     cmd[a].op = "remove", cmd[a].failed = {}, NEW i \in cmd[a].kept
              PROVE  Matching(i) = {}
            <4>1. cmd[a].todo = <<>>
                BY <3>1 DEF RulesInv, CommandFits
            <4>2. Range(cmd[a].todo) = {}
                BY <4>1 DEF Range
            <4>3. QED
                BY <3>1, <4>2 DEF RulesInv, SoundSoFar
        <3>2. QED
            BY <3>1 DEF RulesInv, SoundSoFar, RepliesAreTrue
    <2>3. QED
        BY <2>1, <2>2 DEF RulesInv, RulesAsSaid
<1>4. QED
    BY <1>1, <1>2, <1>3, PTL DEF RulesSpec

HIDE PoracleAssumption DEF PoracleAssumption
===============================================================================
