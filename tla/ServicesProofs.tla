---------------------------- MODULE ServicesProofs ----------------------------
(***************************************************************************)
(* The safety properties of the jobs around the scanner and its data, for  *)
(* every value of their constants: the quest scan, the watch over the      *)
(* phone, the status channel, the commands on the phone, the scheduled     *)
(* posts, the quest search, the quest export and the masterfile.  Each     *)
(* section has the inductive invariant of one specification, a lemma for   *)
(* each step that it survives it, and the theorem; the last one composes   *)
(* them.                                                                   *)
(***************************************************************************)
EXTENDS MCServices, FunctionTheorems, FiniteSetTheorems, SequenceTheorems,
        WellFoundedInduction, TLAPS

-------------------------------------------------------------------------------
\* A set of naturals has a least element ...
LEMMA HasLeast ==
    ASSUME NEW T, T \subseteq Nat, T # {}
    PROVE  \E x \in T : \A y \in T : x <= y
<1> DEFINE R == OpToRel(<, Nat)
<1>1. IsWellFoundedOn(R, Nat)
    BY NatLessThanWellFounded
<1>2. PICK x \in T : \A y \in T : ~(<<y, x>> \in R)
    <2> HIDE DEF R
    <2>1. QED
        BY <1>1, WFMin
<1>3. \A y \in T : ~(y < x)
    BY <1>2 DEF OpToRel
<1> HIDE DEF R
<1>4. \A y \in T : x <= y
    BY <1>3
<1>5. QED
    BY <1>4

\* ... and one with a bound has a greatest.
LEMMA HasNewest ==
    ASSUME NEW N \in Nat, NEW S, S \subseteq 0..N, S # {}
    PROVE  \E x \in S : \A y \in S : y <= x
<1> DEFINE T == {N - x : x \in S}
<1>1. T \subseteq Nat
    <2>1. \A x \in S : N - x \in Nat
        OBVIOUS
    <2>2. QED
        BY <2>1
<1>2. T # {}
    OBVIOUS
<1>3. PICK t \in T : \A y \in T : t <= y
    BY <1>1, <1>2, HasLeast
<1>4. PICK x \in S : t = N - x
    BY <1>3
<1>5. \A y \in S : N - x <= N - y
    BY <1>3, <1>4
<1>6. QED
    BY <1>5

-------------------------------------------------------------------------------
USE QuestScanAssumption DEF QuestScanAssumption

\* QuestScan.  What the tick has read, and how long the counts have stood still.
ScanTypes ==
    /\ count \in [Areas -> Nat] /\ leftover \subseteq Areas /\ moved \subseteq Areas
    /\ alive \in BOOLEAN /\ rolled \in BOOLEAN /\ scanned \in BOOLEAN
    /\ rescanned \in BOOLEAN /\ finished \in BOOLEAN /\ lost \in BOOLEAN
    /\ age \in Nat /\ age <= LeftoverTicks /\ quiet \in Nat
    /\ prev \in [Areas -> Int]
    /\ flat \in [Areas -> 0..StuckTicks] /\ still \in [Areas -> 0..StuckTicks]
    /\ troubles \in [Troubles -> Nat]

NoneRead == \A a \in Areas : prev[a] = None

\* The count last read is the true one, unless it moved since; one that moved is another, or
\* none; and the true count has stood for as long as the plateau says.
PlateauIsTrue ==
    /\ quiet > 0 \/ (scanned /\ pc # "record") => NoneRead
    /\ \A a \in Areas :
          prev[a] # None =>
             /\ a \notin moved => prev[a] = count[a]
             /\ a \in moved => count[a] # prev[a] \/ count[a] = 0
             /\ a \notin moved /\ count[a] > 0 =>
                   flat[a] <= still[a] /\ (pc = "check" => CapTick(flat[a]) <= still[a])

\* While yesterday's rows are there, the plateau is younger than the day.
LeftoversAge ==
    leftover # {} /\ ~rolled /\ troubles["start"] = 0 =>
        /\ age >= 1
        /\ pc # "reopen" =>
              /\ quiet + age >= QuietTicks + 1
              /\ \A a \in Areas :
                    /\ prev[a] = None => flat[a] = 0
                    /\ prev[a] # None => flat[a] + QuietTicks + 1 <= age
                    /\ prev[a] # None /\ pc = "check" => flat[a] + QuietTicks + 2 <= age

\* A verdict that a scan is complete is about counts that stood still, of today.
Verdicts == {"alive", "tracked"}
VerdictIsFlat ==
    pc \in Verdicts => \A a \in Areas : stood[a] >= PlateauTicks /\ seen[a] > 0
RowsGoInTime == LeftoverTicks <= QuietTicks + PlateauTicks
VerdictIsOfToday ==
    RowsGoInTime /\ pc \in Verdicts /\ troubles["start"] = 0 => old = {}

\* Only a tick that marks the scan finds it complete; what is then shown stays.
BeforeMark == {"announce", "alive", "tracked", "export", "mark", "progress"}
ShownIsTrue ==
    /\ pc \in BeforeMark => ~scanned
    /\ pc \notin {"reopen", "record", "show"} =>
           (scanned /\ ~lost /\ ~rolled /\ troubles["start"] = 0 =>
                shown \in {"done", "deleted"})

ScanInv ==
    /\ ScanTypes /\ PlateauIsTrue /\ LeftoversAge
    /\ VerdictIsFlat /\ VerdictIsOfToday /\ ShownIsTrue

\* A trouble is one more of its kind.
LEMMA TroubleIs ==
    ASSUME ScanTypes, NEW k \in Troubles, Trouble(k)
    PROVE  /\ troubles' \in [Troubles -> Nat]
           /\ troubles'["start"] = 0 => troubles["start"] = 0 /\ k # "start"
<1>1. troubles \in [Troubles -> Nat] /\ "start" \in Troubles
    BY DEF ScanTypes, Troubles
<1>2. troubles' = [troubles EXCEPT ![k] = @ + 1]
    BY DEF Trouble
<1>3. troubles' \in [Troubles -> Nat]
    BY <1>1, <1>2
<1>4. CASE k = "start"
    <2>1. troubles'["start"] = troubles["start"] + 1 /\ troubles["start"] \in Nat
        BY <1>1, <1>2, <1>4
    <2>2. QED
        BY <1>3, <2>1
<1>5. CASE k # "start"
    BY <1>1, <1>2, <1>3, <1>5
<1>6. QED
    BY <1>4, <1>5

\* A counter of ticks goes up, and no further than its cap.
LEMMA CapTickIs ==
    /\ StuckTicks \in Nat
    /\ \A n \in 0..StuckTicks : /\ CapTick(n) \in 0..StuckTicks
                                /\ n <= CapTick(n) /\ CapTick(n) <= n + 1
    /\ \A m, n \in 0..StuckTicks : m <= n => CapTick(m) <= CapTick(n)
<1>1. StuckTicks \in Nat
    OBVIOUS
<1>2. QED
    BY <1>1 DEF CapTick

\* A step that touches neither the plateau nor the row.
LEMMA PlateauKept ==
    ASSUME ScanTypes, PlateauIsTrue, LeftoversAge,
           UNCHANGED <<count, leftover, moved, age, plateau, still>>,
           rolled' = rolled, rescanned' \in BOOLEAN, finished' \in BOOLEAN,
           lost' \in BOOLEAN, scanned' \in BOOLEAN, alive' \in BOOLEAN,
           troubles' = troubles \/ \E k \in Troubles : Trouble(k),
           pc' = pc \/ pc' # "check",
           scanned' = TRUE => scanned \/ pc' = "record",
           pc = "record" => pc' = "record" \/ ~scanned',
           pc = "reopen" => pc' = "reopen" \/ troubles'["start"] # 0
    PROVE  ScanTypes' /\ PlateauIsTrue' /\ LeftoversAge'
<1>1. /\ count' = count /\ leftover' = leftover /\ moved' = moved /\ age' = age
      /\ prev' = prev /\ flat' = flat /\ quiet' = quiet /\ still' = still
    BY DEF plateau
<1>2. /\ troubles' \in [Troubles -> Nat]
      /\ troubles'["start"] = 0 => troubles["start"] = 0
    BY TroubleIs DEF ScanTypes
<1>3. ScanTypes'
    BY <1>1, <1>2 DEF ScanTypes
<1>4. PlateauIsTrue'
    BY <1>1 DEF PlateauIsTrue, NoneRead, ScanTypes
<1>5. LeftoversAge'
    BY <1>1, <1>2 DEF LeftoversAge, ScanTypes
<1>6. QED
    BY <1>3, <1>4, <1>5

\* Nothing of the plateau or of the verdict: a wait of the tick, a message, the row.
Untouched ==
    /\ UNCHANGED <<count, leftover, moved, age, plateau, still, stood, seen, old, rolled>>
    /\ rescanned' \in BOOLEAN /\ finished' \in BOOLEAN /\ alive' \in BOOLEAN
    /\ lost' \in BOOLEAN /\ scanned' \in BOOLEAN

\* A step of that kind keeps the invariant.
LEMMA WaitsKeep ==
    ASSUME ScanInv, Untouched,
           troubles' = troubles \/ \E k \in Troubles : Trouble(k),
           pc' = pc \/ pc' \notin {"check", "announce", "alive"},
           pc' \in Verdicts => pc \in Verdicts,
           pc' \in BeforeMark => pc \in BeforeMark \/ ~scanned',
           scanned' = TRUE => scanned \/ pc' = "record",
           pc = "record" => pc' = "record" \/ ~scanned',
           pc = "reopen" => pc' = "reopen" \/ troubles'["start"] # 0,
           \/ scanned' = FALSE \/ lost' = TRUE \/ pc' \in {"record", "show"}
           \/ shown' \in {"done", "deleted"}
           \/ /\ scanned /\ (~lost \/ lost') /\ pc \notin {"record", "show"}
              /\ shown' = shown
    PROVE  ScanInv'
<1>1. ScanTypes' /\ PlateauIsTrue' /\ LeftoversAge'
    BY PlateauKept DEF ScanInv, Untouched
<1>2. troubles'["start"] = 0 => troubles["start"] = 0
    BY TroubleIs DEF ScanInv
<1>3. VerdictIsFlat' /\ VerdictIsOfToday'
    BY <1>2 DEF ScanInv, Untouched, VerdictIsFlat, VerdictIsOfToday, Verdicts
<1>4. ShownIsTrue'
    BY <1>2 DEF ScanInv, Untouched, ShownIsTrue, ScanTypes, BeforeMark
<1>5. QED
    BY <1>1, <1>3, <1>4 DEF ScanInv

\* What mods and the scanner do besides scanning.
LEMMA MessagesKeep ==
    ASSUME ScanInv, Lives \/ Rescan \/ MessageDeleted
    PROVE  ScanInv'
<1> USE DEF ScanInv
<1>1. Untouched /\ pc' = pc /\ lost' = lost
    BY DEF Lives, Rescan, MessageDeleted, Untouched, scanner, row, memory, plateau, reading,
           stillness, ghost, ScanTypes
<1>2. troubles' = troubles \/ \E k \in Troubles : Trouble(k)
    BY DEF Lives, Rescan, MessageDeleted, bounds, Troubles
<1>3. /\ scanned' = FALSE \/ scanned' = scanned
      /\ shown' = shown \/ shown' = "deleted" \/ scanned' = FALSE
    BY DEF Lives, Rescan, MessageDeleted, row
<1>4. scanned \in BOOLEAN /\ (pc \in BeforeMark => ~scanned)
    BY DEF ScanTypes, ShownIsTrue
<1>5. CASE scanned' = FALSE
    BY <1>1, <1>2, <1>4, <1>5, WaitsKeep
<1>6. CASE scanned' = scanned /\ scanned = TRUE
    BY <1>1, <1>2, <1>3, <1>4, <1>6, WaitsKeep
<1>7. QED
    BY <1>3, <1>4, <1>5, <1>6

\* A step that raises, and a day change that is cut.
LEMMA StepsFail ==
    ASSUME ScanInv, ReopenFails \/ CheckFails
    PROVE  ScanInv'
<1> USE DEF ScanInv
<1>1. /\ Untouched /\ pc \in {"reopen", "check"} /\ pc' = "idle"
      /\ lost' = lost /\ scanned' = scanned /\ shown' = shown
      /\ \E k \in Troubles : Trouble(k)
      /\ pc = "reopen" => Trouble("start")
    BY DEF ReopenFails, CheckFails, Raise, Untouched, scanner, row, memory, plateau, reading,
           stillness, ghost, ScanTypes, Troubles
<1>2. pc = "reopen" => troubles'["start"] # 0
    <2>1. "start" \in Troubles
        BY DEF Troubles
    <2>2. QED
        BY <1>1, <2>1, TroubleIs
<1>3. scanned \in BOOLEAN
    BY DEF ScanTypes
<1>4. QED
    BY <1>1, <1>2, <1>3, WaitsKeep DEF Verdicts, BeforeMark

\* The steps of a tick before the scan is marked, each of which may raise.
LEMMA TickGoesOn ==
    ASSUME ScanInv, Announce \/ AskAlive \/ Tracked \/ Export \/ ShowProgress
    PROVE  ScanInv'
<1> USE DEF ScanInv
<1>1. /\ Untouched /\ pc \in BeforeMark /\ scanned' = scanned
      /\ pc' \in {"idle", "tracked", "progress", "export", "mark"}
      /\ pc' = "tracked" => pc = "alive"
    BY DEF Announce, AskAlive, Tracked, Export, ShowProgress, Raise, Alive, Untouched, scanner,
           row, memory, plateau, reading, stillness, ghost, ScanTypes, BeforeMark
<1>2. troubles' = troubles \/ \E k \in Troubles : Trouble(k)
    BY DEF Announce, AskAlive, Tracked, Export, ShowProgress, Raise, bounds, Troubles
<1>3. scanned = FALSE
    BY <1>1 DEF ScanTypes, ShownIsTrue
<1>4. QED
    BY <1>1, <1>2, <1>3, WaitsKeep DEF Verdicts, BeforeMark

\* The scan is marked, its totals recorded, and the notice shown or lost.
LEMMA DoneKeeps ==
    ASSUME ScanInv, Mark \/ ShowDone \/ \E a \in Areas : Record(a)
    PROVE  ScanInv'
<1> USE DEF ScanInv
<1>1. /\ Untouched
      /\ troubles' = troubles \/ \E k \in Troubles : Trouble(k)
    BY DEF Mark, ShowDone, Record, Raise, Untouched, scanner, row, memory, plateau, reading,
           stillness, ghost, bounds, ScanTypes, Troubles
<1>2. CASE Mark
    <2>1. /\ pc = "mark"
          /\ \/ pc' = "record"
             \/ pc' = "idle" /\ scanned' = scanned
        BY <1>2 DEF Mark, Raise
    <2>2. scanned = FALSE
        BY <2>1 DEF ScanTypes, ShownIsTrue, BeforeMark
    <2>3. QED
        BY <1>1, <2>1, <2>2, WaitsKeep DEF Verdicts, BeforeMark
<1>3. CASE ShowDone
    <2>1. /\ pc = "show" /\ pc' = "idle" /\ scanned' = scanned
          /\ shown' = "done" \/ lost' = TRUE
        BY <1>3 DEF ShowDone, Show, Raise, row
    <2>2. scanned \in BOOLEAN
        BY DEF ScanTypes
    <2>3. QED
        BY <1>1, <2>1, <2>2, WaitsKeep DEF Verdicts, BeforeMark
<1>4. CASE \E a \in Areas : Record(a)
    <2>1. pc = "record" /\ pc' = "record" /\ scanned' = scanned
        BY <1>4 DEF Record
    <2>2. scanned \in BOOLEAN
        BY DEF ScanTypes
    <2>3. QED
        BY <1>1, <2>1, <2>2, WaitsKeep DEF Verdicts, BeforeMark
<1>5. QED
    BY <1>2, <1>3, <1>4

\* What a reset plateau is.
LEMMA ResetIs ==
    ASSUME ResetPlateau
    PROVE  /\ prev' \in [Areas -> Int] /\ flat' \in [Areas -> 0..StuckTicks]
           /\ quiet' = QuietTicks /\ quiet' \in Nat
           /\ \A a \in Areas : prev'[a] = None /\ flat'[a] = 0
BY CapTickIs DEF ResetPlateau, NoCounts, Zero, None

\* A plateau that is reset has nothing to be true of.
LEMMA ResetKeeps ==
    ASSUME ScanInv, ResetPlateau, UNCHANGED <<scanner, rolled, stillness>>,
           rescanned' \in BOOLEAN, finished' \in BOOLEAN, lost' \in BOOLEAN,
           scanned' \in BOOLEAN,
           troubles' = troubles \/ \E k \in Troubles : Trouble(k)
    PROVE  ScanTypes' /\ PlateauIsTrue' /\ LeftoversAge'
<1> USE DEF ScanInv
<1>1. /\ count' = count /\ leftover' = leftover /\ moved' = moved /\ age' = age
      /\ alive' = alive /\ rolled' = rolled /\ still' = still
    BY DEF scanner, stillness
<1>2. /\ troubles' \in [Troubles -> Nat]
      /\ troubles'["start"] = 0 => troubles["start"] = 0
    BY TroubleIs DEF ScanTypes
<1>3. ScanTypes'
    BY <1>1, <1>2, ResetIs DEF ScanTypes
<1>4. PlateauIsTrue'
    BY ResetIs DEF PlateauIsTrue, NoneRead
<1>5. LeftoversAge'
    <2>1. SUFFICES ASSUME leftover # {}, ~rolled, troubles'["start"] = 0
                   PROVE  age >= 1 /\ quiet' + age >= QuietTicks + 1
        BY <1>1, ResetIs DEF LeftoversAge
    <2>2. age >= 1 /\ age \in Nat
        BY <1>2, <2>1 DEF LeftoversAge, ScanTypes
    <2>3. QED
        BY <2>2, ResetIs
<1>6. QED
    BY <1>3, <1>4, <1>5

\* At least what is at least as much.
LEMMA AtLeastAll ==
    ASSUME NEW i \in Int, NEW j \in Int, NEW k \in Int, i >= j, j >= k
    PROVE  i >= k
OBVIOUS

\* The scanner adds a quest to an area, or clears yesterday's.
LEMMA ScannerKeeps ==
    ASSUME ScanInv, NEW a \in Areas, Scan(a) \/ Drain(a)
    PROVE  ScanInv'
<1> USE DEF ScanInv
<1>1. /\ alive' = alive /\ age' = age /\ rolled' = rolled /\ scanned' = scanned
      /\ prev' = prev /\ flat' = flat /\ quiet' = quiet /\ pc' = pc /\ seen' = seen
      /\ old' = old /\ stood' = stood /\ shown' = shown /\ rescanned' = rescanned
      /\ finished' = finished /\ lost' = lost /\ troubles' = troubles
      /\ moved' = moved \union {a} /\ leftover' \subseteq leftover
      /\ still' = [still EXCEPT ![a] = 0]
    BY DEF Scan, Drain, row, memory, plateau, reading, ghost, bounds
<1>2. /\ count' \in [Areas -> Nat]
      /\ \A b \in Areas : b # a => count'[b] = count[b]
      /\ count'[a] = 0 \/ (a \notin moved /\ count'[a] = count[a] + 1)
    BY DEF Scan, Drain, ScanTypes
<1>3. /\ still' \in [Areas -> 0..StuckTicks]
      /\ \A b \in Areas : b # a => still'[b] = still[b]
    BY <1>1, CapTickIs DEF ScanTypes
<1>4. ScanTypes'
    BY <1>1, <1>2, <1>3 DEF ScanTypes
<1>5. PlateauIsTrue'
    <2>1. (quiet > 0 \/ (scanned /\ pc # "record") => NoneRead)'
        BY <1>1 DEF PlateauIsTrue, NoneRead
    <2>2. ASSUME NEW b \in Areas, prev[b] # None
          PROVE  /\ b \notin moved' => prev[b] = count'[b]
                 /\ b \in moved' => count'[b] # prev[b] \/ count'[b] = 0
                 /\ b \notin moved' /\ count'[b] > 0 =>
                      flat[b] <= still'[b] /\ (pc = "check" => CapTick(flat[b]) <= still'[b])
        <3>1. CASE b = a
            <4>1. a \notin moved => prev[a] = count[a] /\ count[a] \in Nat
                BY <2>2, <3>1 DEF PlateauIsTrue, ScanTypes
            <4>2. QED
                BY <1>1, <1>2, <3>1, <4>1
        <3>2. CASE b # a
            BY <1>1, <1>2, <1>3, <2>2, <3>2 DEF PlateauIsTrue
        <3>3. QED
            BY <3>1, <3>2
    <2>3. QED
        BY <1>1, <2>1, <2>2 DEF PlateauIsTrue, CapTick
<1>6. LeftoversAge'
    BY <1>1 DEF LeftoversAge
<1>7. VerdictIsFlat' /\ VerdictIsOfToday' /\ ShownIsTrue'
    BY <1>1 DEF VerdictIsFlat, VerdictIsOfToday, ShownIsTrue
<1>8. QED
    BY <1>4, <1>5, <1>6, <1>7

\* At midnight every quest is yesterday's, and the row is of the day before.
LEMMA MidnightKeeps ==
    ASSUME ScanInv, Midnight
    PROVE  ScanInv'
<1> USE DEF ScanInv
<1>1. /\ count' = count /\ moved' = moved /\ alive' = alive /\ scanned' = scanned
      /\ prev' = prev /\ flat' = flat /\ quiet' = quiet /\ still' = still
      /\ pc' = pc /\ seen' = seen /\ old' = old /\ stood' = stood /\ shown' = shown
      /\ rescanned' = rescanned /\ lost' = lost /\ troubles' = troubles
      /\ rolled' = TRUE /\ finished' = FALSE /\ age' = 0
      /\ leftover' = {a \in Areas : count[a] > 0}
    BY DEF Midnight, memory, plateau, reading, stillness
<1>2. ScanTypes'
    <2>1. age' \in Nat /\ age' <= LeftoverTicks
        BY <1>1
    <2>2. rolled' \in BOOLEAN /\ finished' \in BOOLEAN /\ leftover' \subseteq Areas
        BY <1>1
    <2>3. QED
        BY <1>1, <2>1, <2>2 DEF ScanTypes
<1>3. PlateauIsTrue' /\ LeftoversAge'
    BY <1>1 DEF PlateauIsTrue, NoneRead, LeftoversAge
<1>4. VerdictIsFlat' /\ VerdictIsOfToday' /\ ShownIsTrue'
    BY <1>1 DEF VerdictIsFlat, VerdictIsOfToday, ShownIsTrue
<1>5. QED
    BY <1>2, <1>3, <1>4

\* A minute passes: the counts stood still for one more, and the day is one older.
LEMMA TickKeeps ==
    ASSUME ScanInv, Tick
    PROVE  ScanInv'
<1> USE DEF ScanInv
<1>1. /\ count' = count /\ moved' = moved /\ leftover' = leftover /\ alive' = alive
      /\ scanned' = scanned /\ prev' = prev /\ flat' = flat /\ seen' = seen
      /\ old' = old /\ stood' = stood /\ shown' = shown /\ rescanned' = rescanned
      /\ finished' = finished /\ lost' = lost /\ troubles' = troubles /\ rolled' = FALSE
      /\ pc = "idle" /\ pc' = IF rolled THEN "reopen" ELSE "check"
      /\ leftover # {} => age < LeftoverTicks
      /\ age' = IF leftover # {} THEN age + 1 ELSE age
      /\ still' = [a \in Areas |-> CapTick(still[a])]
      /\ quiet' = IF quiet > 0 THEN quiet - 1 ELSE 0
    BY DEF Tick, reading, ghost, bounds
<1>2. /\ age' \in Nat /\ age' <= LeftoverTicks /\ quiet' \in Nat
      /\ leftover # {} => age' = age + 1 /\ quiet' + age' >= quiet + age
      /\ quiet' > 0 => quiet > 0
    <2>1. age \in Nat /\ age <= LeftoverTicks /\ quiet \in Nat /\ LeftoverTicks \in Nat
        BY DEF ScanTypes
    <2>2. QED
        BY <1>1, <2>1
<1>3. /\ still' \in [Areas -> 0..StuckTicks]
      /\ \A a \in Areas : /\ still[a] <= still'[a]
                          /\ \A n \in 0..StuckTicks : n <= still[a] =>
                                 n <= still'[a] /\ CapTick(n) <= still'[a]
    <2>1. ASSUME NEW a \in Areas
          PROVE  /\ still'[a] \in 0..StuckTicks /\ still[a] <= still'[a]
                 /\ \A n \in 0..StuckTicks : n <= still[a] =>
                        n <= still'[a] /\ CapTick(n) <= still'[a]
        <3>1. still[a] \in 0..StuckTicks /\ still'[a] = CapTick(still[a])
            BY <1>1 DEF ScanTypes
        <3>2. QED
            BY <3>1, CapTickIs
    <2>2. still' = [a \in Areas |-> still'[a]]
        BY <1>1
    <2>3. QED
        BY <2>1, <2>2
<1>4. ScanTypes'
    BY <1>1, <1>2, <1>3 DEF ScanTypes
<1>5. PlateauIsTrue'
    <2>1. (quiet > 0 \/ (scanned /\ pc # "record") => NoneRead)'
        BY <1>1, <1>2 DEF PlateauIsTrue, NoneRead
    <2>2. \A a \in Areas : flat[a] \in 0..StuckTicks
        BY DEF ScanTypes
    <2>3. QED
        BY <1>1, <1>3, <2>1, <2>2 DEF PlateauIsTrue, CapTick
<1>6. LeftoversAge'
    <2>1. SUFFICES ASSUME leftover # {}, troubles["start"] = 0
                   PROVE  LeftoversAge'
        BY <1>1 DEF LeftoversAge
    <2>2. age' = age + 1 /\ age \in Nat
        BY <1>2, <2>1 DEF ScanTypes
    <2>3. CASE rolled
        BY <1>1, <2>2, <2>3 DEF LeftoversAge
    <2>4. CASE ~rolled
        <3>1. /\ quiet + age >= QuietTicks + 1
              /\ \A a \in Areas :
                    /\ prev[a] = None => flat[a] = 0
                    /\ prev[a] # None => flat[a] + QuietTicks + 1 <= age
            BY <1>1, <2>1, <2>4 DEF LeftoversAge
        <3>2. QuietTicks \in Nat /\ quiet \in Nat /\ quiet' \in Nat
            BY <1>2 DEF ScanTypes
        <3>3. quiet' + age' >= QuietTicks + 1
            <4>1. quiet' + age' >= quiet + age
                BY <1>2, <2>1
            <4>2. quiet + age >= QuietTicks + 1
                BY <3>1
            <4>3. /\ quiet' + age' \in Int /\ quiet + age \in Int
                  /\ QuietTicks + 1 \in Int
                BY <2>2, <3>2
            <4>4. QED
                BY <4>1, <4>2, <4>3, AtLeastAll
        <3>4. ASSUME NEW a \in Areas, prev[a] # None
              PROVE  /\ flat[a] + QuietTicks + 1 <= age'
                     /\ flat[a] + QuietTicks + 2 <= age'
            <4>1. flat[a] + QuietTicks + 1 <= age /\ flat[a] \in 0..StuckTicks
                BY <3>1, <3>4 DEF ScanTypes
            <4>2. flat[a] \in Int
                BY <4>1, CapTickIs
            <4>3. QED
                BY <2>2, <3>2, <4>1, <4>2
        <3>5. age' >= 1
            BY <2>2
        <3>6. QED
            BY <1>1, <3>1, <3>3, <3>4, <3>5 DEF LeftoversAge
    <2>5. QED
        BY <2>3, <2>4 DEF ScanTypes
<1>7. VerdictIsFlat' /\ VerdictIsOfToday'
    BY <1>1 DEF VerdictIsFlat, VerdictIsOfToday, Verdicts
<1>8. ShownIsTrue'
    BY <1>1 DEF ShownIsTrue, BeforeMark
<1>9. QED
    BY <1>4, <1>5, <1>6, <1>7, <1>8

\* The verdict on the counts that were read.
LEMMA JudgeKeeps ==
    ASSUME ScanInv, NEW totals, Judge(totals), pc = "check", quiet = 0, ~scanned, moved' = {},
           UNCHANGED <<count, leftover, alive, age, row, quiet, stillness, shown, ghost>>,
           troubles' = troubles \/ \E k \in Troubles : Trouble(k)
    PROVE  ScanInv'
<1> USE DEF ScanInv
<1>1. /\ count' = count /\ leftover' = leftover /\ alive' = alive /\ age' = age
      /\ rolled' = rolled /\ scanned' = scanned /\ quiet' = quiet /\ still' = still
      /\ shown' = shown /\ finished' = finished /\ lost' = lost
      /\ seen' = count /\ prev' = count /\ stood' = still /\ rescanned' = FALSE
      /\ old' = (IF rolled THEN {} ELSE leftover)
      /\ flat' = [a \in Areas |-> Flat(a)]
      /\ pc' = IF \A a \in Areas : Plateaued(a, totals) THEN "alive" ELSE "progress"
    BY DEF Judge, row, stillness, ghost
<1>2. /\ troubles' \in [Troubles -> Nat]
      /\ troubles'["start"] = 0 => troubles["start"] = 0
    BY TroubleIs DEF ScanTypes
<1>3. /\ flat' \in [Areas -> 0..StuckTicks]
      /\ \A a \in Areas : /\ flat'[a] = Flat(a) /\ Flat(a) \in 0..StuckTicks
                          /\ Flat(a) = IF count[a] = prev[a] THEN CapTick(flat[a]) ELSE 0
    BY <1>1, CapTickIs DEF Flat, CapTick, ScanTypes
<1>4. ScanTypes'
    <2>1. prev' \in [Areas -> Int] /\ count' \in [Areas -> Nat] /\ moved' \subseteq Areas
        BY <1>1 DEF ScanTypes
    <2>2. rescanned' \in BOOLEAN
        BY <1>1
    <2>3. QED
        BY <1>1, <1>2, <1>3, <2>1, <2>2 DEF ScanTypes
<1>5. \A a \in Areas : /\ count[a] \in Nat /\ count[a] # None
                       /\ flat[a] \in 0..StuckTicks /\ still[a] \in 0..StuckTicks
    BY DEF ScanTypes, None
<1>6. ASSUME NEW a \in Areas, count[a] > 0
      PROVE  Flat(a) <= still[a]
    <2>1. CASE count[a] = prev[a]
        <3>1. a \notin moved /\ prev[a] # None
            BY <1>5, <1>6, <2>1 DEF PlateauIsTrue
        <3>2. CapTick(flat[a]) <= still[a]
            BY <1>6, <3>1 DEF PlateauIsTrue
        <3>3. QED
            BY <1>3, <2>1, <3>2
    <2>2. CASE count[a] # prev[a]
        BY <1>3, <1>5, <2>2
    <2>3. QED
        BY <2>1, <2>2
<1>7. PlateauIsTrue'
    <2>1. (quiet > 0 \/ (scanned /\ pc # "record") => NoneRead)'
        BY <1>1
    <2>2. QED
        BY <1>1, <1>3, <1>6, <2>1 DEF PlateauIsTrue
<1>8. ASSUME leftover # {}, ~rolled, troubles["start"] = 0
      PROVE  /\ age >= 1 /\ quiet + age >= QuietTicks + 1
             /\ \A a \in Areas : Flat(a) + QuietTicks + 1 <= age
    <2>1. /\ age >= 1 /\ quiet + age >= QuietTicks + 1
          /\ \A a \in Areas : prev[a] # None => flat[a] + QuietTicks + 2 <= age
        BY <1>8 DEF LeftoversAge
    <2>2. QuietTicks \in Nat /\ age \in Nat /\ QuietTicks + 1 <= age
        <3>1. QuietTicks \in Nat /\ age \in Nat
            BY DEF ScanTypes
        <3>2. QED
            BY <2>1, <3>1
    <2>3. ASSUME NEW a \in Areas
          PROVE  Flat(a) + QuietTicks + 1 <= age
        <3>1. CASE count[a] = prev[a]
            <4>1. flat[a] + QuietTicks + 2 <= age
                BY <1>5, <2>1, <3>1
            <4>2. Flat(a) <= flat[a] + 1 /\ Flat(a) \in Int /\ flat[a] \in Int
                BY <1>3, <1>5, <3>1, CapTickIs
            <4>3. QED
                BY <2>2, <4>1, <4>2
        <3>2. CASE count[a] # prev[a]
            BY <1>3, <2>2, <3>2
        <3>3. QED
            BY <3>1, <3>2
    <2>4. QED
        BY <2>1, <2>3
<1>9. LeftoversAge'
    BY <1>1, <1>2, <1>3, <1>5, <1>8 DEF LeftoversAge
<1>10. ASSUME pc' = "alive", NEW a \in Areas
       PROVE  count[a] > 0 /\ Flat(a) >= PlateauTicks
    <2>1. Plateaued(a, totals)
        BY <1>1, <1>10
    <2>2. count[a] > 0 /\ (Flat(a) >= PlateauTicks \/ Flat(a) >= StuckTicks)
        BY <2>1 DEF Plateaued
    <2>3. /\ StuckTicks \in Nat /\ PlateauTicks \in Nat /\ StuckTicks >= PlateauTicks
          /\ Flat(a) \in Int
        BY <1>3, CapTickIs
    <2>4. QED
        BY <2>2, <2>3
<1>11. VerdictIsFlat'
    <2>1. ASSUME pc' = "alive", NEW a \in Areas
          PROVE  still[a] >= PlateauTicks /\ count[a] > 0
        <3>1. /\ Flat(a) <= still[a] /\ Flat(a) >= PlateauTicks /\ count[a] > 0
              /\ Flat(a) \in Int /\ still[a] \in Int /\ PlateauTicks \in Int
            BY <1>3, <1>5, <1>6, <1>10, <2>1, CapTickIs
        <3>2. QED
            BY <3>1
    <2>2. QED
        BY <1>1, <2>1 DEF VerdictIsFlat, Verdicts
<1>12. VerdictIsOfToday'
    <2>1. SUFFICES ASSUME RowsGoInTime, pc' = "alive", troubles["start"] = 0,
                          ~rolled, leftover # {}
                   PROVE  FALSE
        BY <1>1, <1>2 DEF VerdictIsOfToday, Verdicts, RowsGoInTime
    <2>2. PICK a \in Areas : TRUE
        BY <2>1 DEF ScanTypes
    <2>3. Flat(a) + QuietTicks + 1 <= age /\ Flat(a) >= PlateauTicks
        BY <1>8, <1>10, <2>1
    <2>4. /\ Flat(a) \in Int /\ age \in Int /\ age <= LeftoverTicks
          /\ QuietTicks \in Int /\ PlateauTicks \in Int /\ LeftoverTicks \in Int
        BY <1>3, CapTickIs DEF ScanTypes
    <2>5. QED
        BY <2>1, <2>3, <2>4 DEF RowsGoInTime
<1>13. ShownIsTrue'
    BY <1>1 DEF ShownIsTrue
<1>14. QED
    BY <1>4, <1>7, <1>9, <1>11, <1>12, <1>13

\* A check that is skipped, for the quiet period or a scan that is complete, reads nothing.
LEMMA CheckKeeps ==
    ASSUME ScanInv, Check
    PROVE  ScanInv'
<1> USE DEF ScanInv
<1>1. pc = "check" /\ moved' = {} /\ scanned \in BOOLEAN /\ quiet \in Nat
      /\ UNCHANGED <<count, leftover, alive, age, row, quiet, stillness, shown, ghost>>
    BY DEF Check, ScanTypes
<1>2. CASE \E totals : /\ quiet = 0 /\ ~scanned /\ Judge(totals)
                       /\ troubles' = troubles \/ \E k \in Troubles : Trouble(k)
    BY <1>1, <1>2, JudgeKeeps
<1>3. CASE /\ quiet > 0 \/ scanned
           /\ pc' = "idle"
           /\ UNCHANGED <<prev, flat, seen, old, stood, rescanned, bounds>>
    <2>1. /\ count' = count /\ leftover' = leftover /\ alive' = alive /\ age' = age
          /\ rolled' = rolled /\ scanned' = scanned /\ quiet' = quiet /\ still' = still
          /\ shown' = shown /\ finished' = finished /\ lost' = lost /\ prev' = prev
          /\ flat' = flat /\ rescanned' = rescanned /\ troubles' = troubles
        BY <1>1, <1>3 DEF row, stillness, ghost, bounds
    <2>2. NoneRead
        BY <1>1, <1>3 DEF PlateauIsTrue
    <2>3. ScanTypes'
        BY <1>1, <2>1 DEF ScanTypes
    <2>4. PlateauIsTrue'
        BY <2>1, <2>2 DEF PlateauIsTrue, NoneRead
    <2>5. LeftoversAge'
        BY <1>1, <1>3, <2>1 DEF LeftoversAge
    <2>6. VerdictIsFlat' /\ VerdictIsOfToday' /\ ShownIsTrue'
        BY <1>1, <1>3, <2>1 DEF VerdictIsFlat, VerdictIsOfToday, Verdicts, ShownIsTrue,
                                BeforeMark
    <2>7. QED
        BY <2>3, <2>4, <2>5, <2>6
<1>4. QED
    BY <1>1, <1>2, <1>3 DEF Check, Troubles, bounds

\* The mode is reopened, or the scan recorded: the plateau starts again.
LEMMA ResetsKeep ==
    ASSUME ScanInv, Reopen \/ Recorded
    PROVE  ScanInv'
<1> USE DEF ScanInv
<1>1. /\ ResetPlateau /\ UNCHANGED <<scanner, rolled, stillness>>
      /\ rescanned' = rescanned /\ finished' = finished /\ lost' = lost
      /\ troubles' = troubles /\ shown' = shown /\ pc \in {"reopen", "record"}
      /\ pc = "reopen" => scanned' = FALSE /\ pc' = "announce"
      /\ pc = "record" => scanned' = scanned /\ pc' = "show"
    BY DEF Reopen, Recorded, row, ghost, bounds
<1>2. ScanTypes' /\ PlateauIsTrue' /\ LeftoversAge'
    BY <1>1, ResetKeeps DEF ScanTypes
<1>3. VerdictIsFlat' /\ VerdictIsOfToday' /\ ShownIsTrue'
    BY <1>1 DEF VerdictIsFlat, VerdictIsOfToday, Verdicts, ShownIsTrue, BeforeMark
<1>4. QED
    BY <1>2, <1>3

\* A new process knows no plateau, and does not see the notice out.
LEMMA RestartKeeps ==
    ASSUME ScanInv, Restart
    PROVE  ScanInv'
<1> USE DEF ScanInv
<1>1. /\ ResetPlateau /\ UNCHANGED <<scanner, rolled, stillness>> /\ scanned' = scanned
      /\ rolled' = rolled /\ rescanned' = rescanned /\ finished' = finished
      /\ shown' = shown /\ pc' = "idle" /\ lost' = (lost \/ pc \in {"record", "show"})
      /\ pc = "reopen" => Trouble("start")
      /\ \E k \in Troubles : Trouble(k)
    BY DEF Restart, ResetPlateau, row, Troubles
<1>2. lost \in BOOLEAN /\ scanned \in BOOLEAN /\ lost' \in BOOLEAN
    BY <1>1 DEF ScanTypes
<1>3. ScanTypes' /\ PlateauIsTrue' /\ LeftoversAge'
    BY <1>1, <1>2, ResetKeeps DEF ScanTypes
<1>4. troubles'["start"] = 0 => troubles["start"] = 0 /\ pc # "reopen"
    <2>1. "start" \in Troubles
        BY DEF Troubles
    <2>2. QED
        BY <1>1, <2>1, TroubleIs
<1>5. VerdictIsFlat' /\ VerdictIsOfToday'
    BY <1>1 DEF VerdictIsFlat, VerdictIsOfToday, Verdicts
<1>6. ShownIsTrue'
    BY <1>1, <1>2, <1>4 DEF ShownIsTrue, BeforeMark
<1>7. QED
    BY <1>3, <1>5, <1>6

\* A process that has read nothing.
LEMMA ScanStarts ==
    ASSUME Init
    PROVE  ScanInv
<1>1. /\ count = Zero /\ leftover = {} /\ moved = {} /\ alive \in BOOLEAN /\ age = 0
      /\ rolled = TRUE /\ scanned \in BOOLEAN /\ prev = NoCounts /\ flat = Zero
      /\ quiet = QuietTicks /\ pc = "idle" /\ still = Zero /\ rescanned = FALSE
      /\ finished = FALSE /\ lost = TRUE /\ troubles = [k \in Troubles |-> 0]
    BY DEF Init
<1>2. ScanTypes
    <2>1. count \in [Areas -> Nat] /\ prev \in [Areas -> Int]
        BY <1>1 DEF Zero, NoCounts, None
    <2>2. flat \in [Areas -> 0..StuckTicks] /\ still \in [Areas -> 0..StuckTicks]
        BY <1>1, CapTickIs DEF Zero
    <2>3. troubles \in [Troubles -> Nat]
        BY <1>1
    <2>4. age \in Nat /\ age <= LeftoverTicks /\ quiet \in Nat
        BY <1>1
    <2>5. QED
        BY <1>1, <2>1, <2>2, <2>3, <2>4 DEF ScanTypes
<1>3. NoneRead
    BY <1>1 DEF NoneRead, NoCounts
<1>4. PlateauIsTrue /\ LeftoversAge
    BY <1>1, <1>3 DEF PlateauIsTrue, NoneRead, LeftoversAge
<1>5. VerdictIsFlat /\ VerdictIsOfToday /\ ShownIsTrue
    BY <1>1 DEF VerdictIsFlat, VerdictIsOfToday, Verdicts, ShownIsTrue, BeforeMark
<1>6. QED
    BY <1>2, <1>4, <1>5 DEF ScanInv

\* Every step of the scan keeps it.
LEMMA ScanStep ==
    ASSUME ScanInv, [Next]_vars
    PROVE  ScanInv'
<1>1. CASE UNCHANGED vars
    <2>1. /\ Untouched /\ pc' = pc /\ lost' = lost /\ scanned' = scanned
          /\ shown' = shown /\ troubles' = troubles
        BY <1>1 DEF vars, Untouched, scanner, row, memory, plateau, reading, stillness, ghost,
                    bounds, ScanInv, ScanTypes
    <2>2. scanned \in BOOLEAN /\ (pc \in BeforeMark => ~scanned)
        BY DEF ScanInv, ScanTypes, ShownIsTrue
    <2>3. CASE scanned = FALSE
        BY <2>1, <2>2, <2>3, WaitsKeep
    <2>4. CASE scanned = TRUE
        BY <2>1, <2>2, <2>4, WaitsKeep
    <2>5. QED
        BY <2>2, <2>3, <2>4
<1>2. QED
    BY <1>1, MessagesKeep, StepsFail, TickGoesOn, DoneKeeps, ScannerKeeps, MidnightKeeps,
       TickKeeps, CheckKeeps, ResetsKeep, RestartKeeps DEF Next, Steps

\* ScannerStatus and Scheduled: a scan is completed only when the counts of every area stood
\* still for a whole plateau, whatever the restarts, the !scans and the midnights.
THEOREM CompletedIsFlat == Spec => []DoneMeansFlat
<1>1. Init => ScanInv
    BY ScanStarts
<1>2. ScanInv /\ [Next]_vars => ScanInv'
    BY ScanStep
<1>3. ScanInv => DoneMeansFlat
    BY DEF ScanInv, VerdictIsFlat, Verdicts, DoneMeansFlat
<1>4. QED
    BY <1>1, <1>2, <1>3, PTL DEF Spec

\* ... and, where yesterday's rows go within the quiet period and a plateau, it is today's.
THEOREM CompletedIsReal ==
    ASSUME LeftoverTicks <= QuietTicks + PlateauTicks
    PROVE  Spec => []DoneIsReal
<1>1. Init => ScanInv
    BY ScanStarts
<1>2. ScanInv /\ [Next]_vars => ScanInv'
    BY ScanStep
<1>3. ScanInv => DoneIsReal
    BY DEF ScanInv, VerdictIsFlat, VerdictIsOfToday, RowsGoInTime, Verdicts, DoneIsReal,
           DoneMeansFlat, NoLeftoverDone
<1>4. QED
    BY <1>1, <1>2, <1>3, PTL DEF Spec

\* Scheduled: a scan that was completed is shown so, unless its notice was lost.
THEOREM CompletedIsShown == Spec => []DoneIsShown
<1>1. Init => ScanInv
    BY ScanStarts
<1>2. ScanInv /\ [Next]_vars => ScanInv'
    BY ScanStep
<1>3. ScanInv => DoneIsShown
    BY DEF ScanInv, ScanTypes, ShownIsTrue, DoneIsShown
<1>4. QED
    BY <1>1, <1>2, <1>3, PTL DEF Spec

HIDE QuestScanAssumption DEF QuestScanAssumption

-------------------------------------------------------------------------------
USE DeviceWatchAssumption DEF DeviceWatchAssumption

\* DeviceWatch.  The ages the watch keeps; an alert is of an outage.
DeviceTypes ==
    /\ offline \in Ages /\ notified \in Ages /\ dark \in 0..Horizon
    /\ clean \in BOOLEAN /\ skipped \in BOOLEAN /\ lostWrite \in BOOLEAN
    /\ cached \in {"on", "off", "unread"} /\ stored \in {"on", "off"}
    /\ believed \in {"up", "down"}
    /\ notified # NotSince => offline # NotSince

DeviceInv == DeviceTypes /\ ModsKnow /\ OutageIsReal /\ OutageIsAlerted /\ SettingHolds

\* An age goes up by one until the horizon.
LEMMA OlderIs ==
    ASSUME NEW n \in Ages
    PROVE  /\ Older(n) \in Ages
           /\ Older(n) = NotSince <=> n = NotSince
           /\ n # NotSince => n \in Nat /\ Older(n) \in Nat /\ n <= Older(n)
                              /\ Older(n) <= n + 1
           /\ n # NotSince => Older(n) = n + 1 \/ (n = Horizon /\ Older(n) = n)
BY DEF Ages, NotSince, Older

\* The ages that a step starts from.
LEMMA AgesAre == NotSince \in Ages /\ 0 \in Ages /\ 0 # NotSince /\ 0 \in 0..Horizon
BY DEF Ages, NotSince

\* The gap between two alerts.
LEMMA GapIs == \A n \in Ages : NextGap(n) \in Nat \ {0}
BY DEF NextGap

\* A check of a phone that is not connected.
LEMMA StillOfflineKeeps ==
    ASSUME DeviceInv, NEW sends \in BOOLEAN, StillOffline(sends),
           dark' = (IF dark < Horizon THEN dark + 1 ELSE dark),
           cached' = cached \/ (cached = "unread" /\ cached' = stored),
           UNCHANGED <<stored, saying, lostWrite>>
    PROVE  DeviceInv'
<1> USE DEF DeviceInv
<1>1. /\ dark' \in 0..Horizon /\ dark' >= 1 /\ dark \in 0..Horizon
      /\ dark' = dark + 1 \/ dark' = Horizon
      /\ Horizon \in Nat
    BY DEF DeviceTypes
<1>2. SettingHolds' /\ cached' \in {"on", "off", "unread"}
    BY DEF DeviceTypes, SettingHolds
<1>3. skipped' = skipped
    BY DEF StillOffline
<1>4. CASE offline = NotSince
    <2>1. notified = NotSince /\ Older(notified) = NotSince
        BY <1>4 DEF DeviceTypes, Older, NotSince
    <2>2. offline' = 0 /\ notified' = NotSince /\ believed' = believed /\ clean' = clean
        BY <1>4, <2>1 DEF StillOffline, Quietly
    <2>3. DeviceTypes'
        BY <1>1, <1>2, <1>3, <2>2 DEF DeviceTypes, Ages, NotSince
    <2>4. ModsKnow'
        BY <2>1, <2>2 DEF ModsKnow
    <2>5. OutageIsReal' /\ OutageIsAlerted'
        BY <1>1, <2>2 DEF OutageIsReal, OutageIsAlerted
    <2>6. QED
        BY <1>2, <2>3, <2>4, <2>5
<1>5. CASE offline # NotSince
    <2> DEFINE ageNow == Older(offline)
               last  == Older(notified)
    <2>1. /\ offline' = ageNow
          /\ IF Due(ageNow, last) THEN notified' = 0 /\ Notify("down", sends)
             ELSE notified' = last /\ Quietly
        BY <1>5 DEF StillOffline
    <2>2. /\ ageNow \in Nat /\ ageNow \in Ages /\ offline \in Nat
          /\ ageNow # NotSince
          /\ ageNow = offline + 1 \/ (offline = Horizon /\ ageNow = Horizon)
          /\ last \in Ages /\ (last = NotSince <=> notified = NotSince)
        BY <1>5, OlderIs DEF DeviceTypes
    <2> HIDE DEF ageNow, last
    <2>3. OutageIsReal'
        <3>1. SUFFICES ASSUME ~skipped
                       PROVE  dark' > ageNow \/ dark' = Horizon
            BY <1>3, <2>1 DEF OutageIsReal
        <3>2. dark > offline \/ dark = Horizon
            BY <1>5, <3>1 DEF OutageIsReal
        <3>3. QED
            BY <1>1, <2>2, <3>2 DEF Ages, NotSince
    <2>4. CASE Due(ageNow, last)
        <3>1. /\ notified' = 0
              /\ believed' = "down" \/ ~clean'
              /\ believed' \in {"up", "down"} /\ clean' \in BOOLEAN
            <4>1. Notify("down", sends)
                BY <2>1, <2>4
            <4>2. /\ believed' = IF modChan /\ sends THEN "down" ELSE believed
                  /\ clean' = (modChan /\ sends)
                BY <4>1 DEF Notify
            <4>3. believed \in {"up", "down"}
                BY DEF DeviceTypes
            <4>4. QED
                BY <2>1, <2>4, <4>2, <4>3
        <3>2. 0 \in Ages /\ 0 # NotSince
            BY DEF Ages, NotSince
        <3>3. DeviceTypes'
            BY <1>1, <1>2, <1>3, <2>1, <2>2, <3>1, <3>2 DEF DeviceTypes
        <3>4. ModsKnow'
            BY <3>1, <3>2 DEF ModsKnow
        <3>5. OutageIsAlerted'
            <4>1. NextGap(ageNow) \in Nat \ {0}
                BY <2>2, GapIs
            <4>2. 0 \in 0..NextGap(ageNow) - 1
                BY <4>1
            <4>3. QED
                BY <2>1, <3>1, <4>2 DEF OutageIsAlerted, NextGap
        <3>6. QED
            BY <1>2, <2>3, <3>3, <3>4, <3>5
    <2>5. CASE ~Due(ageNow, last)
        <3>1. notified' = last /\ believed' = believed /\ clean' = clean
            BY <2>1, <2>5 DEF Quietly
        <3>2. DeviceTypes'
            BY <1>1, <1>2, <1>3, <2>1, <2>2, <3>1 DEF DeviceTypes
        <3>3. ModsKnow'
            BY <2>2, <3>1 DEF ModsKnow
        <3>4. OutageIsAlerted'
            <4>1. ageNow < AlertAfter \/ (last # NotSince /\ last < NextGap(ageNow))
                BY <2>2, <2>5, GapIs DEF Due, Ages, NotSince
            <4>2. CASE ageNow < AlertAfter
                BY <2>1, <2>2, <4>2 DEF OutageIsAlerted
            <4>3. CASE last # NotSince /\ last < NextGap(ageNow)
                <5>1. last \in 0..NextGap(ageNow) - 1
                    BY <2>2, <4>3, GapIs DEF Ages, NotSince
                <5>2. QED
                    BY <2>1, <3>1, <5>1 DEF OutageIsAlerted, NextGap
            <4>4. QED
                BY <4>1, <4>2, <4>3
        <3>5. QED
            BY <1>2, <2>3, <3>2, <3>3, <3>4
    <2>6. QED
        BY <2>4, <2>5
<1>6. QED
    BY <1>4, <1>5

\* A check of a phone that is connected.
LEMMA BackOnlineKeeps ==
    ASSUME DeviceInv, NEW sends \in BOOLEAN, BackOnline(sends), dark' = 0,
           cached' = cached \/ (cached = "unread" /\ cached' = stored),
           UNCHANGED <<stored, saying, lostWrite>>
    PROVE  DeviceInv'
<1> USE DEF DeviceInv
<1>1. /\ offline' = NotSince /\ notified' = NotSince /\ skipped' = FALSE
      /\ IF notified # NotSince THEN Notify("up", sends) ELSE Quietly
    BY DEF BackOnline, DeviceTypes
<1>2. /\ believed' \in {"up", "down"} /\ clean' \in BOOLEAN
      /\ clean' => believed' = "up"
    <2>1. CASE notified # NotSince
        <3>1. /\ believed' = IF modChan /\ sends THEN "up" ELSE believed
              /\ clean' = (modChan /\ sends)
            BY <1>1, <2>1 DEF Notify
        <3>2. believed \in {"up", "down"}
            BY DEF DeviceTypes
        <3>3. QED
            BY <3>1, <3>2
    <2>2. CASE notified = NotSince
        BY <1>1, <2>2 DEF Quietly, ModsKnow, DeviceTypes
    <2>3. QED
        BY <2>1, <2>2
<1>3. SettingHolds' /\ cached' \in {"on", "off", "unread"}
    BY DEF DeviceTypes, SettingHolds
<1>4. DeviceTypes'
    BY <1>1, <1>2, <1>3, AgesAre DEF DeviceTypes
<1>5. ModsKnow'
    BY <1>1, <1>2 DEF ModsKnow
<1>6. OutageIsReal' /\ OutageIsAlerted'
    BY <1>1 DEF OutageIsReal, OutageIsAlerted, NotSince
<1>7. QED
    BY <1>3, <1>4, <1>5, <1>6

\* A check while the setting is off: the ages go on and nobody is told.
LEMMA CheckSkippedKeeps ==
    ASSUME DeviceInv, offline' = Older(offline), notified' = Older(notified),
           skipped' = (offline # NotSince), Quietly, dark' \in 0..Horizon,
           cached' = cached \/ (cached = "unread" /\ cached' = stored),
           UNCHANGED <<stored, saying, lostWrite>>
    PROVE  DeviceInv'
<1> USE DEF DeviceInv
<1>1. /\ offline' \in Ages /\ (offline' = NotSince <=> offline = NotSince)
      /\ notified' \in Ages /\ (notified' = NotSince <=> notified = NotSince)
    BY OlderIs DEF DeviceTypes
<1>2. SettingHolds' /\ cached' \in {"on", "off", "unread"}
    BY DEF DeviceTypes, SettingHolds
<1>3. believed' = believed /\ clean' = clean
    BY DEF Quietly
<1>4. DeviceTypes'
    BY <1>1, <1>2, <1>3 DEF DeviceTypes
<1>5. ModsKnow'
    BY <1>1, <1>3 DEF ModsKnow
<1>6. OutageIsReal'
    BY <1>1 DEF OutageIsReal
<1>7. OutageIsAlerted'
    <2>1. CASE offline = NotSince
        BY <1>1, <2>1 DEF OutageIsAlerted, NotSince
    <2>2. CASE offline # NotSince
        BY <2>2 DEF OutageIsAlerted
    <2>3. QED
        BY <2>1, <2>2
<1>8. QED
    BY <1>2, <1>4, <1>5, <1>6, <1>7

\* A check of the watch.
LEMMA CheckPhoneKeeps ==
    ASSUME DeviceInv, NEW connected \in BOOLEAN, NEW reads \in BOOLEAN,
           NEW sends \in BOOLEAN, AlertIfOffline(connected, reads, sends)
    PROVE  DeviceInv'
<1>1. /\ cached' = cached \/ (cached = "unread" /\ cached' = stored)
      /\ UNCHANGED <<stored, saying, lostWrite>>
    BY DEF AlertIfOffline, Reads
<1>2. /\ connected => dark' = 0
      /\ ~connected => dark' = IF dark < Horizon THEN dark + 1 ELSE dark
    BY DEF AlertIfOffline
<1>3. dark' \in 0..Horizon
    BY <1>2 DEF DeviceInv, DeviceTypes
<1>4. CASE Enabled(reads) /\ connected
    BY <1>1, <1>2, <1>4, BackOnlineKeeps DEF AlertIfOffline
<1>5. CASE Enabled(reads) /\ ~connected
    BY <1>1, <1>2, <1>5, StillOfflineKeeps DEF AlertIfOffline
<1>6. CASE ~Enabled(reads)
    BY <1>1, <1>3, <1>6, CheckSkippedKeeps DEF AlertIfOffline
<1>7. QED
    BY <1>4, <1>5, <1>6

\* A change of the setting, a reconnection, and a restart.
LEMMA SettingKeeps ==
    ASSUME DeviceInv,
           \/ \E v \in {"on", "off"}, how \in {"ok", "refused", "landed"} : Switch(v, how)
           \/ \E resolved \in BOOLEAN : GetChannels(resolved)
           \/ DeviceRestart
           \/ UNCHANGED deviceVars
    PROVE  DeviceInv'
<1> USE DEF DeviceInv
<1>1. CASE \E v \in {"on", "off"}, how \in {"ok", "refused", "landed"} : Switch(v, how)
    <2>1. PICK v \in {"on", "off"}, how \in {"ok", "refused", "landed"} : Switch(v, how)
        BY <1>1
    <2>2. /\ stored' \in {"on", "off"} /\ cached' \in {"on", "off", "unread"}
          /\ lostWrite' \in BOOLEAN
          /\ ~lostWrite' => stored' = v /\ cached' = v /\ saying' = v
        BY <2>1 DEF Switch, SaveSetting, DeviceTypes
    <2>3. /\ offline' = offline /\ notified' = notified /\ dark' = dark /\ clean' = clean
          /\ skipped' = skipped /\ believed' = believed
        BY <2>1 DEF Switch, watch
    <2>4. DeviceTypes'
        BY <2>2, <2>3 DEF DeviceTypes
    <2>5. QED
        BY <2>2, <2>3, <2>4 DEF ModsKnow, OutageIsReal, OutageIsAlerted, SettingHolds, NextGap
<1>2. CASE (\E resolved \in BOOLEAN : GetChannels(resolved)) \/ UNCHANGED deviceVars
    BY <1>2 DEF GetChannels, deviceVars, setting, watch, DeviceTypes, ModsKnow,
                OutageIsReal, OutageIsAlerted, SettingHolds, NextGap
<1>3. CASE DeviceRestart
    <2>1. /\ offline' = NotSince /\ notified' = NotSince /\ cached' = "unread"
          /\ clean' = (clean /\ notified = NotSince) /\ skipped' = FALSE
          /\ UNCHANGED <<stored, saying, lostWrite, believed, dark>>
        BY <1>3 DEF DeviceRestart
    <2>2. DeviceTypes'
        BY <2>1, AgesAre DEF DeviceTypes
    <2>3. ModsKnow'
        BY <2>1 DEF ModsKnow, DeviceTypes
    <2>4. OutageIsReal' /\ OutageIsAlerted'
        BY <2>1 DEF OutageIsReal, OutageIsAlerted, NotSince
    <2>5. SettingHolds'
        BY <2>1 DEF SettingHolds
    <2>6. QED
        BY <2>2, <2>3, <2>4, <2>5
<1>4. QED
    BY <1>1, <1>2, <1>3

\* The watch starts with the phone taken to be up.
LEMMA DeviceStarts == DeviceInit => DeviceInv
<1> SUFFICES ASSUME DeviceInit
             PROVE  DeviceInv
    OBVIOUS
<1> USE DEF DeviceInit
<1>1. DeviceTypes
    BY AgesAre DEF DeviceTypes
<1>2. OutageIsReal /\ OutageIsAlerted
    BY DEF OutageIsReal, OutageIsAlerted, NotSince
<1>3. ModsKnow /\ SettingHolds
    BY DEF ModsKnow, SettingHolds
<1>4. QED
    BY <1>1, <1>2, <1>3 DEF DeviceInv

\* Every step of the watch keeps its invariant.
LEMMA DeviceStep == DeviceInv /\ [DeviceNext]_deviceVars => DeviceInv'
BY CheckPhoneKeeps, SettingKeeps DEF DeviceNext

HIDE DeviceWatchAssumption DEF DeviceWatchAssumption

-------------------------------------------------------------------------------
USE StatusChannelAssumption DEF StatusChannelAssumption

\* StatusChannel.  Ages are kept oldest first.
OldestFirst(ages) ==
    /\ ages \in Seq(0..RenameWindow)
    /\ \A i, k \in 1..Len(ages) : i <= k => ages[k] <= ages[i]

\* Counted from the youngest, each rename sent has an attempt that is no older.
CountedBy(sent, tried) ==
    /\ Len(sent) <= Len(tried)
    /\ \A i \in 1..Len(sent) : tried[Len(tried) - Len(sent) + i] <= sent[i]

\* While the channel lags behind the status, every attempt is older than the calm.
CalmIsYoung ==
    written # current =>
        /\ steady < RenameWindow
        /\ \A i \in 1..Len(attempts) : attempts[i] >= steady

ChannelInv ==
    /\ OldestFirst(attempts) /\ OldestFirst(patches)
    /\ CountedBy(patches, attempts)
    /\ steady \in 0..RenameWindow /\ doubt \in BOOLEAN
    /\ steady > 0 => current # Unwritten
    /\ WithinBudget /\ WrittenIsShown /\ CalmIsYoung

\* A prefix of the ages, and no more of them, is popped.
LEMMA PoppedIs ==
    ASSUME NEW ages, OldestFirst(ages)
    PROVE  /\ Popped(ages) \in 0..Len(ages)
           /\ \A i \in 1..Popped(ages) : ages[i] + 1 >= RenameWindow
           /\ \A i \in 1..Len(ages) : i > Popped(ages) => ages[i] + 1 < RenameWindow
<1>1. /\ Len(ages) \in Nat /\ \A i \in 1..Len(ages) : ages[i] \in 0..RenameWindow
      /\ RenameWindow \in Nat
    BY DEF OldestFirst
<1> DEFINE Q(n) == /\ \A i \in 1..n : ages[i] + 1 >= RenameWindow
                   /\ n < Len(ages) => ages[n + 1] + 1 < RenameWindow
           T == {i \in 1..Len(ages) : ages[i] + 1 < RenameWindow}
<1>2. \E n \in 0..Len(ages) : Q(n)
    <2>1. CASE T = {}
        <3>1. Q(Len(ages))
            BY <1>1, <2>1
        <3>2. QED
            BY <1>1, <3>1
    <2>2. CASE T # {}
        <3>1. T \subseteq Nat
            OBVIOUS
        <3> HIDE DEF T
        <3>2. PICK x \in T : \A y \in T : x <= y
            BY <2>2, <3>1, HasLeast
        <3>3. x \in 1..Len(ages) /\ ages[x] + 1 < RenameWindow /\ x - 1 \in 0..Len(ages)
            BY <1>1, <3>2 DEF T
        <3>4. \A i \in 1..(x - 1) : ages[i] + 1 >= RenameWindow
            BY <1>1, <3>2, <3>3 DEF T
        <3>5. (x - 1) + 1 = x
            BY <3>3
        <3>6. Q(x - 1)
            BY <3>3, <3>4, <3>5
        <3>7. QED
            BY <3>3, <3>6
    <2>3. QED
        BY <2>1, <2>2
<1>3. Popped(ages) \in 0..Len(ages) /\ Q(Popped(ages))
    BY <1>2 DEF Popped
<1>4. ASSUME NEW i \in 1..Len(ages), i > Popped(ages)
      PROVE  ages[i] + 1 < RenameWindow
    <2>1. /\ Popped(ages) + 1 \in 1..Len(ages) /\ Popped(ages) + 1 <= i
          /\ ages[Popped(ages) + 1] + 1 < RenameWindow
        BY <1>1, <1>3, <1>4
    <2>2. ages[i] <= ages[Popped(ages) + 1]
        BY <2>1 DEF OldestFirst
    <2>3. QED
        BY <1>1, <2>1, <2>2
<1>5. QED
    BY <1>3, <1>4

\* What is left a tick later: the youngest ones, inside the window.
LEMMA RecentIs ==
    ASSUME NEW ages, OldestFirst(ages)
    PROVE  /\ OldestFirst(Recent(ages)) /\ Len(Recent(ages)) <= Len(ages)
           /\ \A i \in 1..Len(Recent(ages)) :
                 /\ Recent(ages)[i] = ages[Len(ages) - Len(Recent(ages)) + i] + 1
                 /\ Recent(ages)[i] < RenameWindow
           /\ \A i \in 1..Len(ages) :
                 i <= Len(ages) - Len(Recent(ages)) => ages[i] + 1 >= RenameWindow
<1> DEFINE p == Popped(ages)
           r == Recent(ages)
<1>1. /\ p \in 0..Len(ages)
      /\ \A i \in 1..p : ages[i] + 1 >= RenameWindow
      /\ \A i \in 1..Len(ages) : i > p => ages[i] + 1 < RenameWindow
    BY PoppedIs
<1>2. Len(ages) \in Nat /\ \A i \in 1..Len(ages) : ages[i] \in 0..RenameWindow
    BY DEF OldestFirst
<1>3. RenameWindow \in Nat
    OBVIOUS
<1>4. r = [i \in 1..(Len(ages) - p) |-> ages[p + i] + 1]
    BY DEF Recent
<1> HIDE DEF p, r
<1>5. \A i \in 1..(Len(ages) - p) :
         /\ p + i \in 1..Len(ages) /\ p + i > p
         /\ ages[p + i] + 1 < RenameWindow /\ ages[p + i] + 1 \in 0..RenameWindow
    BY <1>1, <1>2, <1>3
<1>6. r \in Seq(0..RenameWindow) /\ Len(r) = Len(ages) - p
    BY <1>1, <1>2, <1>4, <1>5
<1>7. p = Len(ages) - Len(r)
    BY <1>1, <1>2, <1>6
<1>8. \A i \in 1..Len(r) : r[i] = ages[p + i] + 1
    BY <1>4, <1>6
<1>9. ASSUME NEW i \in 1..Len(r), NEW k \in 1..Len(r), i <= k
      PROVE  r[k] <= r[i]
    <2>1. ages[p + k] <= ages[p + i]
        <3>1. p + k \in 1..Len(ages) /\ p + i \in 1..Len(ages)
            BY <1>5, <1>6
        <3>2. p + i <= p + k
            BY <1>1, <1>2, <1>6, <1>9
        <3>3. QED
            BY <3>1, <3>2 DEF OldestFirst
    <2>2. ages[p + k] \in 0..RenameWindow /\ ages[p + i] \in 0..RenameWindow
        BY <1>2, <1>5, <1>6
    <2>3. QED
        BY <1>3, <1>8, <2>1, <2>2
<1>10. OldestFirst(r) /\ Len(r) <= Len(ages)
    BY <1>1, <1>2, <1>6, <1>9 DEF OldestFirst
<1>11. \A i \in 1..Len(r) : r[i] = ages[Len(ages) - Len(r) + i] + 1 /\ r[i] < RenameWindow
    BY <1>5, <1>6, <1>7, <1>8
<1>12. \A i \in 1..Len(ages) : i <= Len(ages) - Len(r) => ages[i] + 1 >= RenameWindow
    BY <1>1, <1>7
<1>13. QED
    BY <1>10, <1>11, <1>12 DEF r

\* What is left of the renames sent is counted by what is left of the attempts.
LEMMA RecentCounted ==
    ASSUME NEW sent, NEW tried, OldestFirst(sent), OldestFirst(tried),
           CountedBy(sent, tried)
    PROVE  CountedBy(Recent(sent), Recent(tried))
<1> DEFINE s == Recent(sent)
           t == Recent(tried)
<1>1. /\ OldestFirst(s) /\ Len(s) <= Len(sent)
      /\ \A i \in 1..Len(s) : s[i] = sent[Len(sent) - Len(s) + i] + 1 /\ s[i] < RenameWindow
    BY RecentIs
<1>2. /\ OldestFirst(t) /\ Len(t) <= Len(tried)
      /\ \A i \in 1..Len(t) : t[i] = tried[Len(tried) - Len(t) + i] + 1
      /\ \A i \in 1..Len(tried) : i <= Len(tried) - Len(t) => tried[i] + 1 >= RenameWindow
    BY RecentIs
<1>3. /\ Len(s) \in Nat /\ Len(sent) \in Nat /\ Len(t) \in Nat /\ Len(tried) \in Nat
      /\ RenameWindow \in Nat
      /\ \A i \in 1..Len(tried) : tried[i] \in 0..RenameWindow
      /\ \A i \in 1..Len(sent) : sent[i] \in 0..RenameWindow
    BY <1>1, <1>2 DEF OldestFirst
<1> HIDE DEF s, t
<1>4. ASSUME NEW i \in 1..Len(s)
      PROVE  LET k == Len(tried) - Len(s) + i IN
             /\ k \in 1..Len(tried) /\ tried[k] + 1 <= s[i] /\ tried[k] + 1 < RenameWindow
    <2> DEFINE k == Len(tried) - Len(s) + i
               m == Len(sent) - Len(s) + i
    <2>1. /\ m \in 1..Len(sent) /\ k \in 1..Len(tried)
          /\ k = Len(tried) - Len(sent) + m
        BY <1>1, <1>3, <1>4 DEF CountedBy
    <2> HIDE DEF k
    <2>2. s[i] = sent[m] + 1 /\ s[i] < RenameWindow
        BY <1>1, <1>4
    <2> HIDE DEF m
    <2>3. tried[k] <= sent[m]
        BY <2>1 DEF CountedBy
    <2>4. QED
        BY <1>3, <2>1, <2>2, <2>3 DEF k
<1>5. Len(s) <= Len(t)
    <2>1. SUFFICES ASSUME Len(s) > Len(t)
                   PROVE  FALSE
        BY <1>3
    <2>2. 1 \in 1..Len(s)
        BY <1>3, <2>1
    <2> DEFINE k == Len(tried) - Len(s) + 1
    <2>3. k \in 1..Len(tried) /\ tried[k] + 1 < RenameWindow
        BY <1>4, <2>2
    <2>4. k <= Len(tried) - Len(t)
        BY <1>3, <2>1
    <2> HIDE DEF k
    <2>5. tried[k] + 1 >= RenameWindow
        BY <1>2, <2>3, <2>4
    <2>6. tried[k] \in Int
        BY <1>3, <2>3
    <2>7. QED
        BY <1>3, <2>3, <2>5, <2>6
<1>6. ASSUME NEW i \in 1..Len(s)
      PROVE  t[Len(t) - Len(s) + i] <= s[i]
    <2> DEFINE n == Len(t) - Len(s) + i
               k == Len(tried) - Len(s) + i
    <2>1. n \in 1..Len(t) /\ Len(tried) - Len(t) + n = k
        BY <1>3, <1>5, <1>6
    <2>2. tried[k] + 1 <= s[i]
        BY <1>4, <1>6
    <2> HIDE DEF n, k
    <2>3. t[n] = tried[k] + 1
        BY <1>2, <2>1
    <2>4. QED
        BY <2>2, <2>3 DEF n
<1>7. QED
    BY <1>5, <1>6 DEF CountedBy, s, t

\* The status of a sums is never the name of a channel that was not written.
LEMMA StatusIs ==
    ASSUME NEW sums, NEW connected
    PROVE  Message(Indicator(sums), connected) # Unwritten
<1>1. Indicator(sums) \in {"unknown", "red", "green"}
    BY DEF Indicator
<1>2. QED
    BY <1>1 DEF Message, Unwritten

\* A tick that writes nothing.
LEMMA KeepKeeps ==
    ASSUME ChannelInv, NEW status, NEW resolved \in BOOLEAN, status # Unwritten,
           current' = status, Keep(status, resolved),
           resolved => status = written \/ ~BudgetAvailable(Recent(attempts))
    PROVE  ChannelInv'
<1> USE DEF ChannelInv
<1>1. RenameWindow \in Nat \ {0} /\ RenameBudget \in Nat \ {0}
    OBVIOUS
<1>2. /\ showing' = showing /\ written' = written /\ doubt' = doubt
      /\ patches' = Recent(patches)
      /\ steady' \in 0..RenameWindow
      /\ steady' = 0 \/ (resolved /\ status = current /\ steady' <= steady + 1)
    BY <1>1 DEF Keep
<1>3. /\ OldestFirst(Recent(patches)) /\ Len(Recent(patches)) <= Len(patches)
      /\ Len(Recent(patches)) \in Nat /\ Len(patches) \in Nat
      /\ \A i \in 1..Len(Recent(patches)) :
             /\ Recent(patches)[i] = patches[Len(patches) - Len(Recent(patches)) + i] + 1
             /\ Recent(patches)[i] \in 0..RenameWindow
             /\ Recent(patches)[i] < RenameWindow
    BY RecentIs DEF OldestFirst
<1>4. WithinBudget' /\ WrittenIsShown'
    BY <1>1, <1>2, <1>3 DEF WithinBudget, WrittenIsShown
<1>5. CASE status # written
    <2>1. attempts' = Recent(attempts)
        BY <1>5 DEF Keep, ShouldUpdate
    <2>2. /\ OldestFirst(attempts') /\ CountedBy(patches', attempts')
        BY <1>2, <2>1, RecentIs, RecentCounted
    <2>3. CalmIsYoung'
        <3>1. \A i \in 1..Len(attempts') : attempts'[i] \in 0..RenameWindow
            BY <2>2 DEF OldestFirst
        <3>2. CASE steady' = 0
            BY <1>1, <3>1, <3>2 DEF CalmIsYoung
        <3>3. CASE resolved /\ status = current /\ steady' <= steady + 1
            <4>1. written # current /\ \A i \in 1..Len(attempts) : attempts[i] >= steady
                BY <1>5, <3>3 DEF CalmIsYoung
            <4>2. /\ Len(attempts') \in Nat /\ Len(attempts) \in Nat
                  /\ Len(attempts') <= Len(attempts)
                  /\ \A i \in 1..Len(attempts') :
                         /\ attempts'[i] = attempts[Len(attempts) - Len(attempts') + i] + 1
                         /\ attempts'[i] < RenameWindow
                <5>1. /\ Len(Recent(attempts)) \in Nat /\ Len(attempts) \in Nat
                      /\ Len(Recent(attempts)) <= Len(attempts)
                      /\ \A i \in 1..Len(Recent(attempts)) :
                            /\ Recent(attempts)[i] =
                                  attempts[Len(attempts) - Len(Recent(attempts)) + i] + 1
                            /\ Recent(attempts)[i] < RenameWindow
                    BY RecentIs DEF OldestFirst
                <5>2. QED
                    BY <2>1, <5>1
            <4>3. ASSUME NEW i \in 1..Len(attempts')
                  PROVE  attempts'[i] >= steady + 1
                <5> DEFINE k == Len(attempts) - Len(attempts') + i
                <5>1. k \in 1..Len(attempts)
                    BY <4>2
                <5> HIDE DEF k
                <5>2. attempts[k] >= steady /\ attempts[k] \in 0..RenameWindow
                    BY <4>1, <5>1 DEF OldestFirst
                <5>3. attempts'[i] = attempts[k] + 1
                    BY <4>2 DEF k
                <5>4. QED
                    BY <5>2, <5>3
            <4>4. Len(attempts') >= 1
                BY <1>1, <1>5, <2>1, <3>3, <4>2 DEF BudgetAvailable
            <4>5. attempts'[1] >= steady + 1 /\ attempts'[1] < RenameWindow
                BY <4>2, <4>3, <4>4
            <4>6. steady' < RenameWindow
                BY <1>1, <1>2, <3>1, <3>3, <4>2, <4>4, <4>5
            <4>7. \A i \in 1..Len(attempts') : attempts'[i] >= steady'
                BY <1>2, <3>1, <3>3, <4>3
            <4>8. QED
                BY <4>6, <4>7 DEF CalmIsYoung
        <3>4. QED
            BY <1>2, <3>2, <3>3
    <2>4. QED
        BY <1>2, <1>3, <1>4, <2>2, <2>3
<1>6. CASE status = written
    <2> DEFINE older == [i \in DOMAIN attempts |->
                   IF attempts[i] < RenameWindow THEN attempts[i] + 1 ELSE attempts[i]]
    <2>1. attempts' = older
        BY <1>6 DEF Keep, ShouldUpdate
    <2>2. /\ Len(attempts) \in Nat /\ DOMAIN attempts = 1..Len(attempts)
          /\ \A i \in 1..Len(attempts) : attempts[i] \in 0..RenameWindow
        BY DEF OldestFirst
    <2>3. \A i \in 1..Len(attempts) :
             /\ attempts'[i] \in 0..RenameWindow
             /\ attempts'[i] <= attempts[i] + 1
             /\ attempts'[i] = attempts[i] + 1 \/ attempts'[i] = attempts[i]
             /\ attempts'[i] = attempts[i] => attempts[i] = RenameWindow
        BY <1>1, <2>1, <2>2
    <2>4. attempts' \in Seq(0..RenameWindow) /\ Len(attempts') = Len(attempts)
        BY <2>1, <2>2, <2>3
    <2>5. OldestFirst(attempts')
        <3>1. ASSUME NEW i \in 1..Len(attempts), NEW k \in 1..Len(attempts), i <= k
              PROVE  attempts'[k] <= attempts'[i]
            <4>1. attempts[k] <= attempts[i]
                BY <2>2, <3>1 DEF OldestFirst
            <4>2. QED
                BY <1>1, <2>2, <2>3, <4>1
        <3>2. QED
            BY <2>4, <3>1 DEF OldestFirst
    <2>6. CountedBy(patches', attempts')
        <3> DEFINE s == Recent(patches)
        <3>1. Len(s) <= Len(attempts)
            BY <1>3, <2>2 DEF CountedBy
        <3>2. ASSUME NEW i \in 1..Len(s)
              PROVE  attempts'[Len(attempts) - Len(s) + i] <= s[i]
            <4> DEFINE m == Len(patches) - Len(s) + i
                       k == Len(attempts) - Len(s) + i
            <4>1. /\ m \in 1..Len(patches) /\ k \in 1..Len(attempts)
                  /\ k = Len(attempts) - Len(patches) + m
                BY <1>3, <2>2, <3>2 DEF CountedBy
            <4> HIDE DEF k
            <4>2. s[i] = patches[m] + 1
                BY <1>3
            <4> HIDE DEF m
            <4>3. attempts[k] <= patches[m]
                BY <4>1 DEF CountedBy
            <4>4. patches[m] \in 0..RenameWindow
                BY <4>1 DEF OldestFirst
            <4>5. attempts'[k] <= s[i]
                <5>1. /\ attempts'[k] \in Int /\ attempts[k] \in Int
                      /\ attempts'[k] <= attempts[k] + 1
                    BY <2>2, <2>3, <4>1
                <5>2. attempts[k] + 1 <= s[i] /\ s[i] \in Int
                    BY <4>2, <4>3, <4>4, <5>1
                <5>3. QED
                    BY <5>1, <5>2
            <4>6. QED
                BY <4>5 DEF k
        <3>3. QED
            BY <1>2, <2>4, <3>1, <3>2 DEF CountedBy
    <2>7. CalmIsYoung'
        BY <1>2, <1>6 DEF CalmIsYoung
    <2>8. QED
        BY <1>2, <1>3, <1>4, <2>5, <2>6, <2>7
<1>7. QED
    BY <1>5, <1>6

\* A tick that sends a rename.
LEMMA RenameKeeps ==
    ASSUME ChannelInv, NEW status, NEW how \in Outcomes, NEW landed \in BOOLEAN,
           status # Unwritten, current' = status, Rename(status, how, landed),
           BudgetAvailable(Recent(attempts))
    PROVE  ChannelInv'
<1> USE DEF ChannelInv
<1> DEFINE young == Recent(attempts)
           s == Recent(patches)
           more == IF how = "timeout" THEN RenameBudget + 1 ELSE 1
           zeros == [i \in 1..more |-> 0]
<1>1. RenameWindow \in Nat \ {0} /\ RenameBudget \in Nat \ {0} /\ more \in Nat \ {0}
    OBVIOUS
<1>2. /\ how = "ok" => landed
      /\ showing' = IF landed THEN status ELSE showing
      /\ written' = IF how = "ok" THEN status ELSE written
      /\ doubt' = (how # "ok" /\ (doubt \/ landed))
      /\ attempts' = young \o zeros /\ patches' = Append(s, 0)
    BY DEF Rename, Spent
<1>3. steady' \in 0..RenameWindow /\ (how # "ok" => steady' = 0)
    BY <1>1 DEF Rename
<1>4. OldestFirst(young) /\ OldestFirst(s) /\ CountedBy(s, young)
    BY RecentIs, RecentCounted
<1> HIDE DEF more
<1>5. zeros \in Seq(0..RenameWindow) /\ Len(zeros) = more
    BY <1>1
<1> HIDE DEF young, s
<1>6. /\ young \in Seq(0..RenameWindow) /\ s \in Seq(0..RenameWindow)
      /\ Len(young) \in Nat /\ Len(s) \in Nat /\ Len(s) <= Len(young)
      /\ Len(young) < RenameBudget
      /\ \A i \in 1..Len(young) : young[i] \in 0..RenameWindow
      /\ \A i \in 1..Len(s) : s[i] \in 0..RenameWindow
    <2>1. Len(young) < RenameBudget
        BY DEF BudgetAvailable, young
    <2>2. young \in Seq(0..RenameWindow) /\ s \in Seq(0..RenameWindow)
        BY <1>4 DEF OldestFirst
    <2>3. Len(s) <= Len(young)
        BY <1>4 DEF CountedBy
    <2>4. QED
        BY <2>1, <2>2, <2>3
<1>7. /\ attempts' \in Seq(0..RenameWindow) /\ Len(attempts') = Len(young) + more
      /\ \A i \in 1..Len(young) : attempts'[i] = young[i]
      /\ \A i \in 1..(Len(young) + more) : i > Len(young) => attempts'[i] = 0
    <2>1. zeros \in Seq(0..RenameWindow) /\ Len(zeros) = more
          /\ \A i \in 1..more : zeros[i] = 0
        BY <1>1, <1>5
    <2> HIDE DEF zeros
    <2>2. attempts' = young \o zeros
        BY <1>2
    <2>3. /\ attempts' \in Seq(0..RenameWindow) /\ Len(attempts') = Len(young) + Len(zeros)
          /\ \A i \in 1..(Len(young) + Len(zeros)) :
                attempts'[i] = IF i <= Len(young) THEN young[i] ELSE zeros[i - Len(young)]
        BY <1>6, <2>1, <2>2, ConcatProperties
    <2>4. \A i \in 1..Len(young) : attempts'[i] = young[i]
        BY <1>1, <1>6, <2>1, <2>3
    <2>5. ASSUME NEW i \in 1..(Len(young) + more), i > Len(young)
          PROVE  attempts'[i] = 0
        <3>1. i - Len(young) \in 1..more
            BY <1>1, <1>6, <2>5
        <3>2. attempts'[i] = zeros[i - Len(young)]
            BY <1>1, <1>6, <2>1, <2>3, <2>5
        <3>3. QED
            BY <2>1, <3>1, <3>2
    <2>6. QED
        BY <2>1, <2>3, <2>4, <2>5
<1>8. /\ patches' \in Seq(0..RenameWindow) /\ Len(patches') = Len(s) + 1
      /\ \A i \in 1..Len(s) : patches'[i] = s[i]
      /\ patches'[Len(s) + 1] = 0
    BY <1>1, <1>2, <1>6, AppendProperties
<1> HIDE DEF zeros
<1>9. OldestFirst(attempts')
    <2>1. ASSUME NEW i \in 1..(Len(young) + more), NEW k \in 1..(Len(young) + more), i <= k
          PROVE  attempts'[k] <= attempts'[i]
        <3>1. CASE k <= Len(young)
            <4>1. k \in 1..Len(young) /\ i \in 1..Len(young) /\ young[k] <= young[i]
                BY <1>1, <1>4, <1>6, <2>1, <3>1 DEF OldestFirst
            <4>2. QED
                BY <1>7, <4>1
        <3>2. CASE k > Len(young)
            <4>1. attempts'[k] = 0
                BY <1>7, <3>2
            <4>2. attempts'[i] = 0 \/ (i \in 1..Len(young) /\ attempts'[i] = young[i])
                BY <1>1, <1>6, <1>7
            <4>3. QED
                BY <1>6, <4>1, <4>2
        <3>3. QED
            BY <1>1, <1>6, <3>1, <3>2
    <2>2. QED
        BY <1>7, <2>1 DEF OldestFirst
<1>10. OldestFirst(patches')
    <2>1. ASSUME NEW i \in 1..(Len(s) + 1), NEW k \in 1..(Len(s) + 1), i <= k
          PROVE  patches'[k] <= patches'[i]
        <3>1. CASE k <= Len(s)
            <4>1. k \in 1..Len(s) /\ i \in 1..Len(s) /\ s[k] <= s[i]
                BY <1>4, <1>6, <2>1, <3>1 DEF OldestFirst
            <4>2. QED
                BY <1>8, <4>1
        <3>2. CASE k > Len(s)
            <4>1. k = Len(s) + 1
                BY <1>6, <3>2
            <4>2. i = Len(s) + 1 \/ i \in 1..Len(s)
                BY <1>6
            <4>3. QED
                BY <1>6, <1>8, <4>1, <4>2
        <3>3. QED
            BY <1>6, <3>1, <3>2
    <2>2. QED
        BY <1>8, <2>1 DEF OldestFirst
<1>11. CountedBy(patches', attempts')
    <2>1. Len(patches') <= Len(attempts')
        BY <1>1, <1>6, <1>7, <1>8
    <2>2. ASSUME NEW i \in 1..(Len(s) + 1)
          PROVE  attempts'[Len(young) + more - (Len(s) + 1) + i] <= patches'[i]
        <3> DEFINE k == Len(young) + more - (Len(s) + 1) + i
        <3>1. k \in 1..(Len(young) + more)
            BY <1>1, <1>6
        <3>2. CASE i = Len(s) + 1
            <4>1. k > Len(young)
                BY <1>1, <1>6, <3>2
            <4> HIDE DEF k
            <4>2. attempts'[k] = 0
                BY <1>7, <3>1, <4>1
            <4>3. QED
                BY <1>8, <3>2, <4>2 DEF k
        <3>3. CASE i # Len(s) + 1
            <4>1. i \in 1..Len(s) /\ patches'[i] = s[i] /\ s[i] \in 0..RenameWindow
                BY <1>6, <1>8, <3>3
            <4>2. CASE k > Len(young)
                <5> HIDE DEF k
                <5>1. attempts'[k] = 0
                    BY <1>7, <3>1, <4>2
                <5>2. QED
                    BY <4>1, <5>1 DEF k
            <4>3. CASE k <= Len(young)
                <5> DEFINE m == Len(young) - Len(s) + i
                <5>1. m \in 1..Len(young) /\ m <= k /\ k \in 1..Len(young)
                    BY <1>1, <1>6, <3>1, <4>1, <4>3
                <5>2. young[m] <= s[i]
                    BY <1>4, <4>1 DEF CountedBy
                <5> HIDE DEF k, m
                <5>3. young[k] <= young[m]
                    BY <1>4, <5>1 DEF OldestFirst
                <5>4. attempts'[k] = young[k] /\ young[k] \in 0..RenameWindow
                      /\ young[m] \in 0..RenameWindow
                    BY <1>6, <1>7, <5>1
                <5>5. attempts'[k] <= patches'[i]
                    BY <4>1, <5>2, <5>3, <5>4
                <5>6. QED
                    BY <5>5 DEF k
            <4>4. QED
                BY <1>1, <1>6, <4>2, <4>3
        <3>4. QED
            BY <3>2, <3>3
    <2>3. QED
        <3>1. Len(attempts') = Len(young) + more /\ Len(patches') = Len(s) + 1
            BY <1>7, <1>8
        <3>2. ASSUME NEW i \in 1..Len(patches')
              PROVE  attempts'[Len(attempts') - Len(patches') + i] <= patches'[i]
            <4>1. i \in 1..(Len(s) + 1)
                BY <3>1
            <4>2. attempts'[Len(young) + more - (Len(s) + 1) + i] <= patches'[i]
                BY <2>2, <4>1
            <4> DEFINE a == Len(attempts')
                       b == Len(patches')
            <4>3. a = Len(young) + more /\ b = Len(s) + 1
                BY <3>1
            <4> HIDE DEF a, b
            <4>4. attempts'[a - b + i] <= patches'[i]
                <5>1. /\ i \in Int /\ Len(young) \in Int /\ Len(s) \in Int /\ more \in Int
                      /\ a \in Int /\ b \in Int
                    BY <1>1, <1>6, <4>1, <4>3
                <5>2. a - b + i = Len(young) + more - (Len(s) + 1) + i
                    BY <4>3, <5>1
                <5>3. QED
                    BY <4>2, <5>2
            <4>5. QED
                BY <4>4 DEF a, b
        <3>3. QED
            BY <2>1, <3>2 DEF CountedBy
<1>12. WithinBudget' /\ WrittenIsShown'
    <2>1. WithinBudget'
        BY <1>1, <1>6, <1>8 DEF WithinBudget
    <2>2. WrittenIsShown'
        BY <1>2 DEF WrittenIsShown
    <2>3. QED
        BY <2>1, <2>2
<1>13. CalmIsYoung'
    <2>1. CASE how = "ok"
        BY <1>2, <2>1 DEF CalmIsYoung
    <2>2. CASE how # "ok"
        <3>1. \A i \in 1..Len(attempts') : attempts'[i] \in 0..RenameWindow
            BY <1>9 DEF OldestFirst
        <3>2. QED
            BY <1>1, <1>3, <2>2, <3>1 DEF CalmIsYoung
    <2>3. QED
        BY <2>1, <2>2
<1>14. QED
    BY <1>2, <1>3, <1>9, <1>10, <1>11, <1>12, <1>13

\* A tick of the channel.
LEMMA ChannelTickKeeps ==
    ASSUME ChannelInv, NEW sums, NEW connected, RenameVoiceChannel(sums, connected)
    PROVE  ChannelInv'
<1> DEFINE status == Message(Indicator(sums), connected)
           renames == ShouldUpdate(status) /\ BudgetAvailable(Recent(attempts))
<1>1. status # Unwritten
    BY StatusIs
<1>2. /\ current' = status
      /\ \/ ~renames /\ Keep(status, TRUE)
         \/ renames /\ Keep(status, FALSE)
         \/ /\ renames
            /\ \E how \in Outcomes, landed \in BOOLEAN : Rename(status, how, landed)
    BY DEF RenameVoiceChannel
<1> HIDE DEF status
<1>3. CASE ~renames /\ Keep(status, TRUE)
    BY <1>1, <1>2, <1>3, KeepKeeps DEF ShouldUpdate
<1>4. CASE renames /\ Keep(status, FALSE)
    BY <1>1, <1>2, <1>4, KeepKeeps
<1>5. CASE renames /\ \E how \in Outcomes, landed \in BOOLEAN : Rename(status, how, landed)
    BY <1>1, <1>2, <1>5, RenameKeeps
<1>6. QED
    BY <1>2, <1>3, <1>4, <1>5

\* No age is kept at the start, or over a restart.
LEMMA NoAges == OldestFirst(<<>>) /\ CountedBy(<<>>, <<>>) /\ Len(<<>>) = 0
BY DEF OldestFirst, CountedBy

\* The channel is unwritten at first.
LEMMA ChannelStarts == ChannelInit => ChannelInv
<1> SUFFICES ASSUME ChannelInit
             PROVE  ChannelInv
    OBVIOUS
<1>1. /\ attempts = <<>> /\ patches = <<>> /\ steady = 0 /\ doubt = FALSE
      /\ written = Unwritten /\ current = Unwritten
    BY DEF ChannelInit
<1>2. /\ steady \in 0..RenameWindow /\ ~(steady > 0) /\ Len(patches) <= RenameBudget
      /\ doubt \in BOOLEAN
    <2>1. 0 \in 0..RenameWindow /\ ~(0 > 0) /\ 0 <= RenameBudget
        OBVIOUS
    <2>2. QED
        BY <1>1, <2>1, NoAges, Zenon
<1>3. OldestFirst(attempts) /\ OldestFirst(patches) /\ CountedBy(patches, attempts)
    BY <1>1, NoAges, Zenon
<1>4. QED
    BY <1>1, <1>2, <1>3 DEF ChannelInv, WithinBudget, WrittenIsShown, CalmIsYoung

\* Every step of the channel keeps its invariant.
LEMMA ChannelStep == ChannelInv /\ [ChannelNext]_channelVars => ChannelInv'
<1> SUFFICES ASSUME ChannelInv, [ChannelNext]_channelVars
             PROVE  ChannelInv'
    OBVIOUS
<1>1. CASE UNCHANGED channelVars
    BY <1>1 DEF channelVars, ChannelInv, WithinBudget, WrittenIsShown, CalmIsYoung
<1>2. CASE ChannelRestart
    <2>1. /\ attempts' = <<>> /\ patches' = <<>> /\ steady' = 0 /\ written' = Unwritten
          /\ doubt' = doubt /\ current' = current
        BY <1>2 DEF ChannelRestart
    <2>2. steady' \in 0..RenameWindow /\ Len(patches') <= RenameBudget
        BY <2>1, NoAges
    <2>3. CalmIsYoung'
        BY <2>1, NoAges DEF CalmIsYoung
    <2>4. QED
        BY <2>1, <2>2, <2>3, NoAges DEF ChannelInv, WithinBudget, WrittenIsShown
<1>3. CASE \E sums \in Readings, connected \in BOOLEAN :
               RenameVoiceChannel(sums, connected)
    BY <1>3, ChannelTickKeeps
<1>4. QED
    BY <1>1, <1>2, <1>3 DEF ChannelNext

\* The budget is kept and the name is right (ChannelIsRight).
LEMMA ChannelPromise == ChannelInv => ChannelIsRight
<1> SUFFICES ASSUME ChannelInv, steady >= RenameWindow, ~doubt
             PROVE  showing = current
    BY DEF ChannelInv, ChannelIsRight, StatusIsShown
<1>1. steady > 0 /\ ~(steady < RenameWindow)
    BY DEF ChannelInv
<1>2. written = current /\ current # Unwritten
    BY <1>1 DEF ChannelInv, CalmIsYoung
<1>3. QED
    BY <1>2 DEF ChannelInv, WrittenIsShown

HIDE StatusChannelAssumption DEF StatusChannelAssumption

-------------------------------------------------------------------------------
USE PhoneCommandsAssumption DEF PhoneCommandsAssumption

\* PhoneCommands.  What can be left of an operation, and where its coroutine then is.
LadderLeft ==
    {<<>>, <<"stop_game", "stop_aegis", "settle", "start_aegis">>,
     <<"stop_aegis", "settle", "start_aegis">>, <<"settle", "start_aegis">>,
     <<"start_aegis">>, <<"read">>}
OwnerLeft ==
    {<<>>, <<"stop_game", "start_game">>, <<"start_game">>, <<"reboot">>, <<"read">>}

LeftOf(j) == IF j = Ladder THEN LadderLeft ELSE OwnerLeft

LeftIsKnown ==
    /\ apps \subseteq AllApps /\ refused \in BOOLEAN
    /\ at = [j \in Coroutines |-> at[j]] /\ left = [j \in Coroutines |-> left[j]]
    /\ \A j \in Coroutines :
          /\ left[j] \in LeftOf(j)
          /\ at[j] = "idle" <=> left[j] = <<>>
          /\ at[j] = "settle" <=> left[j] = <<"settle", "start_aegis">>

Restarts(j) == left[j] # <<>> /\ Touches(j)

\* Only the ladder stops Aegis, and only its own last command ends its work on it.
AegisIsKnown == "aegis" \notin apps => refused \/ Restarts(Ladder)
GameIsKnown  == "game" \notin apps => refused \/ Restarts(Ladder) \/ Restarts(Owner)

PhoneInv == LeftIsKnown /\ AegisIsKnown /\ GameIsKnown

\* What a command leaves of an operation.
LEMMA RestIs ==
    ASSUME NEW j \in Coroutines, NEW s \in LeftOf(j), s # <<>>
    PROVE  /\ Tail(s) \in LeftOf(j)
           /\ s[1] = Head(s)
           /\ Tail(s) # <<>> => /\ s[1] \in {"stop_game", "stop_aegis", "settle"}
                                /\ Tail(s)[1] \notin {"read", "reboot"}
                                /\ Head(Tail(s)) = Tail(s)[1]
           /\ Tail(s) = <<>> =>
                 s[1] \in (IF j = Ladder THEN {"start_aegis", "read"}
                           ELSE {"start_game", "reboot", "read"})
           /\ s[1] = "stop_aegis" => j = Ladder
           /\ s[1] \in {"stop_game", "stop_aegis"} => Tail(s) # <<>>
           /\ Tail(s) # <<>> =>
                (Head(Tail(s)) = "settle" <=> Tail(s) = <<"settle", "start_aegis">>)
<1>1. /\ Tail(<<"stop_game", "stop_aegis", "settle", "start_aegis">>) =
             <<"stop_aegis", "settle", "start_aegis">>
      /\ Tail(<<"stop_aegis", "settle", "start_aegis">>) = <<"settle", "start_aegis">>
      /\ Tail(<<"settle", "start_aegis">>) = <<"start_aegis">>
      /\ Tail(<<"stop_game", "start_game">>) = <<"start_game">>
      /\ \A x \in {"start_aegis", "start_game", "read", "reboot"} : Tail(<<x>>) = <<>>
    OBVIOUS
<1>2. CASE \E y \in {"start_aegis", "start_game", "read", "reboot"} : s = <<y>>
    <2>1. PICK x \in {"start_aegis", "start_game", "read", "reboot"} : s = <<x>>
        BY <1>2
    <2>2. x \in (IF j = Ladder THEN {"start_aegis", "read"}
                ELSE {"start_game", "reboot", "read"})
        BY <2>1 DEF LeftOf, LadderLeft, OwnerLeft
    <2>3. Tail(s) = <<>> /\ s[1] = x /\ Head(s) = x
        BY <1>1, <2>1
    <2>4. QED
        BY <2>2, <2>3 DEF LeftOf, LadderLeft, OwnerLeft
<1>3. CASE s = <<"stop_game", "stop_aegis", "settle", "start_aegis">>
    <2>1. /\ j = Ladder /\ s[1] = "stop_game" /\ Head(s) = "stop_game"
          /\ Tail(s) = <<"stop_aegis", "settle", "start_aegis">>
        BY <1>1, <1>3 DEF LeftOf, OwnerLeft
    <2>2. /\ Tail(s)[1] = "stop_aegis" /\ Head(Tail(s)) = "stop_aegis"
          /\ Tail(s) # <<>> /\ Tail(s) # <<"settle", "start_aegis">>
        <3>1. /\ <<"stop_aegis", "settle", "start_aegis">> # <<>>
              /\ <<"stop_aegis", "settle", "start_aegis">> # <<"settle", "start_aegis">>
              /\ <<"stop_aegis", "settle", "start_aegis">>[1] = "stop_aegis"
              /\ Head(<<"stop_aegis", "settle", "start_aegis">>) = "stop_aegis"
            OBVIOUS
        <3>2. QED
            BY <2>1, <3>1, Zenon
    <2>3. Tail(s) \in LeftOf(j)
        BY <2>1 DEF LeftOf, LadderLeft
    <2>4. QED
        BY <2>1, <2>2, <2>3
<1>4. CASE s = <<"stop_aegis", "settle", "start_aegis">>
    <2>1. /\ j = Ladder /\ s[1] = "stop_aegis" /\ Head(s) = "stop_aegis"
          /\ Tail(s) = <<"settle", "start_aegis">>
        BY <1>1, <1>4 DEF LeftOf, OwnerLeft
    <2>2. QED
        BY <2>1 DEF LeftOf, LadderLeft
<1>5. CASE s = <<"settle", "start_aegis">>
    <2>1. /\ j = Ladder /\ s[1] = "settle" /\ Head(s) = "settle"
          /\ Tail(s) = <<"start_aegis">>
        BY <1>1, <1>5 DEF LeftOf, OwnerLeft
    <2>2. QED
        BY <2>1 DEF LeftOf, LadderLeft
<1>6. CASE s = <<"stop_game", "start_game">>
    <2>1. /\ j # Ladder /\ s[1] = "stop_game" /\ Head(s) = "stop_game"
          /\ Tail(s) = <<"start_game">>
        BY <1>1, <1>6 DEF LeftOf, LadderLeft
    <2>2. /\ Tail(s)[1] = "start_game" /\ Head(Tail(s)) = "start_game"
          /\ Tail(s) # <<>> /\ Tail(s) # <<"settle", "start_aegis">>
        <3>1. /\ <<"start_game">> # <<>>
              /\ <<"start_game">> # <<"settle", "start_aegis">>
              /\ <<"start_game">>[1] = "start_game"
              /\ Head(<<"start_game">>) = "start_game"
            OBVIOUS
        <3>2. QED
            BY <2>1, <3>1, Zenon
    <2>3. Tail(s) \in LeftOf(j)
        BY <2>1 DEF LeftOf, OwnerLeft
    <2>4. QED
        BY <2>1, <2>2, <2>3
<1>7. QED
    BY <1>2, <1>3, <1>4, <1>5, <1>6 DEF LeftOf, LadderLeft, OwnerLeft

\* A step of a coroutine that goes on with the command it has.
LEMMA GoesOnKeeps ==
    ASSUME PhoneInv, NEW j \in Coroutines, NEW where, at[j] \notin {"idle", "settle"},
           where \notin {"idle", "settle"},
           Go(j, where), UNCHANGED <<apps, left, refused>>
    PROVE  PhoneInv'
<1>1. LeftIsKnown'
    BY DEF PhoneInv, LeftIsKnown, Go, LeftOf
<1>2. AegisIsKnown' /\ GameIsKnown'
    BY DEF PhoneInv, AegisIsKnown, GameIsKnown, Restarts, Touches
<1>3. QED
    BY <1>1, <1>2 DEF PhoneInv

\* An operation that ends failed, which its asker hears; it may have run all the same.
LEMMA RefusedKeeps ==
    ASSUME PhoneInv, NEW j \in Coroutines, at[j] # "idle", End(j),
           apps' \subseteq AllApps,
           \/ apps' = apps \/ Touches(j),
           refused' = ((refused \/ Touches(j)) /\ apps' # AllApps)
    PROVE  PhoneInv'
<1>1. LeftIsKnown'
    <2>1. <<>> \in LeftOf(j) /\ <<>> # <<"settle", "start_aegis">>
        BY DEF LeftOf, LadderLeft, OwnerLeft
    <2>2. Touches(j) \in BOOLEAN
        BY DEF Touches
    <2>3. /\ at' = [at EXCEPT ![j] = "idle"] /\ left' = [left EXCEPT ![j] = <<>>]
          /\ refused' \in BOOLEAN
        BY <2>2 DEF End, Go, PhoneInv, LeftIsKnown
    <2>4. QED
        BY <2>1, <2>3 DEF PhoneInv, LeftIsKnown, LeftOf
<1>2. \A i \in Coroutines : i # j => (Restarts(i) <=> Restarts(i)')
    BY DEF Restarts, Touches, End, PhoneInv, LeftIsKnown
<1>3. ASSUME apps' # AllApps, ~refused'
      PROVE  apps' = apps /\ ~refused /\ ~Restarts(j)
    BY <1>3 DEF Restarts
<1>4. "aegis" \notin apps' \/ "game" \notin apps' => apps' # AllApps
    BY DEF AllApps
<1>5. Ladder \in Coroutines /\ Owner \in Coroutines
    BY DEF Coroutines
<1>6. AegisIsKnown'
    BY <1>2, <1>3, <1>4, <1>5 DEF PhoneInv, AegisIsKnown
<1>7. GameIsKnown'
    BY <1>2, <1>3, <1>4, <1>5 DEF PhoneInv, GameIsKnown
<1>8. QED
    BY <1>1, <1>6, <1>7 DEF PhoneInv

\* A command that the phone obeys.
LEMMA CommandKeeps ==
    ASSUME PhoneInv, NEW j \in Coroutines, Command(j)
    PROVE  PhoneInv'
<1> DEFINE s == left[j]
<1>1. /\ at[j] = "command" /\ s \in LeftOf(j) /\ s # <<>>
    BY DEF Command, PhoneInv, LeftIsKnown
<1>2. /\ apps' = Effect(Head(s)) /\ apps' \subseteq AllApps
      /\ refused' = (refused /\ apps' # AllApps) /\ refused' \in BOOLEAN
      /\ Advance(j)
    BY DEF Command, Effect, AllApps, PhoneInv, LeftIsKnown
<1>3. /\ left' = [left EXCEPT ![j] = Tail(s)]
      /\ Tail(s) = <<>> => at' = [at EXCEPT ![j] = "idle"]
      /\ Tail(s) # <<>> /\ Head(Tail(s)) = "settle" => at' = [at EXCEPT ![j] = "settle"]
      /\ Tail(s) # <<>> /\ Head(Tail(s)) # "settle" => at' = [at EXCEPT ![j] = "connect"]
    BY <1>2 DEF Advance, End, Go
<1>4. LeftIsKnown'
    <2>1. <<>> # <<"settle", "start_aegis">>
        OBVIOUS
    <2> HIDE DEF s
    <2>2. /\ Tail(s) \in LeftOf(j)
          /\ Tail(s) # <<>> =>
                (Head(Tail(s)) = "settle" <=> Tail(s) = <<"settle", "start_aegis">>)
        BY <1>1, RestIs
    <2>3. at'[j] = "idle" <=> Tail(s) = <<>>
        BY <1>3 DEF PhoneInv, LeftIsKnown
    <2>4. at'[j] = "settle" <=> Tail(s) = <<"settle", "start_aegis">>
        BY <1>3, <2>1, <2>2 DEF PhoneInv, LeftIsKnown
    <2>5. /\ at' = [i \in Coroutines |-> at'[i]] /\ left' = [i \in Coroutines |-> left'[i]]
          /\ left'[j] = Tail(s)
          /\ \A i \in Coroutines : i # j => at'[i] = at[i] /\ left'[i] = left[i]
        BY <1>3 DEF PhoneInv, LeftIsKnown
    <2>6. QED
        BY <1>2, <2>2, <2>3, <2>4, <2>5 DEF PhoneInv, LeftIsKnown, LeftOf
<1>5. \A i \in Coroutines : i # j => (Restarts(i) <=> Restarts(i)')
    BY <1>3 DEF Restarts, Touches, PhoneInv, LeftIsKnown
<1>6. /\ s[1] = Head(s)
      /\ s[1] \in {"stop_game", "stop_aegis", "settle"} => Restarts(j)
      /\ s[1] \in {"stop_game", "stop_aegis"} => Restarts(j)'
      /\ Restarts(j) /\ ~Restarts(j)' =>
            s[1] = (IF j = Ladder THEN "start_aegis" ELSE "start_game")
      /\ s[1] = "stop_aegis" => j = Ladder
    BY <1>1, <1>3, RestIs DEF Restarts, Touches, PhoneInv, LeftIsKnown
<1>7. Ladder \in Coroutines /\ Owner \in Coroutines /\ Ladder # Owner
    BY DEF Coroutines
<1>8. /\ j = Ladder \/ j = Owner
      /\ AegisIsKnown /\ GameIsKnown /\ apps \subseteq AllApps
    BY DEF PhoneInv, Coroutines, LeftIsKnown
<1> HIDE DEF s
<1>9. AegisIsKnown'
    <2>1. SUFFICES ASSUME "aegis" \notin apps', ~refused'
                   PROVE  Restarts(Ladder)'
        BY DEF AegisIsKnown
    <2>2. apps' # AllApps /\ ~refused
        BY <1>2, <2>1 DEF AllApps
    <2>3. CASE s[1] = "stop_aegis"
        BY <1>6, <2>3
    <2>4. CASE s[1] # "stop_aegis"
        <3>1. "aegis" \notin apps /\ s[1] # "start_aegis"
            BY <1>2, <1>6, <2>1, <2>4 DEF Effect, AllApps
        <3>2. Restarts(Ladder)
            BY <1>8, <2>2, <3>1 DEF AegisIsKnown
        <3>3. QED
            BY <1>5, <1>6, <1>7, <1>8, <3>1, <3>2
    <2>5. QED
        BY <2>3, <2>4
<1>10. GameIsKnown'
    <2>1. SUFFICES ASSUME "game" \notin apps', ~refused'
                   PROVE  Restarts(Ladder)' \/ Restarts(Owner)'
        BY DEF GameIsKnown
    <2>2. apps' # AllApps /\ ~refused
        BY <1>2, <2>1 DEF AllApps
    <2>3. CASE s[1] = "stop_game"
        BY <1>6, <1>8, <2>3
    <2>4. CASE s[1] # "stop_game"
        <3>1. "game" \notin apps /\ s[1] # "start_aegis" /\ s[1] # "start_game"
            BY <1>2, <1>6, <2>1, <2>4 DEF Effect, AllApps
        <3>2. Restarts(Ladder) \/ Restarts(Owner)
            BY <1>8, <2>2, <3>1 DEF GameIsKnown
        <3>3. Restarts(j) => Restarts(j)'
            BY <1>6, <3>1
        <3>4. QED
            BY <1>5, <1>7, <1>8, <3>2, <3>3
    <2>5. QED
        BY <2>3, <2>4
<1>11. QED
    BY <1>4, <1>9, <1>10 DEF PhoneInv

\* A command the phone does not obey, or that adb does not see end.
LEMMA CommandLostKeeps ==
    ASSUME PhoneInv, NEW j \in Coroutines,
           CommandFails(j) \/ \E ran \in BOOLEAN : CommandHangs(j, ran)
    PROVE  PhoneInv'
<1>1. CASE CommandFails(j)
    <2>1. /\ at[j] = "command" /\ End(j) /\ apps' = apps /\ apps \subseteq AllApps
          /\ refused' = (refused \/ Touches(j))
        BY <1>1 DEF CommandFails, PhoneInv, LeftIsKnown
    <2>2. CASE apps # AllApps
        BY <2>1, <2>2, RefusedKeeps DEF Touches, PhoneInv, LeftIsKnown
    <2>3. CASE apps = AllApps
        <3>1. "aegis" \in apps' /\ "game" \in apps'
            BY <2>1, <2>3 DEF AllApps
        <3>2. LeftIsKnown'
            <4>1. <<>> \in LeftOf(j) /\ <<>> # <<"settle", "start_aegis">>
                BY DEF LeftOf, LadderLeft, OwnerLeft
            <4>2. /\ at' = [at EXCEPT ![j] = "idle"] /\ left' = [left EXCEPT ![j] = <<>>]
                  /\ refused' \in BOOLEAN
                BY <2>1 DEF End, Go, Touches, PhoneInv, LeftIsKnown
            <4>3. QED
                BY <2>1, <4>1, <4>2 DEF PhoneInv, LeftIsKnown, LeftOf
        <3>3. QED
            BY <3>1, <3>2 DEF PhoneInv, AegisIsKnown, GameIsKnown
    <2>4. QED
        BY <2>2, <2>3
<1>2. CASE \E ran \in BOOLEAN : CommandHangs(j, ran)
    <2>1. PICK ran \in BOOLEAN : CommandHangs(j, ran)
        BY <1>2
    <2>2. /\ at[j] # "idle" /\ End(j)
          /\ refused' = ((refused \/ Touches(j)) /\ apps' # AllApps)
        BY <2>1 DEF CommandHangs
    <2>3. /\ left[j] \in LeftOf(j) /\ left[j] # <<>> /\ apps \subseteq AllApps
        BY <2>2 DEF PhoneInv, LeftIsKnown
    <2>4. left[j][1] = Head(left[j])
        BY <2>3, RestIs
    <2>5. apps' \subseteq AllApps /\ (apps' = apps \/ Touches(j))
        <3>1. apps' = apps \/ apps' = Effect(Head(left[j]))
            BY <2>1 DEF CommandHangs
        <3>2. QED
            BY <2>3, <2>4, <3>1 DEF Effect, AllApps, Touches
    <2>6. QED
        BY <2>2, <2>5, RefusedKeeps
<1>3. QED
    BY <1>1, <1>2

\* An operation asked for, and the pause of one.
LEMMA AskedKeeps ==
    ASSUME PhoneInv, NEW j \in Coroutines, (\E op \in OpsOf(j) : Ask(j, op)) \/ Settled(j)
    PROVE  PhoneInv'
<1>1. PICK s : /\ left' = [left EXCEPT ![j] = s] /\ at' = [at EXCEPT ![j] = "connect"]
               /\ s \in LeftOf(j) /\ s # <<>> /\ s # <<"settle", "start_aegis">>
               /\ Restarts(j) => s[1] \notin {"read", "reboot"}
               /\ apps' = apps /\ refused' = refused
    <2>1. CASE Settled(j)
        <3>1. left[j] = <<"settle", "start_aegis">> /\ Tail(left[j]) = <<"start_aegis">>
            <4>1. Tail(<<"settle", "start_aegis">>) = <<"start_aegis">>
                OBVIOUS
            <4>2. QED
                BY <2>1, <4>1 DEF Settled, PhoneInv, LeftIsKnown
        <3>2. /\ <<"start_aegis">> \in LeftOf(j)
              /\ <<"start_aegis">>[1] \notin {"read", "reboot"}
              /\ <<"start_aegis">> # <<>> /\ <<"start_aegis">> # <<"settle", "start_aegis">>
            <4>1. left[j] \in LeftOf(j)
                BY DEF PhoneInv, LeftIsKnown
            <4>2. j = Ladder
                BY <3>1, <4>1 DEF LeftOf, OwnerLeft
            <4>3. QED
                BY <4>2 DEF LeftOf, LadderLeft
        <3>3. QED
            BY <2>1, <3>1, <3>2 DEF Settled, Go
    <2>2. CASE \E op \in OpsOf(j) : Ask(j, op)
        <3>1. PICK op \in OpsOf(j) : Ask(j, op)
            BY <2>2
        <3>2. /\ CommandsOf[op] \in LeftOf(j) /\ CommandsOf[op] # <<>>
              /\ CommandsOf[op] # <<"settle", "start_aegis">>
            BY <3>1 DEF OpsOf, CommandsOf, LeftOf, LadderLeft, OwnerLeft
        <3>3. ~Restarts(j)
            BY <3>1 DEF Ask, Restarts, PhoneInv, LeftIsKnown
        <3>4. QED
            BY <3>1, <3>2, <3>3 DEF Ask, Go
    <2>3. QED
        BY <2>1, <2>2
<1>2. LeftIsKnown'
    BY <1>1 DEF PhoneInv, LeftIsKnown, LeftOf
<1>3. \A i \in Coroutines : Restarts(i) => Restarts(i)'
    BY <1>1 DEF Restarts, Touches, PhoneInv, LeftIsKnown
<1>4. QED
    BY <1>1, <1>2, <1>3 DEF PhoneInv, AegisIsKnown, GameIsKnown, Coroutines

\* Both apps run at the start, and nothing is asked for.
LEMMA PhoneStarts == PhoneInit => PhoneInv
<1> SUFFICES ASSUME PhoneInit
             PROVE  PhoneInv
    OBVIOUS
<1>1. /\ apps = AllApps /\ refused = FALSE
      /\ at = [j \in Coroutines |-> "idle"] /\ left = [j \in Coroutines |-> <<>>]
    BY DEF PhoneInit
<1>2. \A j \in Coroutines : <<>> \in LeftOf(j)
    BY DEF LeftOf, LadderLeft, OwnerLeft
<1>3. <<>> # <<"settle", "start_aegis">>
    OBVIOUS
<1>4. LeftIsKnown
    BY <1>1, <1>2, <1>3 DEF LeftIsKnown
<1>5. QED
    BY <1>1, <1>4 DEF PhoneInv, AegisIsKnown, GameIsKnown, AllApps

\* Every step of the phone and of its two users keeps the invariant.
LEMMA PhoneStep == PhoneInv /\ [PhoneNext]_phoneVars => PhoneInv'
<1> SUFFICES ASSUME PhoneInv, [PhoneNext]_phoneVars
             PROVE  PhoneInv'
    OBVIOUS
<1>1. CASE UNCHANGED phoneVars \/ Flap \/ Boot
    BY <1>1 DEF phoneVars, Flap, Boot, PhoneInv, LeftIsKnown, LeftOf, AegisIsKnown,
                GameIsKnown, Restarts, Touches
<1>2. ASSUME NEW j \in Coroutines,
             \/ Connect(j) \/ DeviceState(j) \/ StateHangs(j)
             \/ \E works \in BOOLEAN : RecoverSession(j, works)
      PROVE  PhoneInv'
    <2>1. CASE Connect(j)
        BY <2>1, GoesOnKeeps DEF Connect
    <2>2. CASE DeviceState(j)
        BY <2>2, GoesOnKeeps DEF DeviceState, Recovery
    <2>3. CASE StateHangs(j)
        BY <2>3, GoesOnKeeps DEF StateHangs, Recovery
    <2>4. CASE \E works \in BOOLEAN : RecoverSession(j, works)
        <3>1. PICK i \in DOMAIN Recovery :
                 /\ at[j] = Recovery[i]
                 /\ Go(j, IF i = Len(Recovery) THEN "command" ELSE Recovery[i + 1])
                 /\ UNCHANGED <<apps, left, refused>>
            BY <2>4 DEF RecoverSession
        <3>2. i \in 1..4 /\ Len(Recovery) = 4
            BY DEF Recovery
        <3>3. \A n \in 1..4 : Recovery[n] \notin {"idle", "settle"}
            BY DEF Recovery
        <3>4. (IF i = Len(Recovery) THEN "command" ELSE Recovery[i + 1])
                 \notin {"idle", "settle"}
            BY <3>2, <3>3
        <3>5. QED
            BY <3>1, <3>2, <3>3, <3>4, GoesOnKeeps
    <2>5. QED
        BY <1>2, <2>1, <2>2, <2>3, <2>4
<1>3. QED
    BY <1>1, <1>2, CommandKeeps, CommandLostKeeps, AskedKeeps DEF PhoneNext

\* No operation that answered that it worked left an app stopped (StoppedIsKnown).
LEMMA PhonePromise == PhoneInv => StoppedIsKnown
<1>1. Ladder \in Coroutines /\ Owner \in Coroutines
    BY DEF Coroutines
<1>2. ASSUME apps \subseteq AllApps, apps # AllApps
      PROVE  "aegis" \notin apps \/ "game" \notin apps
    BY <1>2 DEF AllApps
<1>3. QED
    BY <1>1, <1>2 DEF PhoneInv, LeftIsKnown, AegisIsKnown, GameIsKnown, Restarts,
                      StoppedIsKnown

HIDE PhoneCommandsAssumption DEF PhoneCommandsAssumption

-------------------------------------------------------------------------------
USE ScheduledPostsAssumption DEF ScheduledPostsAssumption

\* ScheduledPosts.  A marker, in memory or saved, is that of a tick that has begun, whose day's
\* parts were posted and whose errors were told.
AllPosted == nothingDue \/ \A p \in Parts : posted[p] > 0

GoodMark(m) ==
    /\ m \in Int /\ m >= NotYet
    /\ m >= 0 => m <= started
    /\ m >= 0 /\ Day(m) = Day(started) => AllPosted
    /\ \A e \in Entries : logged[e] \in 0..m /\ ~blind => e \in told \union Excepted
    /\ job = "errors" /\ m = NotYet => blind

PostTypes ==
    /\ job \in Jobs /\ now \in Nat /\ started \in Int /\ started <= now
    /\ part \in 0..Saving /\ slip \in Int /\ posted \in [AllParts -> Nat]
    /\ logged \in [Entries -> Int]
    /\ nothingDue \in BOOLEAN /\ blind \in BOOLEAN

MarksAreGood == GoodMark(marker) /\ GoodMark(saved)

\* What is posted from part n on, and will be again, is excused.
Excused(n) == \A p \in Parts : p >= n /\ posted[p] > 0 => slip >= p

\* A post that may be due again this day.
MayRepeat ==
    /\ part = 0 /\ Day(marker) # Day(started)
    /\ job = "boards" => Day(saved) # Day(started)

PartsGoOut ==
    /\ OncePerDay
    /\ part = Saving => marker = started
    /\ job = "version" => part \in {0, 1}
    /\ job # "version" /\ part \in Parts =>
           started >= 0 /\ Excused(part) /\ \A p \in Parts : p < part => posted[p] > 0
    /\ job # "version" /\ MayRepeat => Excused(1)

\* A digest that is on its way has what was logged until it was read.
DigestHas ==
    /\ job # "errors" => \A e \in Entries : logged[e] < 0
    /\ job = "errors" /\ part = 1 /\ ~blind =>
           \A e \in Entries : logged[e] \in 0..started => e \in told \union Excepted \union batch

\* What a digest has read was written.
DigestReads ==
    /\ \A read \in {batch, told, listed, clipped} :
           read \subseteq {e \in Entries : logged[e] # NotYet}
    /\ FirstAreListed

\* Versions not reached yet were not announced, nor was the one that is to be now.
VersionsGoUp ==
    /\ published \in Nat /\ version \in Nat /\ version <= published
    /\ calls \in [1..MaxVersion -> Nat]
    /\ job # "version" => version = 0
    /\ \A v \in 1..MaxVersion : v > version => calls[v] = 0
    /\ job = "version" /\ part = 1 => \A v \in 1..MaxVersion : v = version => calls[v] = 0
    /\ VersionsAreTold

PostInv ==
    PostTypes /\ MarksAreGood /\ PartsGoOut /\ DigestHas /\ DigestReads /\ VersionsGoUp

\* Days follow one another.
LEMMA DayGrows ==
    ASSUME NEW m \in Int, NEW n \in Int, m <= n
    PROVE  Day(m) <= Day(n)
<1>1. DayLength \in Nat \ {0}
    OBVIOUS
<1>2. QED
    BY <1>1 DEF Day

\* A second before the first day is of no day that follows.
LEMMA DaysFromZero ==
    ASSUME NEW m \in Int, m < 0, NEW n \in Nat
    PROVE  Day(m) # Day(n)
<1>1. DayLength \in Nat \ {0}
    OBVIOUS
<1>2. Day(m) < 0 /\ Day(n) >= 0 /\ Day(m) \in Int /\ Day(n) \in Int
    BY <1>1 DEF Day
<1>3. QED
    BY <1>2

\* The parts of a post are some first ones of all.
LEMMA PartsAre ==
    /\ Parts \subseteq AllParts /\ Parts \subseteq Int
    /\ 1 \in Parts /\ 0 \notin Parts /\ Saving \notin Parts
    /\ \A p \in Parts : p >= 1 /\ p < Saving
    /\ job = "errors" => Parts = {1}
    /\ \A p, n \in Parts : p + 1 \notin Parts => n <= p
<1>1. Chunks \in Nat /\ Chunks >= 1
    OBVIOUS
<1>2. CASE job = "week"
    BY <1>1, <1>2 DEF Parts, AllParts, Saving
<1>3. CASE job = "boards"
    BY <1>1, <1>3 DEF Parts, AllParts, Saving
<1>4. CASE job # "week" /\ job # "boards"
    BY <1>1, <1>4 DEF Parts, AllParts, Saving
<1>5. QED
    BY <1>2, <1>3, <1>4

\* A mark stays good while its tick is the last one and what was posted stays posted.
LEMMA MarkKept ==
    ASSUME PostTypes, NEW m, GoodMark(m),
           job' = job, started' = started,
           AllPosted => AllPosted',
           \A e \in Entries : logged'[e] = logged[e],
           told \subseteq told', Excepted \subseteq Excepted', blind => blind'
    PROVE  GoodMark(m)'
BY DEF GoodMark, Day, PostTypes

\* What was read stays written, and what was told stays listed.
LEMMA ReadsKept ==
    ASSUME DigestReads, logged' = logged, told' = told, listed' = listed,
           clipped' = clipped,
           batch' \subseteq {e \in Entries : logged[e] # NotYet}
    PROVE  DigestReads'
<1>1. NotYet' = NotYet
    BY DEF NotYet
<1>2. FirstAreListed'
    BY DEF DigestReads, FirstAreListed
<1>3. QED
    BY <1>1, <1>2 DEF DigestReads

\* Time, and the announcements of versions, post nothing.
LEMMA PostsKept ==
    ASSUME PostTypes, MarksAreGood, PartsGoOut, DigestHas, DigestReads,
           UNCHANGED <<job, marker, saved, started, posted, nothingDue, slip, entries>>,
           now' \in Nat, now <= now',
           \/ part' = part
           \/ job = "version" /\ part' \in {0, 1}
    PROVE  PostTypes' /\ MarksAreGood' /\ PartsGoOut' /\ DigestHas' /\ DigestReads'
<1>1. /\ job' = job /\ marker' = marker /\ saved' = saved /\ started' = started
      /\ posted' = posted /\ nothingDue' = nothingDue /\ slip' = slip
      /\ batch' = batch /\ logged' = logged /\ told' = told /\ listed' = listed
      /\ clipped' = clipped /\ Excepted' = Excepted /\ blind' = blind /\ Parts' = Parts
    BY DEF entries, Parts, Excepted
<1>2. PostTypes'
    BY <1>1 DEF PostTypes, Saving
<1>3. MarksAreGood'
    BY <1>1, MarkKept DEF MarksAreGood, AllPosted
<1>4. PartsGoOut'
    <2>1. OncePerDay' /\ \A n : Excused(n)' <=> Excused(n)
        BY <1>1 DEF PartsGoOut, OncePerDay, Excused
    <2>2. Saving' = Saving /\ Saving \notin {0, 1}
        BY DEF Saving
    <2>3. CASE part' = part
        BY <1>1, <2>1, <2>2, <2>3 DEF PartsGoOut, MayRepeat, Day
    <2>4. CASE job = "version" /\ part' \in {0, 1}
        BY <1>1, <2>1, <2>2, <2>4 DEF PartsGoOut
    <2>5. QED
        BY <2>3, <2>4
<1>5. DigestHas'
    BY <1>1 DEF DigestHas
<1>6. DigestReads'
    BY <1>1, ReadsKept DEF DigestReads
<1>7. QED
    BY <1>2, <1>3, <1>4, <1>5, <1>6

\* The other posts announce no version.
LEMMA VersionsKept ==
    ASSUME VersionsGoUp, job' = job, UNCHANGED releases,
           job = "version" => part' = part
    PROVE  VersionsGoUp'
BY DEF VersionsGoUp, VersionsAreTold, releases

\* A second goes by.
LEMMA SecondKeeps ==
    ASSUME PostInv, Second
    PROVE  PostInv'
<1>1. now' \in Nat /\ now <= now' /\ part' = part
    BY DEF Second, PostInv, PostTypes, post
<1>2. QED
    BY <1>1, PostsKept, VersionsKept DEF Second, PostInv, post

\* A version that is published is announced by none of the steps before it is seen.
LEMMA VersionKeeps ==
    ASSUME PostInv,
           Release \/ \E ok, landed \in BOOLEAN : CheckVersion(ok, landed)
                                                  \/ AnnounceVersion(ok, landed)
    PROVE  PostInv'
<1> USE DEF PostInv
<1>1. /\ UNCHANGED <<job, marker, saved, started, posted, nothingDue, slip, entries>>
      /\ now' = now /\ job = "version" /\ job' = job
      /\ part' = part \/ part' \in {0, 1}
    BY DEF Release, CheckVersion, AnnounceVersion, post
<1>2. PostTypes' /\ MarksAreGood' /\ PartsGoOut' /\ DigestHas' /\ DigestReads'
    <2>1. now' \in Nat /\ now <= now'
        BY <1>1 DEF PostTypes
    <2>2. QED
        BY <1>1, <2>1, PostsKept
<1>3. CASE Release
    <2>1. /\ job' = job /\ part' = part /\ published' = published + 1
          /\ version' = version /\ calls' = calls /\ missed' = missed
        BY <1>3 DEF Release, post
    <2>2. published' \in Nat /\ version' <= published'
        BY <2>1 DEF VersionsGoUp
    <2>3. VersionsAreTold'
        BY <2>1 DEF VersionsGoUp, VersionsAreTold
    <2>4. /\ version' \in Nat /\ calls' \in [1..MaxVersion -> Nat]
          /\ \A v \in 1..MaxVersion : v > version' => calls'[v] = 0
        BY <2>1 DEF VersionsGoUp
    <2>5. part' = 1 => \A v \in 1..MaxVersion : v = version' => calls'[v] = 0
        BY <1>1, <2>1 DEF VersionsGoUp
    <2>6. QED
        BY <1>1, <1>2, <2>2, <2>3, <2>4, <2>5 DEF VersionsGoUp
<1>4. ASSUME NEW ok \in BOOLEAN, NEW landed \in BOOLEAN, CheckVersion(ok, landed)
      PROVE  VersionsGoUp'
    <2>1. /\ job' = job /\ part = 0 /\ published' = published /\ calls' = calls
          /\ version < published
          /\ \/ version' = published /\ part' = 1 /\ missed' = missed
             \/ /\ version' \in {version, published} /\ part' = 0
                /\ missed' = missed \union {published}
        BY <1>4 DEF CheckVersion, VersionsGoUp
    <2>2. QED
        <3>1. /\ published' \in Nat /\ version' \in Nat /\ version' <= published'
              /\ version <= version'
            BY <2>1 DEF VersionsGoUp
        <3>2. VersionsAreTold'
            BY <2>1 DEF VersionsGoUp, VersionsAreTold
        <3>3. \A v \in 1..MaxVersion : v > version' => calls'[v] = 0
            BY <2>1, <3>1 DEF VersionsGoUp
        <3>4. part' = 1 => \A v \in 1..MaxVersion : v = version' => calls'[v] = 0
            BY <2>1 DEF VersionsGoUp
        <3>5. QED
            BY <1>1, <2>1, <3>1, <3>2, <3>3, <3>4 DEF VersionsGoUp
<1>5. ASSUME NEW sent \in BOOLEAN, NEW landed \in BOOLEAN, AnnounceVersion(sent, landed)
      PROVE  VersionsGoUp'
    <2>1. /\ job' = job /\ part = 1 /\ part' = 0 /\ published' = published
          /\ version' = version
          /\ \/ calls' = [calls EXCEPT ![version] = Twice(@)] /\ missed \subseteq missed'
             \/ calls' = calls /\ missed' = missed \union {version}
        BY <1>5 DEF AnnounceVersion
    <2>2. CASE calls' = calls /\ missed' = missed \union {version}
        BY <1>1, <2>1, <2>2 DEF VersionsGoUp, VersionsAreTold
    <2>3. CASE calls' = [calls EXCEPT ![version] = Twice(@)] /\ missed \subseteq missed'
        <3>1. /\ calls \in [1..MaxVersion -> Nat] /\ version \in Nat
              /\ version \in 1..MaxVersion => calls[version] = 0
            BY <1>1, <2>1 DEF VersionsGoUp
        <3>2. /\ calls' \in [1..MaxVersion -> Nat]
              /\ \A v \in 1..MaxVersion : calls'[v] = IF v = version THEN 1 ELSE calls[v]
            <4>1. CASE version \in 1..MaxVersion
                <5>1. Twice(calls[version]) = 1
                    BY <3>1, <4>1 DEF Twice
                <5>2. QED
                    BY <2>3, <3>1, <4>1, <5>1
            <4>2. CASE version \notin 1..MaxVersion
                BY <2>3, <3>1, <4>2
            <4>3. QED
                BY <4>1, <4>2
        <3>3. VersionsAreTold'
            BY <2>1, <2>3, <3>1, <3>2 DEF VersionsGoUp, VersionsAreTold
        <3>4. QED
            BY <1>1, <2>1, <3>1, <3>2, <3>3 DEF VersionsGoUp
    <2>4. QED
        BY <2>1, <2>2, <2>3
<1>6. QED
    BY <1>2, <1>3, <1>4, <1>5

\* An error that is logged in the second of a digest is late.
LEMMA LogErrorKeeps ==
    ASSUME PostInv, NEW e \in Entries, NEW rolls \in BOOLEAN, LogError(e, rolls)
    PROVE  PostInv'
<1> USE DEF PostInv
<1>1. /\ job = "errors" /\ job' = job /\ now' = now /\ marker' = marker /\ saved' = saved
      /\ part' = part /\ started' = started /\ posted' = posted
      /\ nothingDue' = nothingDue /\ slip' = slip /\ batch' = batch /\ told' = told
      /\ listed' = listed /\ clipped' = clipped
      /\ blind' = blind /\ UNCHANGED releases /\ Parts' = Parts
      /\ logged' = [logged EXCEPT ![e] = now] /\ logged[e] = NotYet
      /\ started = now => e \in Excepted'
    BY DEF LogError, post, Parts, Excepted
<1>2. /\ logged' \in [Entries -> Int] /\ logged'[e] = now
      /\ \A f \in Entries : f # e => logged'[f] = logged[f]
    BY <1>1 DEF PostTypes
<1>3. PostTypes'
    BY <1>1, <1>2 DEF PostTypes, Saving
<1>10. Excepted \subseteq Excepted'
    BY DEF LogError, Excepted
<1>4. ASSUME NEW m, GoodMark(m)
      PROVE  GoodMark(m)'
    <2>1. ASSUME NEW f \in Entries, logged'[f] \in 0..m, ~blind
          PROVE  f \in told \union Excepted'
        <3>1. CASE f = e
            <4>1. started = now
                BY <1>2, <1>4, <2>1, <3>1 DEF GoodMark, PostTypes
            <4>2. QED
                BY <1>1, <3>1, <4>1
        <3>2. CASE f # e
            BY <1>1, <1>2, <1>4, <1>10, <2>1, <3>2 DEF GoodMark
        <3>3. QED
            BY <3>1, <3>2
    <2>2. AllPosted' <=> AllPosted
        BY <1>1 DEF AllPosted
    <2>3. QED
        BY <1>1, <1>4, <2>1, <2>2 DEF GoodMark, Day
<1>5. MarksAreGood'
    BY <1>1, <1>4 DEF MarksAreGood
<1>6. PartsGoOut'
    BY <1>1 DEF PartsGoOut, OncePerDay, Excused, MayRepeat, Day, Saving
<1>7. DigestHas'
    BY <1>1, <1>2, <1>10 DEF DigestHas, PostTypes
<1>8. VersionsGoUp'
    BY <1>1, VersionsKept
<1>11. DigestReads'
    <2>1. NotYet' = NotYet /\ NotYet < 0 /\ logged'[e] # NotYet
        BY <1>2 DEF NotYet, PostTypes
    <2>2. \A f \in listed \union clipped \union told : f # e /\ f \in Entries
        BY <1>1 DEF DigestReads
    <2>3. FirstAreListed'
        BY <1>1, <1>2, <2>2 DEF DigestReads, FirstAreListed
    <2>4. QED
        BY <1>1, <1>2, <2>1, <2>3 DEF DigestReads
<1>9. QED
    BY <1>3, <1>5, <1>6, <1>7, <1>8, <1>11

\* A post that is due starts a day, or goes on with what is excused of one.
LEMMA ComposeKeeps ==
    ASSUME PostInv, job # "version", DueNow, NEW nothing \in BOOLEAN, Compose(nothing),
           job = "boards" => ~DoneToday(saved) /\ ~nothing,
           job' = job, now' = now, logged' = logged, told' = told, listed' = listed,
           clipped' = clipped, Excepted \subseteq Excepted',
           batch' \subseteq {e \in Entries : logged[e] # NotYet},
           blind => blind', UNCHANGED releases,
           job = "errors" =>
               \A e \in Entries :
                  logged[e] \in 0..now /\ ~blind' => e \in told \union Excepted' \union batch',
           job = "errors" /\ nothing => batch' = {},
           blind' \in BOOLEAN
    PROVE  PostInv'
<1> USE DEF PostInv
<1>1. /\ part = 0 /\ Day(marker) # Day(now) /\ job # "version" /\ started' = now
      /\ saved' = saved /\ Parts' = Parts
      /\ marker' = IF nothing THEN now ELSE marker
      /\ part' = IF nothing THEN Saving ELSE 1
    BY DEF DueNow, DoneToday, Compose, NewDay, Parts
<1>2. \/ /\ Day(started) = Day(now) /\ posted' = posted /\ slip' = slip
         /\ nothingDue' = (nothing \/ nothingDue)
      \/ /\ Day(started) # Day(now) /\ posted' = [p \in AllParts |-> 0] /\ slip' = 0
         /\ nothingDue' = nothing
    BY DEF Compose, NewDay, PostTypes
<1>3. PostTypes'
    <2>1. /\ slip' \in Int /\ posted' \in [AllParts -> Nat]
          /\ nothingDue' \in BOOLEAN
        BY <1>2 DEF PostTypes
    <2>2. part' \in 0..Saving
        BY <1>1 DEF Saving
    <2>3. started' \in Int /\ started' <= now'
        BY <1>1 DEF PostTypes
    <2>4. QED
        BY <1>1, <2>1, <2>2, <2>3 DEF PostTypes, Saving
<1>4. ASSUME NEW m, GoodMark(m)
      PROVE  GoodMark(m)'
    <2>1. m \in Int /\ m >= NotYet /\ (m >= 0 => m <= started')
        BY <1>1, <1>4 DEF GoodMark, PostTypes
    <2>2. ASSUME m >= 0, Day(m) = Day(now)
          PROVE  AllPosted'
        <3>1. Day(started) = Day(now)
            <4>1. /\ m <= started /\ started <= now
                  /\ m \in Int /\ started \in Int /\ now \in Int
                BY <1>4, <2>2 DEF GoodMark, PostTypes
            <4>2. /\ Day(m) <= Day(started) /\ Day(started) <= Day(now)
                  /\ Day(m) \in Int /\ Day(started) \in Int /\ Day(now) \in Int
                BY <4>1, DayGrows DEF Day
            <4>3. QED
                BY <2>2, <4>2
        <3>2. AllPosted
            BY <1>4, <2>2, <3>1 DEF GoodMark
        <3>3. QED
            BY <1>1, <1>2, <3>1, <3>2 DEF AllPosted
    <2>3. (Day(m) = Day(started))' <=> Day(m) = Day(now)
        BY <1>1 DEF Day
    <2>4. /\ \A e \in Entries : logged'[e] \in 0..m /\ ~blind' => e \in told' \union Excepted'
          /\ job' = "errors" /\ m = NotYet => blind'
        BY <1>4 DEF GoodMark, NotYet
    <2>5. QED
        BY <1>4, <2>1, <2>2, <2>3, <2>4 DEF GoodMark
<1>5. GoodMark(saved)'
    BY <1>1, <1>4 DEF MarksAreGood
<1>6. GoodMark(marker)'
    <2>1. CASE ~nothing
        BY <1>1, <1>4, <2>1 DEF MarksAreGood
    <2>2. CASE nothing
        <3>1. marker' = now /\ started' = now /\ AllPosted'
            BY <1>1, <1>2, <2>2 DEF AllPosted
        <3>2. \A e \in Entries : logged'[e] \in 0..now /\ ~blind' => e \in told' \union Excepted'
            BY <2>2 DEF DigestHas
        <3>3. now # NotYet /\ now \in Int /\ now >= NotYet
            BY DEF NotYet, PostTypes
        <3>4. QED
            BY <3>1, <3>2, <3>3 DEF GoodMark
    <2>3. QED
        BY <2>1, <2>2
<1>7. Excused(1)' /\ OncePerDay'
    <2>1. CASE Day(started) = Day(now)
        <3>1. MayRepeat
            BY <1>1, <2>1 DEF MayRepeat, DoneToday
        <3>2. Excused(1) /\ OncePerDay
            BY <1>1, <3>1 DEF PartsGoOut
        <3>3. QED
            BY <1>1, <1>2, <2>1, <3>2 DEF Excused, OncePerDay
    <2>2. CASE Day(started) # Day(now)
        <3>1. \A p \in Parts : posted'[p] = 0
            BY <1>2, <2>2, PartsAre
        <3>2. QED
            BY <1>1, <3>1 DEF Excused, OncePerDay
    <2>3. QED
        BY <2>1, <2>2
<1>8. PartsGoOut'
    <2>1. /\ Saving' = Saving /\ Saving # 0 /\ Saving # 1
          /\ \A p \in Parts : ~(p < 1)
        BY PartsAre DEF Saving
    <2>2. part' # 0 /\ (part' \in Parts => part' = 1)
        BY <1>1, <2>1, PartsAre
    <2>3. part' = Saving => marker' = started'
        BY <1>1, <2>1
    <2>4. started' >= 0
        BY <1>1 DEF PostTypes
    <2>5. QED
        BY <1>1, <1>7, <2>1, <2>2, <2>3, <2>4 DEF PartsGoOut, MayRepeat
<1>9. DigestHas'
    BY <1>1 DEF DigestHas
<1>10. VersionsGoUp'
    BY <1>1, VersionsKept
<1>11. DigestReads'
    BY ReadsKept
<1>12. QED
    BY <1>3, <1>5, <1>6, <1>8, <1>9, <1>10, <1>11 DEF MarksAreGood

\* The calendar, the digest of errors and the boards each start that way, or find at the saved
\* marker that it was done.
LEMMA PostsBegin ==
    ASSUME PostInv,
           LeaderboardTick \/ \E b \in BOOLEAN : CheckWeeklyDigest(b) \/ CheckErrorDigest(b)
    PROVE  PostInv'
<1> USE DEF PostInv
<1>1. ASSUME NEW b \in BOOLEAN, CheckWeeklyDigest(b)
      PROVE  PostInv'
    BY <1>1, ComposeKeeps DEF CheckWeeklyDigest, entries, PostTypes, Excepted, DigestReads
<1>2. ASSUME NEW b \in BOOLEAN, CheckErrorDigest(b)
      PROVE  PostInv'
    <2>1. PICK nothing \in BOOLEAN : nothing = (batch' = {})
        OBVIOUS
    <2>2. /\ job = "errors" /\ DueNow /\ Compose(nothing)
          /\ \/ batch' = NewEntries(b)
             \/ batch' = {} /\ passed' = passed \union NewEntries(b)
          /\ blind' = (blind \/ ~b) /\ blind' \in BOOLEAN
          /\ job' = job /\ now' = now /\ logged' = logged /\ told' = told
          /\ listed' = listed /\ clipped' = clipped
          /\ late' = late /\ passed \subseteq passed' /\ rotated' = rotated
          /\ UNCHANGED releases
        BY <1>2, <2>1 DEF CheckErrorDigest
    <2>5. Excepted \subseteq Excepted'
        BY <2>2 DEF Excepted
    <2>6. batch' \subseteq {e \in Entries : logged[e] # NotYet}
        <3>1. ASSUME NEW e \in NewEntries(b)
              PROVE  e \in Entries /\ logged[e] # NotYet
            <4>1. marker \in Int /\ marker >= NotYet /\ now - DayLength >= NotYet
                BY DEF MarksAreGood, GoodMark, PostTypes, NotYet
            <4>2. e \in Entries /\ (logged[e] > marker \/ logged[e] > now - DayLength)
                BY <3>1 DEF NewEntries
            <4>3. logged[e] \in Int /\ now - DayLength \in Int /\ NotYet \in Int
                BY <4>2 DEF PostTypes, NotYet
            <4>4. QED
                BY <4>1, <4>2, <4>3
        <3>2. QED
            BY <2>2, <3>1
    <2>3. ASSUME NEW e \in Entries, logged[e] \in 0..now, ~blind'
          PROVE  e \in told \union Excepted' \union batch'
        <3>1. b /\ ~blind /\ marker # NotYet
            BY <2>2, <2>3 DEF MarksAreGood, GoodMark
        <3>2. NewEntries(b) = {f \in Entries \ rotated : logged[f] > marker}
            BY <3>1 DEF NewEntries
        <3>3. CASE logged[e] > marker
            BY <2>2, <3>2, <3>3 DEF Excepted
        <3>4. CASE ~(logged[e] > marker)
            <4>1. logged[e] \in 0..marker
                BY <2>3, <3>4 DEF MarksAreGood, GoodMark, PostTypes
            <4>2. QED
                BY <2>5, <3>1, <4>1 DEF MarksAreGood, GoodMark
        <3>5. QED
            BY <3>3, <3>4
    <2>4. QED
        BY <2>1, <2>2, <2>3, <2>5, <2>6, ComposeKeeps
<1>3. CASE LeaderboardTick
    <2>1. /\ job = "boards" /\ DueNow /\ job' = job /\ now' = now
          /\ UNCHANGED <<entries, releases>>
        BY <1>3 DEF LeaderboardTick
    <2>2. CASE ~DoneToday(saved)
        <3>1. Compose(FALSE)
            BY <1>3, <2>2 DEF LeaderboardTick
        <3>2. QED
            BY <2>1, <2>2, <3>1, ComposeKeeps
            DEF entries, PostTypes, Excepted, DigestReads
    <2>3. CASE DoneToday(saved)
        <3>1. /\ marker' = saved /\ saved' = saved /\ part' = part /\ started' = started
              /\ posted' = posted /\ nothingDue' = nothingDue /\ slip' = slip
              /\ batch' = batch /\ logged' = logged /\ told' = told /\ listed' = listed
              /\ clipped' = clipped /\ Excepted' = Excepted
              /\ blind' = blind /\ Parts' = Parts /\ part = 0
            BY <1>3, <2>1, <2>3 DEF LeaderboardTick, entries, Parts, DueNow, Excepted
        <3>2. PostTypes'
            BY <2>1, <3>1 DEF PostTypes, Saving
        <3>3. MarksAreGood'
            BY <2>1, <3>1, MarkKept DEF MarksAreGood, AllPosted
        <3>4. OncePerDay' /\ (\A n : Excused(n)' <=> Excused(n))
            BY <3>1 DEF PartsGoOut, OncePerDay, Excused
        <3>5. PartsGoOut'
            <4>1. MayRepeat' => Day(saved) # Day(started)
                BY <2>1, <3>1 DEF MayRepeat, Day
            <4>2. /\ saved \in Int /\ started \in Int /\ now \in Nat
                  /\ started <= now
                  /\ saved >= 0 => saved <= started
                  /\ Day(saved) = Day(now)
                BY <2>3 DEF DoneToday, MarksAreGood, GoodMark, PostTypes
            <4>3. ~MayRepeat'
                <5>1. saved <= started
                    BY <4>2, DaysFromZero
                <5>2. Day(saved) <= Day(started) /\ Day(started) <= Day(now)
                    BY <4>2, <5>1, DayGrows
                <5>3. Day(saved) \in Int /\ Day(started) \in Int
                    BY <4>2 DEF Day
                <5>4. QED
                    BY <4>1, <4>2, <5>2, <5>3
            <4>4. 0 \notin Parts /\ Saving' = Saving /\ Saving # 0
                BY PartsAre DEF Saving
            <4>5. QED
                BY <2>1, <3>1, <3>4, <4>3, <4>4 DEF PartsGoOut
        <3>6. DigestHas' /\ VersionsGoUp'
            BY <2>1, <3>1, VersionsKept DEF DigestHas
        <3>7. DigestReads'
            BY <3>1, ReadsKept DEF DigestReads
        <3>8. QED
            BY <3>2, <3>3, <3>5, <3>6, <3>7
    <2>4. QED
        BY <2>2, <2>3
<1>4. QED
    BY <1>1, <1>2, <1>3

\* A part that is sent brings the post on; one that is not ends it, and is excused.
LEMMA SendPartKeeps ==
    ASSUME PostInv, NEW sent \in BOOLEAN, NEW landed \in BOOLEAN, SendPart(sent, landed)
    PROVE  PostInv'
<1> USE DEF PostInv
<1>1. /\ part \in Parts /\ job # "version" /\ job' = job /\ now' = now
      /\ saved' = saved /\ started' = started /\ nothingDue' = nothingDue
      /\ batch' = batch /\ logged' = logged /\ Excepted' = Excepted /\ blind' = blind
      /\ UNCHANGED releases /\ Parts' = Parts
      /\ posted' = IF landed THEN [posted EXCEPT ![part] = Twice(@)] ELSE posted
      /\ told' = IF landed THEN told \union batch ELSE told
      /\ part' = IF ~sent THEN 0 ELSE IF part + 1 \in Parts THEN part + 1 ELSE Saving
      /\ slip' = IF sent \/ slip >= part THEN slip ELSE part
      /\ marker' = IF part' = Saving THEN started ELSE marker
      /\ sent => landed
    BY DEF SendPart, Parts, DigestArrives, Excepted
<1>2. part \in Int /\ part \in AllParts /\ part \in 1..Saving
    BY <1>1, PartsAre DEF PostTypes
<1>3. /\ posted' \in [AllParts -> Nat]
      /\ \A p \in AllParts : /\ p # part => posted'[p] = posted[p]
                             /\ posted[p] > 0 => posted'[p] > 0
                             /\ landed => posted'[part] > 0
                             /\ posted[part] = 0 => posted'[part] <= 1
    BY <1>1, <1>2 DEF PostTypes, Twice
<1>4. /\ slip' \in Int /\ slip <= slip' /\ (~sent => slip' >= part)
      /\ part' \in 0..Saving
    <2>1. slip' \in Int /\ slip <= slip' /\ (~sent => slip' >= part)
        BY <1>1, <1>2 DEF PostTypes
    <2>2. part' \in 0..Saving
        BY <1>1, PartsAre DEF Saving
    <2>3. QED
        BY <2>1, <2>2
<1>5. PostTypes'
    BY <1>1, <1>3, <1>4 DEF PostTypes, Saving
<1>6. AllPosted => AllPosted'
    BY <1>1, <1>3, PartsAre DEF AllPosted
<1>7. GoodMark(saved)' /\ GoodMark(marker)
    <2>1. told \subseteq told'
        BY <1>1
    <2>2. QED
        BY <1>1, <1>6, <2>1, MarkKept DEF MarksAreGood
<1>8. GoodMark(marker)'
    <2>1. CASE part' # Saving
        <3>1. told \subseteq told'
            BY <1>1
        <3>2. QED
            BY <1>1, <1>6, <1>7, <2>1, <3>1, MarkKept
    <2>2. CASE part' = Saving
        <3>1. marker' = started /\ started \in Int /\ sent /\ landed /\ part + 1 \notin Parts
            BY <1>1, <1>2, <2>2, PartsAre DEF PostTypes, Saving
        <3>2. AllPosted'
            <4>1. ASSUME NEW p \in Parts
                  PROVE  posted'[p] > 0
                <5>1. p <= part
                    BY <1>1, <3>1, <4>1, PartsAre
                <5>2. CASE p < part
                    BY <1>1, <1>3, <4>1, <5>2, PartsAre DEF PartsGoOut
                <5>3. CASE p = part
                    BY <1>2, <1>3, <3>1, <5>3
                <5>4. QED
                    BY <1>2, <4>1, <5>1, <5>2, <5>3, PartsAre
            <4>2. QED
                BY <1>1, <4>1 DEF AllPosted
        <3>3. ASSUME NEW e \in Entries, logged'[e] \in 0..started, ~blind'
              PROVE  e \in told' \union Excepted'
            <4>1. job = "errors"
                BY <1>1, <3>3 DEF DigestHas, PostTypes
            <4>2. part = 1
                BY <1>1, <4>1, PartsAre
            <4>3. e \in told \union Excepted \union batch
                BY <1>1, <3>3, <4>1, <4>2 DEF DigestHas
            <4>4. QED
                BY <1>1, <3>1, <4>3
        <3>4. ASSUME job' = "errors", started = NotYet
              PROVE  blind'
            <4>1. started >= 0
                BY <1>1 DEF PartsGoOut
            <4>2. QED
                BY <3>4, <4>1 DEF NotYet
        <3>5. QED
            <4>1. started >= 0 /\ NotYet' = NotYet
                BY <1>1 DEF PartsGoOut, NotYet
            <4>2. DayLength \in Nat
                OBVIOUS
            <4>3. started >= NotYet
                BY <3>1, <4>1, <4>2 DEF NotYet
            <4>4. QED
                BY <1>1, <3>1, <3>2, <3>3, <3>4, <4>1, <4>3 DEF GoodMark
    <2>3. QED
        BY <2>1, <2>2
<1>9. PartsGoOut'
    <2>1. ASSUME NEW p \in Parts, p # part \/ ~sent, p >= part, posted'[p] > 0
          PROVE  slip' >= p
        <3>1. CASE p # part
            BY <1>1, <1>2, <1>3, <1>4, <2>1, <3>1, PartsAre DEF PartsGoOut, Excused, PostTypes
        <3>2. CASE p = part /\ ~sent
            BY <1>4, <3>2
        <3>3. QED
            BY <2>1, <3>1, <3>2
    <2>2. OncePerDay'
        <3>1. ASSUME NEW p \in Parts, posted'[p] > 1
              PROVE  slip' >= p
            <4>1. CASE p # part
                BY <1>1, <1>2, <1>3, <1>4, <3>1, <4>1, PartsAre
                DEF PartsGoOut, OncePerDay, PostTypes
            <4>2. CASE p = part
                <5>1. posted[part] > 0
                    BY <1>2, <1>3, <3>1, <4>2 DEF PostTypes
                <5>2. QED
                    BY <1>1, <1>2, <1>4, <4>2, <5>1 DEF PartsGoOut, Excused, PostTypes
            <4>3. QED
                BY <4>1, <4>2
        <3>2. QED
            BY <1>1, <3>1 DEF OncePerDay
    <2>3. CASE sent /\ part + 1 \in Parts
        <3>1. part' = part + 1 /\ part' \in Parts /\ part' # 0 /\ part' # Saving
            BY <1>1, <1>2, <2>3, PartsAre
        <3>2. Excused(part)'
            <4>1. \A p \in Parts : p >= part' => p # part /\ p >= part
                BY <1>2, <3>1, PartsAre
            <4>2. QED
                BY <1>1, <2>1, <4>1 DEF Excused
        <3>3. \A p \in Parts : p < part + 1 => posted'[p] > 0
            <4>1. landed /\ posted'[part] > 0
                BY <1>1, <1>2, <1>3, <2>3
            <4>2. \A p \in Parts : p < part + 1 => p = part \/ p < part
                BY <1>2, PartsAre
            <4>3. \A p \in Parts : p < part => posted'[p] > 0
                BY <1>1, <1>2, <1>3, PartsAre DEF PartsGoOut
            <4>4. QED
                BY <4>1, <4>2, <4>3
        <3>4. started' >= 0
            BY <1>1 DEF PartsGoOut
        <3>5. QED
            BY <1>1, <2>2, <3>1, <3>2, <3>3, <3>4 DEF PartsGoOut, MayRepeat, Saving
    <2>4. CASE sent /\ part + 1 \notin Parts
        <3>1. part' = Saving /\ marker' = started' /\ part' # 0 /\ part' \notin Parts
            BY <1>1, <2>4, PartsAre DEF Saving
        <3>2. QED
            BY <1>1, <2>2, <3>1 DEF PartsGoOut, MayRepeat
    <2>5. CASE ~sent
        <3>1. part' = 0 /\ Saving # 0 /\ 0 \notin Parts
            BY <1>1, <2>5, PartsAre DEF Saving
        <3>2. ASSUME NEW p \in Parts, posted'[p] > 0
              PROVE  slip' >= p
            <4>1. CASE p >= part
                BY <2>1, <2>5, <3>2, <4>1
            <4>2. CASE p < part
                <5>1. p \in Int
                    BY PartsAre
                <5>2. QED
                    BY <1>2, <1>4, <2>5, <4>2, <5>1
            <4>3. QED
                BY <1>2, <4>1, <4>2, PartsAre
        <3>3. Excused(1)'
            BY <1>1, <3>2 DEF Excused
        <3>4. QED
            BY <1>1, <2>2, <3>1, <3>3 DEF PartsGoOut, MayRepeat, Saving
    <2>6. QED
        BY <2>3, <2>4, <2>5
<1>10. DigestHas'
    <2>1. job = "errors" => part' # 1
        <3>1. job = "errors" => part = 1 /\ Parts = {1}
            BY <1>1, PartsAre
        <3>2. QED
            BY <1>1, <3>1 DEF Saving
    <2>2. QED
        BY <1>1, <2>1 DEF DigestHas
<1>11. VersionsGoUp'
    BY <1>1, VersionsKept
<1>12. DigestReads'
    <2>1. CASE ~landed
        BY <1>1, <2>1, ReadsKept DEF SendPart, DigestReads
    <2>2. CASE landed
        <3>1. PICK preview \in FirstOf(Preview, batch), n \in 1..Preview :
                 \E text \in FirstOf(n, preview) :
                    /\ told' = told \union batch
                    /\ listed' = listed \union text
                    /\ clipped' = clipped \union (preview \ text)
            BY <2>2 DEF SendPart, DigestArrives
        <3>2. PICK text \in FirstOf(n, preview) :
                    /\ told' = told \union batch
                    /\ listed' = listed \union text
                    /\ clipped' = clipped \union (preview \ text)
            BY <3>1
        <3>3. text \subseteq preview /\ preview \subseteq batch
            BY DEF FirstOf
        <3>4. ASSUME NEW e \in batch \ preview
              PROVE  \E first \in SUBSET (listed' \union clipped') :
                        /\ Cardinality(first) = Preview
                        /\ \A f \in first : logged[f] <= logged[e]
            <4>1. /\ Cardinality(preview) = Preview
                  /\ \A f \in preview : logged[f] <= logged[e]
                BY <3>4 DEF FirstOf
            <4>2. preview \in SUBSET (listed' \union clipped')
                BY <3>2, <3>3
            <4>3. QED
                BY <4>1, <4>2
        <3>5. ASSUME NEW e \in told
              PROVE  \/ e \in listed' \union clipped'
                     \/ \E first \in SUBSET (listed' \union clipped') :
                            /\ Cardinality(first) = Preview
                            /\ \A f \in first : logged[f] <= logged[e]
            <4>1. listed \union clipped \subseteq listed' \union clipped'
                BY <3>2
            <4>2. CASE e \in listed \union clipped
                BY <4>1, <4>2
            <4>3. CASE e \notin listed \union clipped
                <5>1. PICK first \in SUBSET (listed \union clipped) :
                         /\ Cardinality(first) = Preview
                         /\ \A f \in first : logged[f] <= logged[e]
                    BY <4>3 DEF DigestReads, FirstAreListed
                <5>2. first \in SUBSET (listed' \union clipped')
                    BY <4>1
                <5>3. QED
                    BY <5>1, <5>2
            <4>4. QED
                BY <4>2, <4>3
        <3>6. FirstAreListed'
            BY <1>1, <3>2, <3>3, <3>4, <3>5 DEF FirstAreListed
        <3>7. QED
            BY <1>1, <3>2, <3>3, <3>6 DEF DigestReads, NotYet
    <2>3. QED
        BY <2>1, <2>2
<1>13. QED
    BY <1>5, <1>7, <1>8, <1>9, <1>10, <1>11, <1>12 DEF MarksAreGood

\* The marker is saved, or the save fails, and memory keeps it.
LEMMA SaveMarkerKeeps ==
    ASSUME PostInv, NEW landed \in BOOLEAN, SaveMarker(landed)
    PROVE  PostInv'
<1> USE DEF PostInv
<1>1. /\ part = Saving /\ part' = 0 /\ job' = job /\ now' = now /\ marker' = marker
      /\ saved' \in {saved, marker} /\ started' = started /\ posted' = posted
      /\ nothingDue' = nothingDue /\ slip' = slip /\ logged' = logged /\ told' = told
      /\ listed' = listed /\ clipped' = clipped /\ batch' = {} /\ Excepted' = Excepted
      /\ blind' = blind /\ UNCHANGED releases /\ Parts' = Parts
    BY DEF SaveMarker, Parts, Excepted
<1>2. Saving # 0 /\ Saving # 1 /\ 0 \notin Parts
    BY PartsAre DEF Saving
<1>3. PostTypes'
    BY <1>1 DEF PostTypes, Saving
<1>4. MarksAreGood'
    BY <1>1, MarkKept DEF MarksAreGood, AllPosted
<1>5. PartsGoOut'
    <2>1. job # "version" /\ marker' = started'
        BY <1>1, <1>2 DEF PartsGoOut
    <2>2. OncePerDay' /\ ~MayRepeat'
        BY <1>1, <2>1 DEF PartsGoOut, OncePerDay, MayRepeat, Day
    <2>3. QED
        BY <1>1, <1>2, <2>1, <2>2 DEF PartsGoOut, Saving
<1>6. DigestHas'
    BY <1>1 DEF DigestHas
<1>7. VersionsGoUp'
    <2>1. job # "version"
        BY <1>1, <1>2 DEF PartsGoOut
    <2>2. QED
        BY <1>1, <2>1, VersionsKept
<1>8. DigestReads'
    BY <1>1, ReadsKept
<1>9. QED
    BY <1>3, <1>4, <1>5, <1>6, <1>7, <1>8

\* What a process had not saved, or cannot load, may be posted again.
LEMMA PostRestartKeeps ==
    ASSUME PostInv, NEW loads \in BOOLEAN, PostRestart(loads)
    PROVE  PostInv'
<1> USE DEF PostInv
<1>1. /\ part' = 0 /\ job' = job /\ now' = now /\ saved' = saved /\ started' = started
      /\ posted' = posted /\ nothingDue' = nothingDue /\ logged' = logged
      /\ told' = told /\ listed' = listed /\ clipped' = clipped /\ batch' = {}
      /\ Excepted' = Excepted /\ Parts' = Parts
      /\ published' = published /\ version' = version /\ calls' = calls
      /\ marker' = IF loads /\ job # "boards" THEN saved ELSE NotYet
      /\ slip' = IF part # 0 \/ saved # marker \/ (~loads /\ job # "boards")
                 THEN Saving ELSE slip
      /\ blind' = (blind \/ ~loads)
      /\ missed' = IF job = "version" /\ part = 1 THEN missed \union {version} ELSE missed
    BY DEF PostRestart, Parts, Excepted
<1>2. Saving \in Int /\ Saving # 0 /\ 0 \notin Parts /\ Saving' = Saving
    BY PartsAre DEF Saving
<1>3. PostTypes'
    <2>1. slip' \in Int /\ blind' \in BOOLEAN /\ part' \in 0..Saving
        BY <1>1, <1>2 DEF PostTypes, Saving
    <2>2. QED
        BY <1>1, <1>2, <2>1 DEF PostTypes
<1>4. ASSUME NEW m, GoodMark(m)
      PROVE  GoodMark(m)'
    BY <1>1, <1>4, MarkKept DEF AllPosted
<1>5. marker' = NotYet => GoodMark(marker)'
    <2>1. ASSUME marker' = NotYet, job = "errors"
          PROVE  blind'
        BY <1>1, <2>1 DEF MarksAreGood, GoodMark
    <2>2. NotYet \in Int /\ NotYet < 0 /\ NotYet >= NotYet /\ \A n \in Int : n \notin 0..NotYet
        BY DEF NotYet
    <2>3. \A e \in Entries : logged'[e] \in Int
        BY <1>3 DEF PostTypes
    <2>4. QED
        BY <1>1, <2>1, <2>2, <2>3 DEF GoodMark
<1>6. MarksAreGood'
    BY <1>1, <1>4, <1>5 DEF MarksAreGood
<1>7. PartsGoOut'
    <2>1. CASE slip' = Saving
        <3>1. \A p \in Parts : slip' >= p
            BY <2>1, PartsAre DEF Saving
        <3>2. OncePerDay' /\ Excused(1)'
            BY <1>1, <3>1 DEF OncePerDay, Excused
        <3>3. QED
            BY <1>1, <1>2, <3>2 DEF PartsGoOut
    <2>2. CASE /\ slip' = slip /\ part = 0 /\ saved = marker
               /\ loads \/ job = "boards"
        <3>1. OncePerDay' /\ (Excused(1)' <=> Excused(1))
            BY <1>1, <2>2 DEF OncePerDay, Excused, PartsGoOut
        <3>2. MayRepeat' => MayRepeat
            BY <1>1, <2>2 DEF MayRepeat, Day
        <3>3. QED
            BY <1>1, <1>2, <3>1, <3>2 DEF PartsGoOut
    <2>3. QED
        BY <1>1, <2>1, <2>2
<1>8. DigestHas'
    BY <1>1 DEF DigestHas
<1>9. VersionsGoUp'
    <2>1. missed \subseteq missed' /\ (job = "version" /\ part # 0 => version \in missed')
        BY <1>1, <1>2 DEF PartsGoOut
    <2>2. VersionsAreTold'
        BY <1>1, <2>1 DEF VersionsGoUp, VersionsAreTold
    <2>3. QED
        BY <1>1, <2>2 DEF VersionsGoUp
<1>10. DigestReads'
    BY <1>1, ReadsKept
<1>11. QED
    BY <1>3, <1>6, <1>7, <1>8, <1>9, <1>10

\* A process that has posted nothing.
LEMMA PostsStart ==
    ASSUME PostInit
    PROVE  PostInv
<1>1. /\ job \in Jobs /\ now = 0 /\ saved \in {NotYet, DayBefore} /\ marker = saved
      /\ part = 0 /\ started = NotYet /\ nothingDue = FALSE /\ slip = 0
      /\ posted = [p \in AllParts |-> 0] /\ logged = [e \in Entries |-> NotYet]
      /\ batch = {} /\ told = {} /\ listed = {} /\ clipped = {}
      /\ blind = (saved = NotYet) /\ published = 0 /\ version = 0
      /\ calls = [v \in 1..MaxVersion |-> 0]
    BY DEF PostInit
<1>2. /\ NotYet \in Int /\ NotYet < 0 /\ DayBefore = -1 /\ Saving \in Nat /\ Saving # 0
    BY DEF NotYet, DayBefore, Saving
<1>3. PostTypes
    <2>1. now \in Nat /\ started \in Int /\ started <= now /\ part \in 0..Saving
        BY <1>1, <1>2
    <2>2. /\ slip \in Int /\ posted \in [AllParts -> Nat] /\ logged \in [Entries -> Int]
        BY <1>1, <1>2
    <2>3. nothingDue \in BOOLEAN /\ blind \in BOOLEAN
        BY <1>1
    <2>4. QED
        BY <1>1, <2>1, <2>2, <2>3 DEF PostTypes
<1>4. MarksAreGood
    <2>1. saved \in Int /\ saved < 0 /\ saved >= NotYet /\ \A n \in Int : n \notin 0..saved
        BY <1>1, <1>2 DEF NotYet
    <2>2. saved = NotYet => blind
        BY <1>1
    <2>3. \A e \in Entries : logged[e] \in Int
        BY <1>3 DEF PostTypes
    <2>4. GoodMark(saved)
        BY <2>1, <2>2, <2>3 DEF GoodMark
    <2>5. QED
        BY <1>1, <2>4 DEF MarksAreGood
<1>5. PartsGoOut
    <2>1. \A p \in Parts : posted[p] = 0
        BY <1>1, PartsAre
    <2>2. OncePerDay /\ Excused(1)
        BY <2>1 DEF OncePerDay, Excused
    <2>3. QED
        BY <1>1, <1>2, <2>2, PartsAre DEF PartsGoOut
<1>6. DigestHas
    BY <1>1, <1>2 DEF DigestHas
<1>7. VersionsGoUp
    BY <1>1 DEF VersionsGoUp, VersionsAreTold
<1>8. DigestReads
    BY <1>1 DEF DigestReads, FirstAreListed
<1>9. QED
    BY <1>3, <1>4, <1>5, <1>6, <1>7, <1>8 DEF PostInv

\* Every step of the posts keeps it.
LEMMA PostStep ==
    ASSUME PostInv, [PostNext]_postVars
    PROVE  PostInv'
<1>1. CASE UNCHANGED postVars
    <2>1. UNCHANGED <<job, marker, saved, started, posted, nothingDue, slip, entries>>
        BY <1>1 DEF postVars, post
    <2>2. now' \in Nat /\ now <= now' /\ part' = part /\ UNCHANGED releases
        BY <1>1 DEF postVars, post, PostInv, PostTypes
    <2>3. QED
        BY <2>1, <2>2, PostsKept, VersionsKept DEF PostInv
<1>2. QED
    BY <1>1, SecondKeeps, VersionKeeps, LogErrorKeeps, PostsBegin, SendPartKeeps,
       SaveMarkerKeeps, PostRestartKeeps DEF PostNext

\* What holds of the posts is what they promise.
LEMMA PostsPromise ==
    ASSUME PostInv
    PROVE  PostsAreTrue
BY DEF PostInv, MarksAreGood, GoodMark, AllPosted, PartsGoOut, VersionsGoUp, PostsAreTrue,
       DoneWasPosted, ErrorsAreTold, DigestReads

\* Scheduled, Utility and ShinyLeaderboard: a post that is marked as done was posted to its
\* last part, no part goes out twice on a day but for what could not be sent or saved, every
\* error still in error.log is counted by the digest after it if there is one to send it to,
\* and listed there unless as many others are that came first, and every version is announced
\* once.
THEOREM PostsStayTrue == PostSpec => []PostsAreTrue
<1>1. PostInit => PostInv
    BY PostsStart
<1>2. PostInv /\ [PostNext]_postVars => PostInv'
    BY PostStep
<1>3. PostInv => PostsAreTrue
    BY PostsPromise
<1>4. QED
    BY <1>1, <1>2, <1>3, PTL DEF PostSpec

HIDE ScheduledPostsAssumption DEF ScheduledPostsAssumption

-------------------------------------------------------------------------------
USE QuestAnswersAssumption DEF QuestAnswersAssumption

\* QuestAnswers.  The two caches and what each search has read.
SomeRows == [stops : SUBSET Stops, day : Int]
SomeCache == [rows : SomeRows, day : Int, old : 0..CacheLife]

AnswersTypes ==
    /\ day \in Nat
    /\ since \in [Kinds -> [Stops -> Absent..CacheLife]]
    /\ kept \in [Kinds -> SomeCache]
    /\ phase \in [Searches -> {Idle, Answering} \union (Kinds \X {"read", "keep"})]
    /\ found \in [Searches -> [Kinds -> SomeRows]]

\* Rows of today are of quests that the scanner has.
NotEnded(k, rows) ==
    rows.day <= day /\ (rows.day = day => \A s \in rows.stops : since[k][s] # Absent)

\* Whatever the live rows miss is no older than that, which Absent is not.
MissesNone(k, rows, n) == \A s \in Stops \ Live(rows).stops : since[k][s] <= n

NoneEnded ==
    /\ \A k \in Kinds : kept[k].day <= day /\ NotEnded(k, kept[k].rows)
    /\ \A c \in Searches, k \in Kinds : NotEnded(k, found[c][k])

\* A cache of today misses what came after it.
CacheHas ==
    \A k \in Kinds : kept[k].day = day => MissesNone(k, kept[k].rows, kept[k].old)

HasRead(ph, k) ==
    ph = Answering \/ (k = "quest" /\ ph \in {"alternative"} \X {"read", "keep"})

\* A search misses what came since it queried, or since the cache that it used.
SearchHas ==
    \A c \in Searches, k \in Kinds :
        /\ phase[c] = <<k, "keep">> => MissesNone(k, found[c][k], 0)
        /\ HasRead(phase[c], k) => MissesNone(k, found[c][k], CacheLife - 1)

AnswersInv ==
    AnswersTypes /\ NoneEnded /\ CacheHas /\ SearchHas /\ ghosts = FALSE /\ gaps = FALSE

\* What the state of the caches is made of.
LEMMA AnswersAre ==
    ASSUME AnswersTypes
    PROVE  /\ \A k \in Kinds, s \in Stops : since[k][s] \in Absent..CacheLife
           /\ \A k \in Kinds : /\ kept[k] \in SomeCache /\ kept[k].rows \in SomeRows
                               /\ kept[k].rows.day \in Int
                               /\ kept[k].rows.stops \subseteq Stops
                               /\ kept[k].day \in Int /\ kept[k].old \in 0..CacheLife
           /\ \A c \in Searches, k \in Kinds :
                 /\ found[c][k] \in SomeRows /\ found[c][k].day \in Int
                 /\ found[c][k].stops \subseteq Stops
BY DEF AnswersTypes, SomeCache, SomeRows

\* No rows are a set of rows too, of no day.
LEMMA NoRowsAre ==
    NoRows \in SomeRows /\ NoRows.stops = {} /\ NoRows.day = -1
BY DEF NoRows, SomeRows, Absent

\* What misses nothing older misses nothing much older.
LEMMA MissesLess ==
    ASSUME AnswersTypes, NEW k \in Kinds, NEW rows, NEW m \in Int, NEW n \in Int, m <= n,
           MissesNone(k, rows, m)
    PROVE  MissesNone(k, rows, n)
<1>1. SUFFICES ASSUME NEW s \in Stops \ Live(rows).stops
               PROVE  since[k][s] <= n
    BY DEF MissesNone
<1>2. since[k][s] <= m
    BY <1>1 DEF MissesNone
<1>3. since[k][s] \in Int
    BY <1>1, AnswersAre DEF Absent
<1>4. QED
    BY <1>2, <1>3

\* A quest that is scanned is missed by what was read before, and is new.
LEMMA ScanStopKeeps ==
    ASSUME AnswersInv, NEW k \in Kinds, NEW s \in Stops, ScanStop(k, s)
    PROVE  AnswersInv'
<1> USE DEF AnswersInv
<1>1. /\ day' = day /\ kept' = kept /\ phase' = phase /\ found' = found
      /\ ghosts' = ghosts /\ gaps' = gaps
      /\ since' = [since EXCEPT ![k][s] = 0]
    BY DEF ScanStop
<1>2. /\ since' \in [Kinds -> [Stops -> Absent..CacheLife]]
      /\ \A j \in Kinds, t \in Stops : since'[j][t] = 0 \/ since'[j][t] = since[j][t]
    BY <1>1 DEF AnswersTypes, Absent
<1>3. AnswersTypes'
    BY <1>1, <1>2 DEF AnswersTypes
<1>4. NoneEnded'
    <2>1. \A j \in Kinds, rows \in SomeRows : NotEnded(j, rows) => NotEnded(j, rows)'
        BY <1>1, <1>2 DEF NotEnded, SomeRows, Absent
    <2>2. QED
        BY <1>1, <2>1, AnswersAre DEF NoneEnded
<1>5. \A j \in Kinds, rows \in SomeRows, n \in Nat :
         MissesNone(j, rows, n) => MissesNone(j, rows, n)'
    BY <1>1, <1>2 DEF MissesNone, Live
<1>6. CacheHas'
    <2>1. \A j \in Kinds : kept[j].old \in Nat
        BY AnswersAre
    <2>2. QED
        BY <1>1, <1>5, <2>1, AnswersAre DEF CacheHas
<1>7. SearchHas'
    <2>1. 0 \in Nat /\ CacheLife - 1 \in Nat
        OBVIOUS
    <2>2. QED
        BY <1>1, <1>5, <2>1, AnswersAre DEF SearchHas, HasRead
<1>8. QED
    BY <1>1, <1>3, <1>4, <1>6, <1>7

\* At midnight every quest ends, and what was read is of an earlier day.
LEMMA DayChangesKeeps ==
    ASSUME AnswersInv, DayChanges
    PROVE  AnswersInv'
<1> USE DEF AnswersInv
<1>1. /\ day' = day + 1 /\ kept' = kept /\ phase' = phase /\ found' = found
      /\ ghosts' = ghosts /\ gaps' = gaps
      /\ since' = [k \in Kinds |-> [s \in Stops |-> Absent]]
    BY DEF DayChanges
<1>2. day \in Nat /\ day' \in Nat
    BY <1>1 DEF AnswersTypes
<1>3. /\ since' \in [Kinds -> [Stops -> Absent..CacheLife]]
      /\ \A j \in Kinds, t \in Stops : since'[j][t] = -1
    BY <1>1 DEF Absent
<1>4. AnswersTypes'
    BY <1>1, <1>2, <1>3 DEF AnswersTypes
<1>5. NoneEnded'
    <2>1. \A j \in Kinds, rows \in SomeRows : NotEnded(j, rows) => NotEnded(j, rows)'
        BY <1>1, <1>2 DEF NotEnded, SomeRows
    <2>2. \A j \in Kinds : kept'[j].day <= day'
        BY <1>1, <1>2, AnswersAre DEF NoneEnded
    <2>3. QED
        BY <1>1, <2>1, <2>2, AnswersAre DEF NoneEnded
<1>6. \A j \in Kinds, rows \in SomeRows, n \in Nat : MissesNone(j, rows, n)'
    BY <1>3 DEF MissesNone
<1>7. CacheHas' /\ SearchHas'
    <2>1. /\ 0 \in Nat /\ CacheLife - 1 \in Nat
          /\ \A j \in Kinds : kept[j].old \in Nat
        BY AnswersAre
    <2>2. QED
        BY <1>1, <1>6, <2>1, AnswersAre DEF CacheHas, SearchHas
<1>8. QED
    BY <1>1, <1>4, <1>5, <1>7

\* A cache and what it misses grow older together; a search takes no time.
LEMMA TimeGoesByKeeps ==
    ASSUME AnswersInv, TimeGoesBy
    PROVE  AnswersInv'
<1> USE DEF AnswersInv
<1>1. /\ day' = day /\ phase' = phase /\ found' = found
      /\ ghosts' = ghosts /\ gaps' = gaps
      /\ \A c \in Searches : phase[c] = Idle
      /\ since' = [k \in Kinds |-> [s \in Stops |-> Aged(since[k][s])]]
      /\ kept' = [k \in Kinds |-> [kept[k] EXCEPT !.old = Aged(@)]]
    BY DEF TimeGoesBy
<1>2. \A n \in Absent..CacheLife : /\ Aged(n) \in Absent..CacheLife
                                   /\ Aged(n) = Absent <=> n = Absent
                                   /\ n # Absent => Aged(n) >= 0
    BY DEF Aged, Absent
<1>3. \A a \in Absent..CacheLife, b \in 0..CacheLife : a <= b => Aged(a) <= Aged(b)
    BY DEF Aged, Absent
<1>4. /\ since' \in [Kinds -> [Stops -> Absent..CacheLife]]
      /\ \A k \in Kinds, s \in Stops : since'[k][s] = Aged(since[k][s])
    BY <1>1, <1>2, AnswersAre
<1>5. ASSUME NEW k \in Kinds
      PROVE  /\ kept'[k] \in SomeCache /\ kept'[k].rows = kept[k].rows
             /\ kept'[k].day = kept[k].day /\ kept'[k].old = Aged(kept[k].old)
    <2>1. kept'[k] = [kept[k] EXCEPT !.old = Aged(@)]
        BY <1>1
    <2>2. kept[k] \in [rows : SomeRows, day : Int, old : 0..CacheLife]
        BY AnswersAre DEF SomeCache
    <2>3. Aged(kept[k].old) \in 0..CacheLife
        BY <1>2, <2>2 DEF Absent
    <2>4. QED
        BY <2>1, <2>2, <2>3 DEF SomeCache
<1>6. kept' \in [Kinds -> SomeCache]
    <2>1. kept' = [k \in Kinds |-> kept'[k]]
        BY <1>1
    <2>2. QED
        BY <1>5, <2>1, Zenon
<1>7. AnswersTypes'
    BY <1>1, <1>4, <1>6 DEF AnswersTypes
<1>8. NoneEnded'
    <2>1. \A j \in Kinds, rows \in SomeRows : NotEnded(j, rows) => NotEnded(j, rows)'
        BY <1>1, <1>2, <1>4, AnswersAre DEF NotEnded, SomeRows
    <2>2. QED
        BY <1>1, <1>5, <2>1, AnswersAre DEF NoneEnded
<1>9. CacheHas'
    <2>1. SUFFICES ASSUME NEW k \in Kinds, kept[k].day = day,
                          NEW s \in Stops \ Live(kept[k].rows).stops
                   PROVE  since'[k][s] <= kept'[k].old
        BY <1>1, <1>5 DEF CacheHas, MissesNone, Live
    <2>2. since[k][s] <= kept[k].old
        BY <2>1 DEF CacheHas, MissesNone
    <2>3. since[k][s] \in Absent..CacheLife /\ kept[k].old \in 0..CacheLife
        BY AnswersAre
    <2>4. QED
        BY <1>3, <1>4, <1>5, <2>2, <2>3
<1>10. SearchHas'
    <2>1. \A c \in Searches : /\ \A k \in Kinds : phase'[c] # <<k, "keep">>
                              /\ phase'[c] # Answering
                              /\ phase'[c] \notin {"alternative"} \X {"read", "keep"}
        BY <1>1 DEF Idle, Answering, Kinds
    <2>2. QED
        BY <2>1 DEF SearchHas, HasRead
<1>11. QED
    BY <1>1, <1>7, <1>8, <1>9, <1>10

\* Rows that are filtered twice are filtered once.
LEMMA LiveIs ==
    ASSUME day \in Nat, NEW k \in Kinds, NEW rows \in SomeRows, NotEnded(k, rows)
    PROVE  /\ Live(rows) \in SomeRows /\ Live(Live(rows)) = Live(rows)
           /\ NotEnded(k, Live(rows))
<1>1. CASE rows.day = day
    BY <1>1 DEF Live
<1>2. CASE rows.day # day
    BY <1>2, NoRowsAre DEF Live, NotEnded
<1>3. QED
    BY <1>1, <1>2

\* A step of one search is as good as the rows that it leaves it with.
LEMMA OneSearchKeeps ==
    ASSUME AnswersInv, NEW c \in Searches,
           NEW ph \in {Idle, Answering} \union (Kinds \X {"read", "keep"}),
           NEW r \in [Kinds -> SomeRows],
           day' = day, since' = since,
           phase' = [phase EXCEPT ![c] = ph],
           found' = [found EXCEPT ![c] = r],
           \A k \in Kinds : /\ NotEnded(k, r[k])
                            /\ ph = <<k, "keep">> => MissesNone(k, r[k], 0)
                            /\ HasRead(ph, k) => MissesNone(k, r[k], CacheLife - 1)
    PROVE  /\ kept' = kept => AnswersTypes' /\ NoneEnded' /\ CacheHas'
           /\ phase' \in [Searches -> {Idle, Answering} \union (Kinds \X {"read", "keep"})]
           /\ found' \in [Searches -> [Kinds -> SomeRows]]
           /\ \A d \in Searches, k \in Kinds : NotEnded(k, found'[d][k])
           /\ SearchHas'
<1> USE DEF AnswersInv
<1>1. /\ phase' \in [Searches -> {Idle, Answering} \union (Kinds \X {"read", "keep"})]
      /\ found' \in [Searches -> [Kinds -> SomeRows]]
    BY DEF AnswersTypes
<1>2. \A d \in Searches : \/ d = c /\ phase'[d] = ph /\ found'[d] = r
                          \/ phase'[d] = phase[d] /\ found'[d] = found[d]
    BY DEF AnswersTypes
<1>3. /\ \A k \in Kinds, rows \in SomeRows : NotEnded(k, rows)' <=> NotEnded(k, rows)
      /\ \A k \in Kinds, rows \in SomeRows, n \in Nat :
            MissesNone(k, rows, n)' <=> MissesNone(k, rows, n)
    BY DEF NotEnded, MissesNone, Live
<1>4. \A d \in Searches, k \in Kinds : NotEnded(k, found'[d][k])
    BY <1>2 DEF NoneEnded
<1>5. ASSUME NEW d \in Searches, NEW k \in Kinds
      PROVE  /\ phase'[d] = <<k, "keep">> => MissesNone(k, found'[d][k], 0)
             /\ HasRead(phase'[d], k) => MissesNone(k, found'[d][k], CacheLife - 1)
    BY <1>2 DEF SearchHas
<1>6. SearchHas'
    <2>1. 0 \in Nat /\ CacheLife - 1 \in Nat
        OBVIOUS
    <2>2. \A d \in Searches, k \in Kinds : found'[d][k] \in SomeRows
        BY <1>1
    <2>3. \A d \in Searches, k \in Kinds : HasRead(phase[d], k)' <=> HasRead(phase'[d], k)
        BY DEF HasRead
    <2>4. QED
        BY <1>3, <1>5, <2>1, <2>2, <2>3 DEF SearchHas
<1>7. ASSUME kept' = kept
      PROVE  AnswersTypes' /\ NoneEnded' /\ CacheHas'
    <2>1. AnswersTypes'
        BY <1>1, <1>7 DEF AnswersTypes
    <2>2. NoneEnded'
        <3>1. \A d \in Searches, k \in Kinds : found'[d][k] \in SomeRows
            BY <1>1
        <3>2. QED
            BY <1>3, <1>4, <1>7, <3>1, AnswersAre DEF NoneEnded
    <2>3. CacheHas'
        <3>1. \A k \in Kinds : kept[k].old \in Nat /\ kept[k].rows \in SomeRows
            BY AnswersAre
        <3>2. QED
            BY <1>3, <1>7, <3>1 DEF CacheHas
    <2>4. QED
        BY <2>1, <2>2, <2>3
<1>8. QED
    BY <1>1, <1>4, <1>6, <1>7

\* A search begins, or is over, or gives up: it has read nothing that it still needs.
LEMMA FreshSearchKeeps ==
    ASSUME AnswersInv, NEW c \in Searches, NEW ph \in {Idle, <<"quest", "read">>},
           day' = day, since' = since, kept' = kept,
           phase' = [phase EXCEPT ![c] = ph],
           \/ found' = found
           \/ found' = [found EXCEPT ![c] = [k \in Kinds |-> NoRows]]
    PROVE  AnswersTypes' /\ NoneEnded' /\ CacheHas' /\ SearchHas'
<1> DEFINE none == [k \in Kinds |-> NoRows]
<1>1. ph \in {Idle, Answering} \union (Kinds \X {"read", "keep"})
    BY DEF Kinds
<1>2. \A k \in Kinds : ph # <<k, "keep">> /\ ~HasRead(ph, k)
    BY DEF HasRead, Idle, Answering, Kinds
<1>3. CASE found' = found
    <2>1. found' = [found EXCEPT ![c] = found[c]] /\ found[c] \in [Kinds -> SomeRows]
        BY <1>3 DEF AnswersInv, AnswersTypes
    <2>2. \A k \in Kinds : NotEnded(k, found[c][k])
        BY DEF AnswersInv, NoneEnded
    <2>3. QED
        BY <1>1, <1>2, <2>1, <2>2, OneSearchKeeps
<1>4. CASE found' = [found EXCEPT ![c] = none]
    <2>1. none \in [Kinds -> SomeRows] /\ \A k \in Kinds : none[k] = NoRows
        BY NoRowsAre
    <2>2. \A k \in Kinds : NotEnded(k, none[k])
        BY <2>1, NoRowsAre DEF NotEnded, AnswersInv, AnswersTypes
    <2> HIDE DEF none
    <2>3. QED
        BY <1>1, <1>2, <1>4, <2>1, <2>2, OneSearchKeeps
<1>5. QED
    BY <1>3, <1>4

\* What a search has after a read, if the rows of that kind are good.
LEMMA AfterIs ==
    ASSUME AnswersInv, NEW c \in Searches, NEW k \in Kinds, NEW rows \in SomeRows,
           phase[c] \in {k} \X {"read", "keep"},
           NotEnded(k, rows), MissesNone(k, rows, CacheLife - 1),
           day' = day, since' = since,
           phase' = [phase EXCEPT ![c] = After(k)],
           found' = [found EXCEPT ![c][k] = rows]
    PROVE  /\ kept' = kept => AnswersTypes' /\ NoneEnded' /\ CacheHas'
           /\ phase' \in [Searches -> {Idle, Answering} \union (Kinds \X {"read", "keep"})]
           /\ found' \in [Searches -> [Kinds -> SomeRows]]
           /\ \A d \in Searches, j \in Kinds : NotEnded(j, found'[d][j])
           /\ SearchHas'
<1> DEFINE r == [found[c] EXCEPT ![k] = rows]
<1>1. found[c] \in [Kinds -> SomeRows]
    BY DEF AnswersInv, AnswersTypes
<1>2. /\ r \in [Kinds -> SomeRows] /\ r[k] = rows
      /\ \A j \in Kinds : j # k => r[j] = found[c][j]
    BY <1>1
<1>3. found' = [found EXCEPT ![c] = r]
    OBVIOUS
<1>4. After(k) \in {Idle, Answering} \union (Kinds \X {"read", "keep"})
    BY DEF After, Kinds
<1>5. \A j \in Kinds : NotEnded(j, r[j])
    BY <1>2 DEF AnswersInv, NoneEnded
<1>6. \A j \in Kinds : After(k) # <<j, "keep">>
    BY DEF After, Answering, Kinds
<1>7. ASSUME NEW j \in Kinds, HasRead(After(k), j), j # k
      PROVE  MissesNone(j, found[c][j], CacheLife - 1)
    <2>1. k = "alternative" /\ j = "quest"
        BY <1>7 DEF After, HasRead, Answering, Kinds
    <2>2. HasRead(phase[c], j)
        BY <2>1 DEF HasRead
    <2>3. QED
        BY <2>2 DEF AnswersInv, SearchHas
<1>8. \A j \in Kinds : HasRead(After(k), j) => MissesNone(j, r[j], CacheLife - 1)
    BY <1>2, <1>7
<1> HIDE DEF r
<1>9. QED
    BY <1>2, <1>3, <1>4, <1>5, <1>6, <1>8, OneSearchKeeps

\* Rows of the cache are good for as long as it is.
LEMMA UseCacheKeeps ==
    ASSUME AnswersInv, NEW c \in Searches, NEW k \in Kinds, UseCache(c, k)
    PROVE  AnswersInv'
<1> DEFINE rows == Live(kept[k].rows)
<1>1. /\ phase[c] \in {k} \X {"read", "keep"} /\ Usable(kept[k])
      /\ day' = day /\ since' = since /\ kept' = kept /\ ghosts' = ghosts /\ gaps' = gaps
      /\ phase' = [phase EXCEPT ![c] = After(k)]
      /\ found' = [found EXCEPT ![c][k] = rows]
    BY DEF UseCache
<1>2. rows \in SomeRows /\ Live(rows) = rows /\ NotEnded(k, rows)
    BY LiveIs, AnswersAre DEF AnswersInv, NoneEnded, AnswersTypes
<1>3. MissesNone(k, rows, CacheLife - 1)
    <2>1. MissesNone(k, kept[k].rows, kept[k].old)
        BY <1>1 DEF AnswersInv, CacheHas, Usable
    <2>2. kept[k].old \in Nat /\ kept[k].old <= CacheLife - 1
        BY <1>1, AnswersAre DEF Usable, AnswersInv
    <2>3. MissesNone(k, kept[k].rows, CacheLife - 1)
        BY <2>1, <2>2, MissesLess DEF AnswersInv
    <2>4. QED
        BY <1>2, <2>3 DEF MissesNone
<1> HIDE DEF rows
<1>4. AnswersTypes' /\ NoneEnded' /\ CacheHas' /\ SearchHas'
    BY <1>1, <1>2, <1>3, AfterIs
<1>5. QED
    BY <1>1, <1>4 DEF AnswersInv

\* A query finds what the scanner has.
LEMMA QueryKeeps ==
    ASSUME AnswersInv, NEW c \in Searches, NEW k \in Kinds, Query(c, k)
    PROVE  AnswersInv'
<1> DEFINE rows == [stops |-> {s \in Stops : since[k][s] # Absent}, day |-> day]
           r == [found[c] EXCEPT ![k] = rows]
           ph == <<k, "keep">>
<1>1. /\ phase[c] = <<k, "read">>
      /\ day' = day /\ since' = since /\ kept' = kept /\ ghosts' = ghosts /\ gaps' = gaps
      /\ phase' = [phase EXCEPT ![c] = ph]
      /\ found' = [found EXCEPT ![c] = r]
    BY DEF Query
<1>2. rows \in SomeRows /\ NotEnded(k, rows) /\ MissesNone(k, rows, 0)
    BY DEF SomeRows, NotEnded, MissesNone, Live, AnswersInv, AnswersTypes, Absent
<1>3. found[c] \in [Kinds -> SomeRows] /\ k \in Kinds
    BY DEF AnswersInv, AnswersTypes
<1> HIDE DEF rows
<1>4. /\ r \in [Kinds -> SomeRows] /\ r[k] = rows
      /\ \A j \in Kinds : j # k => r[j] = found[c][j]
    BY <1>2, <1>3
<1>5. \A j \in Kinds : NotEnded(j, r[j])
    BY <1>2, <1>4 DEF AnswersInv, NoneEnded
<1>6. \A j \in Kinds : ph = <<j, "keep">> => MissesNone(j, r[j], 0)
    BY <1>2, <1>4
<1>7. ASSUME NEW j \in Kinds, HasRead(ph, j)
      PROVE  MissesNone(j, r[j], CacheLife - 1)
    <2>1. k = "alternative" /\ j = "quest"
        BY <1>7 DEF HasRead, Answering, Kinds
    <2>2. HasRead(phase[c], j) /\ r[j] = found[c][j]
        BY <1>1, <1>4, <2>1 DEF HasRead
    <2>3. QED
        BY <2>2 DEF AnswersInv, SearchHas
<1>8. ph \in {Idle, Answering} \union (Kinds \X {"read", "keep"})
    OBVIOUS
<1> HIDE DEF r, ph
<1>9. AnswersTypes' /\ NoneEnded' /\ CacheHas' /\ SearchHas'
    BY <1>1, <1>4, <1>5, <1>6, <1>7, <1>8, OneSearchKeeps
<1>10. QED
    BY <1>1, <1>9 DEF AnswersInv

\* What is kept is stamped today; rows that midnight has ended are kept as none.
LEMMA KeepRowsKeeps ==
    ASSUME AnswersInv, NEW c \in Searches, NEW k \in Kinds, KeepRows(c, k)
    PROVE  AnswersInv'
<1> DEFINE rows == Live(found[c][k])
           new == [rows |-> rows, day |-> day, old |-> 0]
<1>1. /\ phase[c] = <<k, "keep">> /\ phase[c] \in {k} \X {"read", "keep"}
      /\ day' = day /\ since' = since /\ ghosts' = ghosts /\ gaps' = gaps
      /\ kept' = [kept EXCEPT ![k] = new]
      /\ phase' = [phase EXCEPT ![c] = After(k)]
      /\ found' = [found EXCEPT ![c][k] = rows]
    BY DEF KeepRows
<1>2. rows \in SomeRows /\ Live(rows) = rows /\ NotEnded(k, rows)
    BY LiveIs, AnswersAre DEF AnswersInv, NoneEnded, AnswersTypes
<1>3. MissesNone(k, rows, 0)
    BY <1>1, <1>2 DEF AnswersInv, SearchHas, MissesNone
<1>4. MissesNone(k, rows, CacheLife - 1)
    <2>1. CacheLife - 1 \in Int /\ 0 <= CacheLife - 1
        OBVIOUS
    <2>2. QED
        BY <1>3, <2>1, MissesLess DEF AnswersInv
<1>5. day \in Nat
    BY DEF AnswersInv, AnswersTypes
<1> HIDE DEF rows
<1>6. /\ phase' \in [Searches -> {Idle, Answering} \union (Kinds \X {"read", "keep"})]
      /\ found' \in [Searches -> [Kinds -> SomeRows]]
      /\ \A d \in Searches, j \in Kinds : NotEnded(j, found'[d][j])
      /\ SearchHas'
    BY <1>1, <1>2, <1>4, AfterIs
<1>7. new \in SomeCache /\ new.rows = rows /\ new.day = day /\ new.old = 0
    BY <1>2, <1>5 DEF SomeCache
<1> HIDE DEF new
<1>8. /\ kept' \in [Kinds -> SomeCache]
      /\ \A j \in Kinds : kept'[j] = IF j = k THEN new ELSE kept[j]
    BY <1>1, <1>7 DEF AnswersInv, AnswersTypes
<1>9. AnswersTypes'
    BY <1>1, <1>6, <1>8 DEF AnswersTypes, AnswersInv
<1>10. \A j \in Kinds : kept'[j].day <= day /\ NotEnded(j, kept'[j].rows)
    <2>1. \A j \in Kinds : kept[j].day <= day /\ NotEnded(j, kept[j].rows)
        BY DEF AnswersInv, NoneEnded
    <2>2. QED
        BY <1>2, <1>5, <1>7, <1>8, <2>1
<1>11. \A j \in Kinds : kept'[j].day = day => MissesNone(j, kept'[j].rows, kept'[j].old)
    <2>1. \A j \in Kinds : kept[j].day = day => MissesNone(j, kept[j].rows, kept[j].old)
        BY DEF AnswersInv, CacheHas
    <2>2. QED
        BY <1>3, <1>7, <1>8, <2>1
<1>12. NoneEnded'
    BY <1>1, <1>6, <1>10 DEF NoneEnded, NotEnded
<1>13. CacheHas'
    BY <1>1, <1>11 DEF CacheHas, MissesNone, Live
<1>14. QED
    BY <1>1, <1>6, <1>9, <1>12, <1>13 DEF AnswersInv

\* An answer is given from live rows, and the rows it was given miss nothing old.
LEMMA FoundIs ==
    ASSUME AnswersInv, NEW c \in Searches, Found(c)
    PROVE  ghosts' = FALSE /\ gaps' = FALSE /\ day' = day /\ since' = since /\ kept' = kept
<1>1. phase[c] = Answering /\ day \in Nat
    BY DEF Found, AnswersInv, AnswersTypes
<1>2. ASSUME NEW k \in Kinds, NEW s \in Relevant(found[c][k])
      PROVE  since[k][s] # Absent
    <2>1. NotEnded(k, found[c][k]) /\ found[c][k] \in SomeRows
        BY AnswersAre DEF AnswersInv, NoneEnded
    <2>2. s \in Live(found[c][k]).stops
        BY <1>2 DEF Relevant
    <2>3. found[c][k].day = day /\ s \in found[c][k].stops
        BY <2>2, NoRowsAre DEF Live
    <2>4. QED
        BY <2>1, <2>3 DEF NotEnded
<1>3. ASSUME NEW k \in Kinds, NEW s \in Stops \ Relevant(found[c][k])
      PROVE  since[k][s] # CacheLife
    <2>1. MissesNone(k, found[c][k], CacheLife - 1)
        BY <1>1 DEF AnswersInv, SearchHas, HasRead
    <2>2. since[k][s] <= CacheLife - 1
        BY <1>3, <2>1 DEF MissesNone, Relevant
    <2>3. QED
        BY <2>2
<1>4. ghosts = FALSE /\ gaps = FALSE
    BY DEF AnswersInv
<1>5. QED
    BY <1>2, <1>3, <1>4 DEF Found

\* An answer ends its search, which then keeps nothing of what it found.
LEMMA AnswersGiven ==
    ASSUME AnswersInv, NEW c \in Searches, Answer(c) \/ CheckTracked(c)
    PROVE  AnswersInv'
<1>1. ghosts' = FALSE /\ gaps' = FALSE /\ day' = day /\ since' = since /\ kept' = kept
    BY FoundIs DEF Answer, CheckTracked
<1>2. PICK ph \in {Idle, <<"quest", "read">>} :
         /\ phase' = [phase EXCEPT ![c] = ph]
         /\ found' = [found EXCEPT ![c] = [k \in Kinds |-> NoRows]]
    BY DEF Answer, CheckTracked, Rest
<1>3. AnswersTypes' /\ NoneEnded' /\ CacheHas' /\ SearchHas'
    BY <1>1, <1>2, FreshSearchKeeps
<1>4. QED
    BY <1>1, <1>3 DEF AnswersInv

\* A search has found nothing when it begins.
LEMMA SearchBegins ==
    ASSUME AnswersInv, NEW c \in Searches,
           Search(c) \/ \E k \in Kinds : QueryFails(c, k)
    PROVE  AnswersInv'
<1>1. /\ day' = day /\ since' = since /\ kept' = kept
      /\ ghosts' = ghosts /\ gaps' = gaps
    BY DEF Search, QueryFails
<1>2. PICK ph \in {Idle, <<"quest", "read">>} :
         /\ phase' = [phase EXCEPT ![c] = ph]
         /\ \/ found' = found
            \/ found' = [found EXCEPT ![c] = [k \in Kinds |-> NoRows]]
    BY DEF Search, QueryFails, Rest
<1>3. AnswersTypes' /\ NoneEnded' /\ CacheHas' /\ SearchHas'
    BY <1>1, <1>2, FreshSearchKeeps
<1>4. QED
    BY <1>1, <1>3 DEF AnswersInv

\* A process that starts has nothing, and no search.
LEMMA NothingRead ==
    ASSUME day \in Nat,
           since \in [Kinds -> [Stops -> Absent..CacheLife]],
           kept = [k \in Kinds |-> NoCache],
           phase = [c \in Searches |-> Idle],
           found = [c \in Searches |-> [k \in Kinds |-> NoRows]]
    PROVE  AnswersTypes /\ NoneEnded /\ CacheHas /\ SearchHas
<1>1. NoCache \in SomeCache /\ NoCache.rows = NoRows /\ NoCache.day = -1
    BY NoRowsAre DEF NoCache, SomeCache, Absent
<1>2. /\ \A k \in Kinds : kept[k] = NoCache
      /\ \A c \in Searches, k \in Kinds : found[c][k] = NoRows
      /\ \A c \in Searches : phase[c] = Idle
    OBVIOUS
<1>3. AnswersTypes
    <2>1. kept \in [Kinds -> SomeCache]
        BY <1>1
    <2>2. found \in [Searches -> [Kinds -> SomeRows]]
        BY NoRowsAre
    <2>3. QED
        BY <2>1, <2>2 DEF AnswersTypes
<1>4. NoneEnded
    BY <1>1, <1>2, NoRowsAre DEF NoneEnded, NotEnded
<1>5. CacheHas
    BY <1>1, <1>2 DEF CacheHas
<1>6. SearchHas
    <2>1. \A k \in Kinds : Idle # <<k, "keep">> /\ ~HasRead(Idle, k)
        BY DEF Idle, Answering, HasRead, Kinds
    <2>2. QED
        BY <1>2, <2>1 DEF SearchHas
<1>7. QED
    BY <1>3, <1>4, <1>5, <1>6

\* At the start nothing was read.
LEMMA AnswersStart ==
    ASSUME AnswersInit
    PROVE  AnswersInv
<1>1. since \in [Kinds -> [Stops -> Absent..CacheLife]] /\ day \in Nat
    BY DEF AnswersInit, Absent
<1>2. /\ kept = [k \in Kinds |-> NoCache]
      /\ phase = [c \in Searches |-> Idle]
      /\ found = [c \in Searches |-> [k \in Kinds |-> NoRows]]
      /\ ghosts = FALSE /\ gaps = FALSE
    BY DEF AnswersInit
<1>3. QED
    BY <1>1, <1>2, NothingRead DEF AnswersInv

\* A new process has no caches and no search under way.
LEMMA AnswersRestartKeeps ==
    ASSUME AnswersInv, AnswersRestart
    PROVE  AnswersInv'
<1>1. /\ day' \in Nat
      /\ since' \in [Kinds -> [Stops -> Absent..CacheLife]]
      /\ kept' = [k \in Kinds |-> NoCache]
      /\ phase' = [c \in Searches |-> Idle]
      /\ found' = [c \in Searches |-> [k \in Kinds |-> NoRows]]
      /\ ghosts' = FALSE /\ gaps' = FALSE
    BY DEF AnswersRestart, AnswersInv, AnswersTypes
<1>2. AnswersTypes' /\ NoneEnded' /\ CacheHas' /\ SearchHas'
    <2>1. NoCache \in SomeCache /\ NoCache.rows = NoRows /\ NoCache.day = -1
        BY NoRowsAre DEF NoCache, SomeCache, Absent
    <2>2. /\ \A k \in Kinds : kept'[k] = NoCache
          /\ \A c \in Searches, k \in Kinds : found'[c][k] = NoRows
          /\ \A c \in Searches : phase'[c] = Idle
        BY <1>1
    <2>3. AnswersTypes'
        <3>1. kept' \in [Kinds -> SomeCache]
            BY <1>1, <2>1
        <3>2. found' \in [Searches -> [Kinds -> SomeRows]]
            BY <1>1, NoRowsAre
        <3>3. QED
            BY <1>1, <3>1, <3>2 DEF AnswersTypes
    <2>4. NoneEnded'
        BY <1>1, <2>1, <2>2, NoRowsAre DEF NoneEnded, NotEnded
    <2>5. CacheHas'
        BY <1>1, <2>1, <2>2 DEF CacheHas
    <2>6. SearchHas'
        <3>1. \A k \in Kinds : Idle # <<k, "keep">> /\ ~HasRead(Idle, k)
            BY DEF Idle, Answering, HasRead, Kinds
        <3>2. QED
            BY <2>2, <3>1 DEF SearchHas, HasRead
    <2>7. QED
        BY <2>3, <2>4, <2>5, <2>6
<1>3. QED
    BY <1>1, <1>2 DEF AnswersInv

\* Every step of the searches keeps their invariant.
LEMMA AnswersStep ==
    ASSUME AnswersInv, [AnswersNext]_answerVars
    PROVE  AnswersInv'
<1>1. CASE UNCHANGED answerVars
    BY <1>1 DEF answerVars, AnswersInv, AnswersTypes, NoneEnded, CacheHas, SearchHas,
                NotEnded, MissesNone, Live, HasRead
<1>2. QED
    BY <1>1, DayChangesKeeps, TimeGoesByKeeps, AnswersRestartKeeps, ScanStopKeeps,
       SearchBegins, AnswersGiven, UseCacheKeeps, QueryKeeps, KeepRowsKeeps
    DEF AnswersNext

\* QuestSearch: no answer holds a quest that has ended, and none misses one that the scanner
\* has had for as long as a cache lives.
THEOREM AnswersStayCurrent == AnswersSpec => []AnswersAreCurrent
<1>1. AnswersInit => AnswersInv
    BY AnswersStart
<1>2. AnswersInv /\ [AnswersNext]_answerVars => AnswersInv'
    BY AnswersStep
<1>3. AnswersInv => AnswersAreCurrent
    BY DEF AnswersInv, AnswersAreCurrent
<1>4. QED
    BY <1>1, <1>2, <1>3, PTL DEF AnswersSpec

HIDE QuestAnswersAssumption DEF QuestAnswersAssumption

-------------------------------------------------------------------------------
USE QuestExportAssumption DEF QuestExportAssumption

\* QuestExport.  What each export has read, and what the site has.
SomeVersion == [day : Int, scans : Int]
SomeContent == [quest : SomeVersion, alternative : SomeVersion, named : Names]

ExportTypes ==
    /\ today \in Nat /\ quests \in SomeVersion /\ alternatives \in SomeVersion
    /\ named \in Names
    /\ stage \in [Exports -> {"idle", "quests", "alternatives", "build"}]
    /\ draft \in [Exports -> SomeContent]

\* Rows are of today, or there are none.
OfToday(v) == v = Nothing \/ v.day = today

RowsOfToday == OfToday(quests) /\ OfToday(alternatives)

\* An export that midnight did not catch has read today's rows, or nothing yet.
DraftsOfToday ==
    \A e \in Exports :
        /\ stage[e] = "idle" => draft[e] = Empty
        /\ e \notin overran => OfToday(draft[e].quest) /\ OfToday(draft[e].alternative)

\* No payload is stamped with a day to come.
StampedBefore == payload.day \in Int /\ payload.day <= today

ExportInv ==
    ExportTypes /\ RowsOfToday /\ DraftsOfToday /\ StampedBefore /\ QuestsArePublished

\* What is read is some version, and what is drafted is made of versions.
LEMMA DraftsAre ==
    /\ Nothing \in SomeVersion /\ Nothing.day = -1
    /\ Empty \in SomeContent /\ Empty.quest = Nothing /\ Empty.alternative = Nothing
    /\ NoFile.day = -1
BY DEF Nothing, Empty, SomeVersion, SomeContent, NoFile, Names

\* The kinds of what was drafted of today are of today.
LEMMA KindsAre ==
    ASSUME NEW f, OfToday(f.quest), OfToday(f.alternative)
    PROVE  \A v \in KindsOf(f) : v.day = today
BY DEF KindsOf, OfToday

\* The scanner's rows change: none of what was exported or read does.
LEMMA ScannerScansKeeps ==
    ASSUME ExportInv, ScannerScans
    PROVE  ExportInv'
<1> USE DEF ExportInv
<1>1. /\ today' = today /\ named' = named /\ stage' = stage /\ draft' = draft
      /\ payload' = payload /\ overran' = overran /\ spoiled' = spoiled
      /\ result' = result
    BY DEF ScannerScans, files, exportSeen
<1>2. ASSUME NEW v \in SomeVersion, OfToday(v)
      PROVE  /\ More(v) \in SomeVersion /\ OfToday(More(v))
             /\ v.scans > 0 => Fewer(v) \in SomeVersion /\ OfToday(Fewer(v))
    <2>1. More(v) \in SomeVersion /\ OfToday(More(v))
        BY <1>2 DEF More, SomeVersion, OfToday, ExportTypes
    <2>2. Fewer(v) \in SomeVersion
        BY <1>2, DraftsAre DEF Fewer, SomeVersion
    <2>3. v.scans > 0 => OfToday(Fewer(v))
        <3>1. CASE v = Nothing
            BY <3>1 DEF Nothing
        <3>2. CASE v.day = today
            BY <1>2, <3>2 DEF Fewer, OfToday, SomeVersion
        <3>3. QED
            BY <1>2, <3>1, <3>2 DEF OfToday
    <2>4. QED
        BY <2>1, <2>2, <2>3
<1>3. /\ quests' \in SomeVersion /\ OfToday(quests')
      /\ alternatives' \in SomeVersion /\ OfToday(alternatives')
    BY <1>2 DEF ScannerScans, ExportTypes, RowsOfToday
<1>4. ExportTypes' /\ RowsOfToday'
    BY <1>1, <1>3 DEF ExportTypes, RowsOfToday, OfToday
<1>5. DraftsOfToday' /\ StampedBefore' /\ QuestsArePublished'
    BY <1>1 DEF DraftsOfToday, OfToday, StampedBefore, QuestsArePublished, SiteShowsToday,
                DoneIsOnDisk
<1>6. QED
    BY <1>4, <1>5

\* At midnight the rows end; what is under way is caught, and what was stamped is of
\* an earlier day.
LEMMA NewDateKeeps ==
    ASSUME ExportInv, NewDate
    PROVE  ExportInv'
<1> USE DEF ExportInv
<1>1. /\ today' = today + 1 /\ quests' = Nothing /\ alternatives' = Nothing
      /\ overran' = {e \in Exports : stage[e] # "idle"}
      /\ named' = named /\ stage' = stage /\ draft' = draft /\ payload' = payload
      /\ result' = result
    BY DEF NewDate, files
<1>2. ExportTypes'
    BY <1>1, DraftsAre DEF ExportTypes
<1>3. RowsOfToday'
    BY <1>1 DEF RowsOfToday, OfToday
<1>4. DraftsOfToday'
    BY <1>1, DraftsAre DEF DraftsOfToday, OfToday
<1>5. StampedBefore' /\ payload'.day # today'
    BY <1>1 DEF StampedBefore, ExportTypes
<1>6. QuestsArePublished'
    BY <1>1, <1>5 DEF QuestsArePublished, SiteShowsToday, DoneIsOnDisk
<1>7. QED
    BY <1>2, <1>3, <1>4, <1>5, <1>6

\* An export begins with nothing read, but for whether names are loaded.
LEMMA ExportBegins ==
    ASSUME ExportInv, NEW e \in Exports, stage[e] = "idle",
           stage' = [stage EXCEPT ![e] = "quests"],
           draft' = [draft EXCEPT ![e].named = named],
           UNCHANGED <<scannerRows, named, files, exportSeen>>
    PROVE  ExportInv'
<1> USE DEF ExportInv
<1>1. /\ today' = today /\ quests' = quests /\ alternatives' = alternatives
      /\ named' = named /\ payload' = payload
      /\ overran' = overran /\ spoiled' = spoiled /\ result' = result
    BY DEF scannerRows, files, exportSeen
<1>2. /\ draft' \in [Exports -> SomeContent]
      /\ \A f \in Exports : /\ draft'[f].quest = draft[f].quest
                            /\ draft'[f].alternative = draft[f].alternative
                            /\ f # e => draft'[f] = draft[f]
    BY DEF ExportTypes, SomeContent
<1>3. /\ stage' \in [Exports -> {"idle", "quests", "alternatives", "build"}]
      /\ stage'[e] # "idle" /\ \A f \in Exports : f # e => stage'[f] = stage[f]
    BY DEF ExportTypes
<1>4. ExportTypes' /\ RowsOfToday'
    BY <1>1, <1>2, <1>3 DEF ExportTypes, RowsOfToday, OfToday
<1>5. DraftsOfToday'
    BY <1>1, <1>2, <1>3 DEF DraftsOfToday, OfToday
<1>6. StampedBefore' /\ QuestsArePublished'
    BY <1>1 DEF StampedBefore, QuestsArePublished, SiteShowsToday, DoneIsOnDisk
<1>7. QED
    BY <1>4, <1>5, <1>6

\* A read takes the rows of one kind.
LEMMA ReadKeeps ==
    ASSUME ExportInv, NEW e \in Exports, ReadQuests(e) \/ ReadAlternatives(e)
    PROVE  ExportInv'
<1> USE DEF ExportInv
<1>1. /\ today' = today /\ quests' = quests /\ alternatives' = alternatives
      /\ named' = named /\ payload' = payload
      /\ overran' = overran /\ spoiled' = spoiled /\ result' = result
    BY DEF ReadQuests, ReadAlternatives, scannerRows, files, exportSeen
<1>2. /\ stage' \in [Exports -> {"idle", "quests", "alternatives", "build"}]
      /\ stage'[e] # "idle" /\ \A f \in Exports : f # e => stage'[f] = stage[f]
    BY DEF ReadQuests, ReadAlternatives, ExportTypes
<1>3. /\ draft' \in [Exports -> SomeContent]
      /\ \A f \in Exports : f # e => draft'[f] = draft[f]
      /\ draft'[e].quest = quests \/ draft'[e].quest = draft[e].quest
      /\ draft'[e].alternative = alternatives \/ draft'[e].alternative = draft[e].alternative
    BY DEF ReadQuests, ReadAlternatives, ExportTypes, SomeContent
<1>4. ExportTypes' /\ RowsOfToday'
    BY <1>1, <1>2, <1>3 DEF ExportTypes, RowsOfToday, OfToday
<1>5. DraftsOfToday'
    BY <1>1, <1>2, <1>3 DEF DraftsOfToday, RowsOfToday, OfToday
<1>6. StampedBefore' /\ QuestsArePublished'
    BY <1>1 DEF StampedBefore, QuestsArePublished, SiteShowsToday, DoneIsOnDisk
<1>7. QED
    BY <1>4, <1>5, <1>6

\* An export that is over leaves nothing read.
LEMMA DropIs ==
    ASSUME ExportInv, NEW e \in Exports, Drop(e),
           UNCHANGED <<scannerRows, named>>
    PROVE  ExportTypes' /\ RowsOfToday' /\ DraftsOfToday'
<1> USE DEF ExportInv
<1>1. /\ today' = today /\ quests' = quests /\ alternatives' = alternatives
      /\ named' = named /\ overran' = overran \ {e}
    BY DEF Drop, scannerRows
<1>2. /\ stage' \in [Exports -> {"idle", "quests", "alternatives", "build"}]
      /\ \A f \in Exports : f # e => stage'[f] = stage[f]
    BY DEF Drop, ExportTypes
<1>3. /\ draft' \in [Exports -> SomeContent] /\ draft'[e] = Empty
      /\ \A f \in Exports : f # e => draft'[f] = draft[f]
    BY DraftsAre DEF Drop, ExportTypes
<1>4. ExportTypes' /\ RowsOfToday'
    BY <1>1, <1>2, <1>3 DEF ExportTypes, RowsOfToday, OfToday
<1>5. DraftsOfToday'
    BY <1>1, <1>2, <1>3, DraftsAre DEF DraftsOfToday, OfToday
<1>6. QED
    BY <1>4, <1>5

\* Written or skipped, the site has what the export had read, stamped today.
LEMMA ExportDone ==
    ASSUME ExportInv, NEW e \in Exports, Skip(e) \/ \E both \in BOOLEAN : Write(e, both)
    PROVE  ExportInv'
<1> USE DEF ExportInv
<1>1. /\ Finish(e) /\ payload' = [content |-> draft[e], day |-> today]
    BY DEF Skip, Write, Unchanged, PayloadUsable, files
<1>2. /\ Drop(e) /\ UNCHANGED <<scannerRows, named>>
      /\ today' = today /\ spoiled' = (e \in overran)
      /\ result' = [content |-> draft[e], day |-> today]
    BY <1>1 DEF Finish, scannerRows
<1>3. ExportTypes' /\ RowsOfToday' /\ DraftsOfToday'
    BY <1>2, DropIs
<1>4. StampedBefore'
    BY <1>1, <1>2 DEF StampedBefore, ExportTypes
<1>5. SiteShowsToday'
    <2>1. SUFFICES ASSUME e \notin overran
                   PROVE  \A v \in KindsOf(draft[e]) : v.day = today
        BY <1>1, <1>2 DEF SiteShowsToday, KindsOf
    <2>2. OfToday(draft[e].quest) /\ OfToday(draft[e].alternative)
        BY <2>1 DEF DraftsOfToday
    <2>3. QED
        BY <2>2, KindsAre
<1>6. DoneIsOnDisk'
    BY <1>1, <1>2 DEF DoneIsOnDisk
<1>7. QED
    BY <1>3, <1>4, <1>5, <1>6 DEF QuestsArePublished

\* A failed export and a restart leave the files as they are, and nothing read.
LEMMA ExportStops ==
    ASSUME ExportInv, ExportRestart \/ \E e \in Exports : ExportFails(e)
    PROVE  ExportInv'
<1> USE DEF ExportInv
<1>1. /\ today' = today /\ payload' = payload /\ spoiled' = spoiled /\ result' = result
    BY DEF ExportRestart, ExportFails, scannerRows, files
<1>2. ExportTypes' /\ RowsOfToday' /\ DraftsOfToday'
    <2>1. CASE ExportRestart
        <3>1. /\ quests' = quests /\ alternatives' = alternatives /\ named' \in Names
              /\ stage' = [e \in Exports |-> "idle"] /\ draft' = [e \in Exports |-> Empty]
            BY <2>1 DEF ExportRestart, scannerRows
        <3>2. ExportTypes' /\ RowsOfToday'
            BY <1>1, <3>1, DraftsAre DEF ExportTypes, RowsOfToday, OfToday
        <3>3. DraftsOfToday'
            BY <1>1, <3>1, DraftsAre DEF DraftsOfToday, OfToday
        <3>4. QED
            BY <3>2, <3>3
    <2>2. CASE \E e \in Exports : ExportFails(e)
        BY <2>2, DropIs DEF ExportFails
    <2>3. QED
        BY <2>1, <2>2
<1>3. StampedBefore' /\ QuestsArePublished'
    BY <1>1 DEF StampedBefore, QuestsArePublished, SiteShowsToday, DoneIsOnDisk
<1>4. QED
    BY <1>2, <1>3

\* The scheduler's clock and the names are in no one's way.
LEMMA TimePasses ==
    ASSUME ExportInv, Minutes \/ LoadNames \/ UNCHANGED exportVars
    PROVE  ExportInv'
<1>1. /\ today' = today /\ quests' = quests /\ alternatives' = alternatives
      /\ named' \in Names /\ stage' = stage /\ draft' = draft /\ payload' = payload
      /\ overran' = overran /\ spoiled' = spoiled /\ result' = result
    BY DEF Minutes, LoadNames, exportVars, scannerRows, files, exportSeen, Names,
           ExportInv, ExportTypes
<1>2. ExportTypes' /\ RowsOfToday' /\ DraftsOfToday'
    BY <1>1 DEF ExportInv, ExportTypes, RowsOfToday, DraftsOfToday, OfToday
<1>3. StampedBefore' /\ QuestsArePublished'
    BY <1>1 DEF ExportInv, StampedBefore, QuestsArePublished, SiteShowsToday, DoneIsOnDisk
<1>4. QED
    BY <1>2, <1>3 DEF ExportInv

\* Before the first export there is no file.
LEMMA ExportStarts ==
    ASSUME ExportInit
    PROVE  ExportInv
<1>1. ExportTypes
    BY DraftsAre DEF ExportInit, ExportTypes, Names
<1>2. RowsOfToday /\ DraftsOfToday
    BY DraftsAre DEF ExportInit, RowsOfToday, DraftsOfToday, OfToday
<1>3. payload.day = -1 /\ today = 0 /\ result = NoFile
    BY DraftsAre DEF ExportInit
<1>4. StampedBefore /\ QuestsArePublished
    BY <1>3 DEF StampedBefore, QuestsArePublished, SiteShowsToday, DoneIsOnDisk
<1>5. QED
    BY <1>1, <1>2, <1>4 DEF ExportInv

\* Every step of the exporter keeps it.
LEMMA ExportStep ==
    ASSUME ExportInv, [ExportNext]_exportVars
    PROVE  ExportInv'
<1>1. CASE CheckQuestExport
    BY <1>1, ExportBegins, QuestExportAssumption DEF CheckQuestExport
<1>2. CASE \E e \in Exports : ExportNow(e)
    BY <1>2, ExportBegins DEF ExportNow
<1>3. QED
    BY <1>1, <1>2, TimePasses, ScannerScansKeeps, NewDateKeeps, ExportStops, ExportDone,
       ReadKeeps DEF ExportNext

\* QuestExporter: the site shows no quest of an earlier day as today's, unless an export was
\* under way at midnight; and it has what the last export to finish had read.
THEOREM SiteShowsQuests == ExportSpec => []QuestsArePublished
<1>1. ExportInit => ExportInv
    BY ExportStarts
<1>2. ExportInv /\ [ExportNext]_exportVars => ExportInv'
    BY ExportStep
<1>3. ExportInv => QuestsArePublished
    BY DEF ExportInv
<1>4. QED
    BY <1>1, <1>2, <1>3, PTL DEF ExportSpec

HIDE QuestExportAssumption DEF QuestExportAssumption

-------------------------------------------------------------------------------
USE CatalogueAssumption DEF CatalogueAssumption

\* Catalogue.  The versions are numbers, and NotLoaded is none that was published.
CatalogueTypes ==
    /\ upstream \in Nat
    /\ masterfile \in Int /\ ttl \in Nat
    /\ {megasExported, namesSynced, reloaded, cut} \subseteq BOOLEAN
    /\ step \in {"idle", "map", "megas", "sprites", "names", "costumes"}

\* What a tick has done of its pass.
PassGoesOn ==
    /\ step = "map" => reloaded
    /\ step = "sprites" => megas = masterfile
    /\ step = "costumes" => table = masterfile
    /\ reloaded => masterfile # NotLoaded
    /\ reloaded /\ step \notin {"idle", "map"} => names = masterfile
    /\ reloaded /\ step \in {"names", "costumes"} =>
          megas = masterfile /\ sprites = masterfile

\* Outside a pass over a new download everything is of the one that was loaded.
AllOfOne ==
    ~cut /\ (step = "idle" \/ ~reloaded) =>
        /\ names = masterfile
        /\ megasExported /\ masterfile # NotLoaded =>
              megas = masterfile /\ sprites = masterfile
        /\ namesSynced => table = masterfile /\ costumes = masterfile

CatalogueInv == CatalogueTypes /\ PassGoesOn /\ AllOfOne

\* At the start nothing is derived.
LEMMA CatalogueStarts ==
    ASSUME CatalogueInit
    PROVE  CatalogueInv
<1>1. /\ upstream = 0 /\ masterfile \in Int /\ ttl \in Nat /\ names = masterfile
      /\ step = "idle" /\ reloaded = FALSE /\ cut = FALSE
      /\ megasExported = FALSE /\ namesSynced = FALSE
    BY DEF CatalogueInit, NotLoaded
<1>2. QED
    BY <1>1 DEF CatalogueInv, CatalogueTypes, PassGoesOn, AllOfOne

\* A download makes a pass over everything begin; without one the tick tries again what
\* is still to be done.
LEMMA LoadMasterfileKeeps ==
    ASSUME CatalogueInv, NEW comes \in BOOLEAN, LoadMasterfile(comes)
    PROVE  CatalogueInv'
<1> USE DEF CatalogueInv
<1>1. /\ upstream' = upstream /\ names' = names /\ megas' = megas /\ sprites' = sprites
      /\ table' = table /\ costumes' = costumes
      /\ megasExported' = megasExported /\ namesSynced' = namesSynced /\ cut' = cut
      /\ step = "idle" /\ step' = IF reloaded' THEN "map" ELSE "megas"
    BY DEF LoadMasterfile, outputs, flags
<1>2. CASE reloaded' = TRUE /\ masterfile' = upstream /\ ttl' = Life
    <2>1. masterfile' \in Int /\ masterfile' # NotLoaded
        BY <1>2 DEF CatalogueTypes, NotLoaded
    <2>2. CatalogueTypes'
        BY <1>1, <1>2, <2>1 DEF CatalogueTypes
    <2>3. PassGoesOn' /\ AllOfOne'
        BY <1>1, <1>2, <2>1 DEF PassGoesOn, AllOfOne, NotLoaded
    <2>4. QED
        BY <2>2, <2>3
<1>3. CASE reloaded' = FALSE /\ masterfile' = masterfile /\ ttl' \in Nat
    <2>1. CatalogueTypes'
        BY <1>1, <1>3 DEF CatalogueTypes
    <2>2. PassGoesOn' /\ AllOfOne'
        BY <1>1, <1>3 DEF PassGoesOn, AllOfOne
    <2>3. QED
        BY <2>1, <2>2
<1>4. ttl > 0 => ttl - 1 \in Nat
    BY DEF CatalogueTypes
<1>5. QED
    BY <1>2, <1>3, <1>4 DEF LoadMasterfile, CatalogueTypes

\* A step of the pass leaves what it derives of the version that is loaded.
LEMMA PassKeeps ==
    ASSUME CatalogueInv,
           GenerateNameMap \/ ExportMegas \/ FetchSprites \/ SyncNames \/ SyncCostumes
    PROVE  CatalogueInv'
<1> USE DEF CatalogueInv, CatalogueTypes, PassGoesOn, AllOfOne, outputs, flags
<1>1. CASE GenerateNameMap
    BY <1>1 DEF GenerateNameMap
<1>2. CASE ExportMegas
    BY <1>2 DEF ExportMegas
<1>3. CASE FetchSprites
    BY <1>3 DEF FetchSprites
<1>4. CASE SyncNames
    BY <1>4 DEF SyncNames, Synced
<1>5. CASE SyncCostumes
    BY <1>5 DEF SyncCostumes, Synced
<1>6. QED
    BY <1>1, <1>2, <1>3, <1>4, <1>5

\* A pass over a download that is cut short is remembered as such, by the observer.
LEMMA TickRaisesKeeps ==
    ASSUME CatalogueInv, TickRaises
    PROVE  CatalogueInv'
BY DEF TickRaises, CatalogueInv, CatalogueTypes, PassGoesOn, AllOfOne, outputs, flags

\* A new process has derived nothing, of whichever masterfile it finds.
LEMMA CatalogueRestartKeeps ==
    ASSUME CatalogueInv, NEW comes \in BOOLEAN, CatalogueRestart(comes)
    PROVE  CatalogueInv'
<1>1. /\ masterfile' \in Int /\ names' = masterfile' /\ ttl' \in Nat
      /\ upstream' = upstream /\ upstream \in Nat
      /\ megas' = megas /\ sprites' = sprites /\ table' = table /\ costumes' = costumes
      /\ step' = "idle" /\ reloaded' = FALSE /\ cut' = FALSE
      /\ megasExported' = FALSE /\ namesSynced' = FALSE
    BY DEF CatalogueRestart, CatalogueInv, CatalogueTypes, NotLoaded
<1>2. QED
    BY <1>1 DEF CatalogueInv, CatalogueTypes, PassGoesOn, AllOfOne

\* Every step of the catalogue keeps its invariant.
LEMMA CatalogueStep ==
    ASSUME CatalogueInv, [CatalogueNext]_catalogueVars
    PROVE  CatalogueInv'
<1>1. CASE Publish
    BY <1>1 DEF Publish, CatalogueInv, CatalogueTypes, PassGoesOn, AllOfOne, outputs, flags
<1>2. CASE UNCHANGED catalogueVars
    BY <1>2 DEF catalogueVars, CatalogueInv, CatalogueTypes, PassGoesOn, AllOfOne, outputs,
                flags
<1>3. QED
    BY <1>1, <1>2, LoadMasterfileKeeps, PassKeeps, TickRaisesKeeps, CatalogueRestartKeeps
    DEF CatalogueNext, TickStep

\* Scheduled._refresh_masterfile_data: what is derived from the masterfile is of the one
\* that is loaded, unless the pass over it was cut short.
THEOREM DerivedTogether == CatalogueSpec => []DerivedIsOfOne
<1>1. CatalogueInit => CatalogueInv
    BY CatalogueStarts
<1>2. CatalogueInv /\ [CatalogueNext]_catalogueVars => CatalogueInv'
    BY CatalogueStep
<1>3. CatalogueInv => DerivedIsOfOne
    BY DEF CatalogueInv, AllOfOne, DerivedIsOfOne
<1>4. QED
    BY <1>1, <1>2, <1>3, PTL DEF CatalogueSpec

HIDE CatalogueAssumption DEF CatalogueAssumption

-------------------------------------------------------------------------------
\* The jobs share nothing: a step is one of a job's own, and the others stand still.
LEMMA ServicesStep ==
    ASSUME [ServicesNext]_servicesVars
    PROVE  /\ [DeviceNext]_deviceVars /\ [ChannelNext]_channelVars
           /\ [PhoneNext]_phoneVars /\ [AnswersNext]_answerVars
           /\ [ExportNext]_exportVars /\ [CatalogueNext]_catalogueVars
BY DEF ServicesNext, servicesVars

\* Each job has its own initial state.
LEMMA ServicesStart ==
    ASSUME ServicesInit
    PROVE  DeviceInv /\ ChannelInv /\ PhoneInv /\ AnswersInv /\ ExportInv /\ CatalogueInv
BY DeviceStarts, ChannelStarts, PhoneStarts, AnswersStart, ExportStarts, CatalogueStarts
   DEF ServicesInit

\* DeviceManager and ScannerStatus: the moderators know how the phone is, the channel's name
\* says how the workers are, and no restart that answered that it worked left an app stopped.
THEOREM ScannerStaysWatched == ServicesFairSpec => []ScannerIsWatched
<1>1. ServicesInit => DeviceInv /\ ChannelInv /\ PhoneInv
    BY ServicesStart
<1>2. DeviceInv /\ ChannelInv /\ PhoneInv /\ [ServicesNext]_servicesVars =>
          DeviceInv' /\ ChannelInv' /\ PhoneInv'
    BY ServicesStep, DeviceStep, ChannelStep, PhoneStep
<1>3. DeviceInv /\ ChannelInv /\ PhoneInv => ScannerIsWatched
    BY ChannelPromise, PhonePromise DEF DeviceInv, PhoneIsFollowed, ScannerIsWatched
<1>4. QED
    BY <1>1, <1>2, <1>3, PTL DEF ServicesFairSpec

\* QuestSearch, QuestExporter and the masterfile: what is answered, shown and derived is of
\* today and of one version.
THEOREM QuestsStayRight == ServicesFairSpec => []QuestsAreRight
<1>1. ServicesInit => AnswersInv /\ ExportInv /\ CatalogueInv
    BY ServicesStart
<1>2. AnswersInv /\ ExportInv /\ CatalogueInv /\ [ServicesNext]_servicesVars =>
          AnswersInv' /\ ExportInv' /\ CatalogueInv'
    BY ServicesStep, AnswersStep, ExportStep, CatalogueStep
<1>3. AnswersInv /\ ExportInv /\ CatalogueInv => QuestsAreRight
    BY DEF AnswersInv, AnswersAreCurrent, ExportInv, CatalogueInv, AllOfOne,
           DerivedIsOfOne, QuestsAreRight
<1>4. QED
    BY <1>1, <1>2, <1>3, PTL DEF ServicesFairSpec
===============================================================================
