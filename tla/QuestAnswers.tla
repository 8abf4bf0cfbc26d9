----------------------------- MODULE QuestAnswers -----------------------------
(***************************************************************************)
(* What !quest and the summary of the tracked rewards answer               *)
(* (modules/quest_search.py, cogs/quests.py, cogs/scheduled.py). A stop    *)
(* gives a normal and an alternative quest, and the rows of each are kept  *)
(* in memory for CacheLife and for the Lisbon day they were stamped on,    *)
(* after which the next search reads the scanner's database again. Quests  *)
(* end at midnight. Searches are coroutines that share the two caches.     *)
(*                                                                         *)
(* Ages are in units that no search outlasts; CacheLife is an hour.        *)
(***************************************************************************)
EXTENDS Integers

CONSTANTS
    Stops,
    Searches,   \* coroutines that search: a user's !quest, the tick's summary
    CacheLife,
    LastDay     \* bound: days modelled, from 0

ASSUME QuestAnswersAssumption == CacheLife \in Nat \ {0} /\ LastDay \in Nat

Kinds == {"quest", "alternative"}
Absent == -1
Idle == <<"none", "idle">>
Answering == <<"none", "answer">>
NoRows == [stops |-> {}, day |-> Absent]
NoCache == [rows |-> NoRows, day |-> Absent, old |-> CacheLife]

VARIABLES
    day,      \* the Lisbon day
    since,    \* how long the scanner has had each quest, up to CacheLife; or Absent
    kept,     \* quest_data and alternative_quest_data
    phase,    \* where each search is
    found,    \* the rows it has
    ghosts,   \* observation: an answer held a quest that had ended
    gaps      \* observation: an answer missed a quest known for CacheLife

answerVars == <<day, since, kept, phase, found, ghosts, gaps>>

Rows == [stops: SUBSET Stops, day: Absent..LastDay]

AnswersTypeOK ==
    /\ day \in 0..LastDay
    /\ since \in [Kinds -> [Stops -> Absent..CacheLife]]
    /\ kept \in [Kinds -> [rows: Rows, day: Absent..LastDay, old: 0..CacheLife]]
    /\ phase \in [Searches -> {Idle, Answering} \union (Kinds \X {"read", "keep"})]
    /\ found \in [Searches -> [Kinds -> Rows]]
    /\ {ghosts, gaps} \subseteq BOOLEAN

AnswersInit ==
    /\ day = 0
    /\ since = [k \in Kinds |-> [s \in Stops |-> Absent]]
    /\ kept = [k \in Kinds |-> NoCache]
    /\ phase = [c \in Searches |-> Idle]
    /\ found = [c \in Searches |-> [k \in Kinds |-> NoRows]]
    /\ ghosts = FALSE /\ gaps = FALSE

-------------------------------------------------------------------------------
ScanStop(k, s) ==
    /\ since[k][s] = Absent
    /\ since' = [since EXCEPT ![k][s] = 0]
    /\ UNCHANGED <<day, kept, phase, found, ghosts, gaps>>

\* Every quest ends; a search may be between two of its reads.
DayChanges ==
    /\ day < LastDay /\ day' = day + 1
    /\ since' = [k \in Kinds |-> [s \in Stops |-> Absent]]
    /\ UNCHANGED <<kept, phase, found, ghosts, gaps>>

Aged(age) == IF age \in {Absent, CacheLife} THEN age ELSE age + 1

TimeGoesBy ==
    /\ \A c \in Searches : phase[c] = Idle
    /\ since' = [k \in Kinds |-> [s \in Stops |-> Aged(since[k][s])]]
    /\ kept' = [k \in Kinds |-> [kept[k] EXCEPT !.old = Aged(@)]]
    /\ UNCHANGED <<day, phase, found, ghosts, gaps>>

-------------------------------------------------------------------------------
\* _filter_live_rows: the rows that have not ended.
Live(rows) == IF rows.day = day THEN rows ELSE NoRows

\* _cache_usable.
Usable(cache) == cache.old < CacheLife /\ cache.day = day

After(k) == IF k = "quest" THEN <<"alternative", "read">> ELSE Answering

Search(c) ==
    /\ phase[c] = Idle
    /\ phase' = [phase EXCEPT ![c] = <<"quest", "read">>]
    /\ UNCHANGED <<day, since, kept, found, ghosts, gaps>>

\* get_quest_data and get_alternative_quest_data.
UseCache(c, k) ==
    /\ phase[c] = <<k, "read">> /\ Usable(kept[k])
    /\ found' = [found EXCEPT ![c][k] = Live(kept[k].rows)]
    /\ phase' = [phase EXCEPT ![c] = After(k)]
    /\ UNCHANGED <<day, since, kept, ghosts, gaps>>

Query(c, k) ==
    /\ phase[c] = <<k, "read">> /\ ~Usable(kept[k])
    /\ found' = [found EXCEPT ![c][k] =
           [stops |-> {s \in Stops : since[k][s] # Absent}, day |-> day]]
    /\ phase' = [phase EXCEPT ![c] = <<k, "keep">>]
    /\ UNCHANGED <<day, since, kept, ghosts, gaps>>

KeepRows(c, k) ==
    /\ phase[c] = <<k, "keep">>
    /\ found' = [found EXCEPT ![c][k] = Live(found[c][k])]
    /\ kept' = [kept EXCEPT ![k] = [rows |-> Live(found[c][k]), day |-> day, old |-> 0]]
    /\ phase' = [phase EXCEPT ![c] = After(k)]
    /\ UNCHANGED <<day, since, ghosts, gaps>>

Rest(c) ==
    /\ phase' = [phase EXCEPT ![c] = Idle]
    /\ found' = [found EXCEPT ![c] = [k \in Kinds |-> NoRows]]

QueryFails(c, k) ==
    /\ phase[c] = <<k, "read">> /\ ~Usable(kept[k])
    /\ Rest(c)
    /\ UNCHANGED <<day, since, kept, ghosts, gaps>>

\* is_quest_relevant looks at the end of each row once more.
Relevant(rows) == Live(rows).stops

\* find_quest_by_search_keyword.
Found(c) ==
    /\ phase[c] = Answering
    /\ ghosts' = (ghosts \/ \E k \in Kinds : \E s \in Relevant(found[c][k]) :
                                since[k][s] = Absent)
    /\ gaps' = (gaps \/ \E k \in Kinds : \E s \in Stops \ Relevant(found[c][k]) :
                            since[k][s] = CacheLife)
    /\ UNCHANGED <<day, since, kept>>

Answer(c) == Found(c) /\ Rest(c)

\* check_tracked: one search after another, for every tracked reward and area.
CheckTracked(c) ==
    /\ Found(c)
    /\ phase' = [phase EXCEPT ![c] = <<"quest", "read">>]
    /\ found' = [found EXCEPT ![c] = [k \in Kinds |-> NoRows]]

AnswersRestart ==
    /\ kept' = [k \in Kinds |-> NoCache]
    /\ phase' = [c \in Searches |-> Idle]
    /\ found' = [c \in Searches |-> [k \in Kinds |-> NoRows]]
    /\ UNCHANGED <<day, since, ghosts, gaps>>

AnswersNext ==
    \/ DayChanges \/ TimeGoesBy \/ AnswersRestart
    \/ \E k \in Kinds, s \in Stops : ScanStop(k, s)
    \/ \E c \in Searches :
           \/ Search(c) \/ Answer(c) \/ CheckTracked(c)
           \/ \E k \in Kinds : UseCache(c, k) \/ Query(c, k) \/ KeepRows(c, k)
                               \/ QueryFails(c, k)

AnswersSpec == AnswersInit /\ [][AnswersNext]_answerVars

-------------------------------------------------------------------------------
\* No answer holds a quest that has ended, though a search crosses midnight
\* between its reads and its caches are shared, and none misses a quest that the
\* scanner has had for an hour.
AnswersAreCurrent == ~ghosts /\ ~gaps

=============================================================================
