----------------------------- MODULE Membership -----------------------------
(***************************************************************************)
(* Who still belongs to the server, as trade_player.left_at tells the site *)
(* (cogs/pokedex.py, modules/trade_player_store.py). Members' comings and  *)
(* goings are written as Discord reports them, `!pokedex` clears the mark  *)
(* after the awaits that deliver a code, and on_ready aligns every row     *)
(* with a snapshot of the member cache, row by row. All the statements     *)
(* queue for one connection.                                               *)
(***************************************************************************)
EXTENDS Naturals, Sequences, FiniteSets

CONSTANTS
    Folk,        \* Discord users
    MaxMoves,    \* bound: times somebody joins, leaves or asks for a code
    MaxStumbles  \* bound: restarts and statements that fail

ASSUME MembershipAssumption == MaxMoves \in Nat /\ MaxStumbles \in Nat

NoPass == "idle"

VARIABLES
    inGuild,     \* who is a member; the cache agrees once it has come
    up,          \* the bot is connected
    cached,      \* its guilds have come, with their members; before, it hears of none
    mark,        \* mark[p]: p's row: "none", "here" or "left" (left_at set)
    sql,         \* statements waiting for the connection: [do, who]
    coding,      \* players whose `!pokedex` passed the check and is sending the code
    pass,        \* reconcile's step: NoPass, "reading" or "writing"
    memberIds,   \* member_ids of the running reconcile
    amiss,       \* rows it found to be wrong and has not written
    moves, stumbles,
    excused,     \* observation: rows the bot had no way to keep true so far
    mending      \* observation: the excused rows the running reconcile mends

passing  == <<pass, memberIds, amiss>>
memberVars ==
    <<inGuild, up, cached, mark, sql, coding, passing, moves, stumbles, excused, mending>>

MembershipTypeOK ==
    /\ inGuild \subseteq Folk /\ {up, cached} \subseteq BOOLEAN
    /\ mark \in [Folk -> {"none", "here", "left"}]
    /\ sql \in Seq([do : {"leave", "join", "code", "read", "correct"},
                    who : SUBSET Folk])
    /\ coding \subseteq Folk
    /\ pass \in {NoPass, "reading", "writing"}
    /\ memberIds \subseteq Folk /\ amiss \subseteq Folk
    /\ moves \in 0..MaxMoves /\ stumbles \in 0..MaxStumbles
    /\ excused \subseteq Folk /\ mending \subseteq excused

MembershipInit ==
    /\ inGuild \in SUBSET Folk /\ up = TRUE /\ cached = TRUE
    /\ mark = [p \in Folk |-> "none"] /\ sql = <<>> /\ coding = {}
    /\ pass = NoPass /\ memberIds = {} /\ amiss = {} /\ moves = 0 /\ stumbles = 0
    /\ excused = {} /\ mending = {}

Stumble == stumbles < MaxStumbles /\ stumbles' = stumbles + 1
Enqueue(do, who) == sql' = Append(sql, [do |-> do, who |-> who])
Excuse(who) == excused' = excused \union who /\ mending' = mending \ who

-----------------------------------------------------------------------------
\* on_member_remove and on_member_join; a change while the bot is down, or knows no
\* guild, is not heard.
MemberMoves(p) ==
    /\ moves < MaxMoves /\ moves' = moves + 1
    /\ inGuild' = IF p \in inGuild THEN inGuild \ {p} ELSE inGuild \union {p}
    /\ IF cached THEN Enqueue(IF p \in inGuild THEN "leave" ELSE "join", {p})
                      /\ UNCHANGED <<excused, mending>>
                 ELSE Excuse({p}) /\ UNCHANGED sql
    /\ UNCHANGED <<up, cached, mark, coding, passing, stumbles>>

\* `!pokedex`: a member's, in the server or by DM. While the cache is empty,
\* is_member lets anybody's DM pass.
AskForCode(p) ==
    /\ up /\ p \notin coding /\ coding' = coding \union {p}
    /\ p \in inGuild \/ ~cached
    /\ moves < MaxMoves /\ moves' = moves + 1
    /\ UNCHANGED <<inGuild, up, cached, mark, sql, passing, stumbles, excused, mending>>

\* The code was sent, and the row is written; or the DMs are closed.
CodeIsSent(p) ==
    /\ p \in coding /\ coding' = coding \ {p}
    /\ Enqueue("code", {p}) \/ UNCHANGED sql
    /\ UNCHANGED <<inGuild, up, cached, mark, passing, moves, stumbles, excused, mending>>

-----------------------------------------------------------------------------
\* What a statement makes of p's row.
Written(do, p) ==
    IF do = "code" THEN "here"
    ELSE IF mark[p] = "none" THEN "none"
    ELSE IF do = "correct" THEN IF p \in memberIds THEN "here" ELSE "left"
    ELSE IF do = "leave" THEN "left" ELSE "here"

IsTrue(p, m) == m # "none" => (m = "here" <=> p \in inGuild)

\* reconcile reads every row once; mutant: it only looks for those who left.
WrongGone == {p \in Folk : mark[p] = "here" /\ p \notin memberIds}
Wrong == {p \in Folk : mark[p] # "none" /\ (mark[p] = "here") # (p \in memberIds)}

\* The next correction, or the end: what was to be mended is.
Proceed(rest) ==
    IF rest = {}
    THEN /\ pass' = NoPass /\ amiss' = {} /\ memberIds' = {} /\ sql' = Tail(sql)
    ELSE \E p \in rest :
            /\ pass' = "writing" /\ amiss' = rest \ {p} /\ UNCHANGED memberIds
            /\ sql' = Append(Tail(sql), [do |-> "correct", who |-> {p}])

ReadRows ==
    /\ sql # <<>> /\ Head(sql).do = "read" /\ Proceed(Wrong)
    /\ IF Wrong = {} THEN excused' = excused \ mending /\ mending' = {}
                     ELSE UNCHANGED <<excused, mending>>
    /\ UNCHANGED <<inGuild, up, cached, mark, coding, moves, stumbles>>

\* An event about p still waits for the connection.
HeardLater(p) ==
    \E i \in 2..Len(sql) : sql[i].do \in {"leave", "join"} /\ p \in sql[i].who

\* A statement about one row runs. It may come late: the member came or went since the
\* snapshot or the check, and no event in the line will put the row right.
WriteRow ==
    /\ sql # <<>> /\ Head(sql).do # "read"
    /\ LET run == Head(sql)
           p   == CHOOSE x \in Folk : x \in run.who
           own == run.do = "correct"
           late == IF own THEN (p \in memberIds) # (p \in inGuild)
                          ELSE run.do = "code" /\ p \notin inGuild
           end == own /\ amiss = {}
           bad == IF late /\ ~HeardLater(p) THEN {p} ELSE {}
           stale == excused \union bad
       IN  /\ mark' = [mark EXCEPT ![p] = Written(run.do, p)]
           /\ IF own THEN Proceed(amiss) ELSE sql' = Tail(sql) /\ UNCHANGED passing
           /\ excused' = IF end THEN stale \ (mending \ bad) ELSE stale
           /\ mending' = IF end THEN {} ELSE mending \ bad
    /\ UNCHANGED <<inGuild, up, cached, coding, moves, stumbles>>

\* A statement fails: an event's change is lost, a reconcile stops where it is.
StatementFails ==
    /\ sql # <<>> /\ Stumble /\ sql' = Tail(sql)
    /\ IF Head(sql).do \in {"read", "correct"}
       THEN /\ pass' = NoPass /\ memberIds' = {} /\ amiss' = {}
            /\ excused' = excused /\ mending' = {}
       ELSE Excuse(Head(sql).who) /\ UNCHANGED passing
    /\ UNCHANGED <<inGuild, up, cached, mark, coding, moves>>

-----------------------------------------------------------------------------
\* The process dies: what waits is lost with it.
GoesDown ==
    /\ up /\ Stumble /\ up' = FALSE /\ cached' = FALSE
    /\ sql' = <<>> /\ coding' = {} /\ pass' = NoPass /\ memberIds' = {} /\ amiss' = {}
    /\ excused' = excused \union UNION {sql[i].who : i \in DOMAIN sql}
    /\ mending' = {}
    /\ UNCHANGED <<inGuild, mark, moves>>

\* A new process is connected, and has not been given its guilds.
Connects ==
    /\ ~up /\ up' = TRUE
    /\ UNCHANGED <<inGuild, cached, mark, sql, coding, passing, moves, stumbles, excused,
                   mending>>

\* on_ready: the members as they are now are the snapshot, and the rows are asked for.
OnReady ==
    /\ up /\ ~cached /\ cached' = TRUE
    /\ pass' = "reading" /\ memberIds' = inGuild /\ amiss' = {}
    /\ mending' = excused /\ Enqueue("read", {})
    /\ UNCHANGED <<inGuild, up, mark, coding, moves, stumbles, excused>>

\* An on_ready that found the cache empty did nothing, and the guilds came after it.
CacheFills ==
    /\ up /\ ~cached /\ cached' = TRUE
    /\ UNCHANGED <<inGuild, up, mark, sql, coding, passing, moves, stumbles, excused,
                   mending>>

MembershipNext ==
    \/ \E p \in Folk : MemberMoves(p) \/ AskForCode(p) \/ CodeIsSent(p)
    \/ ReadRows \/ WriteRow \/ StatementFails
    \/ GoesDown \/ Connects \/ OnReady \/ CacheFills

MembershipSpec == MembershipInit /\ [][MembershipNext]_memberVars

-----------------------------------------------------------------------------
\* With nothing under way, the site knows who left: a row disagrees with the server
\* only where the bot was down or had no guilds, a statement failed, or the last write of the
\* row went by a snapshot, or a check, that was not true of its player any more, or never
\* was - and the next reconcile that runs to its end mends those.
MarksAreKept ==
    up /\ sql = <<>> /\ pass = NoPass /\ coding = {} =>
        \A p \in Folk \ excused : IsTrue(p, mark[p])
=============================================================================
