----------------------------- MODULE PoracleRules -----------------------------
(* The !notify commands (cogs/notifications.py) over the channels and rules of   *)
(* Poracle (modules/poracle_client.py): each command goes through its targets    *)
(* one call at a time, two admins may be at it at once, and Poracle alerts on    *)
(* the rules it read when it was last reloaded. A call is done, refused, or done *)
(* with its answer lost. A rule is a Pokémon for a channel: its filters, names   *)
(* and the wording of the replies are left out.                                  *)
EXTENDS Naturals, Sequences, FiniteSets, SequencesExt

CONSTANTS
    Admins,
    Channels,      \* Discord channels Poracle may know
    Pokemon,
    MaxRules,      \* bound: uids given out
    MaxOrders,     \* bound: commands given
    MaxSlips       \* bound: refused calls, lost answers, database errors, restarts

ASSUME PoracleAssumption ==
    /\ IsFiniteSet(Channels) /\ IsFiniteSet(Pokemon)
    /\ {MaxRules, MaxOrders, MaxSlips} \subseteq Nat

AnyPokemon == "any"

\* What a command works through: a rule (with its uid), a rule to be made (uid 0),
\* or a channel as a whole.
Item == [uid : 0..MaxRules, pokemon : Pokemon \union {AnyPokemon}, channel : Channels]
Alert(r) == <<r.pokemon, r.channel>>

Reloading == {"add", "remove", "uid", "enable", "disable"}
Idling == [op |-> "none", phase |-> "idle", todo |-> <<>>, done |-> {}, kept |-> {},
           failed |-> {}]

VARIABLES
    humans,     \* Poracle's database: each channel unknown, stopped or active
    tracked,      \* its rules
    uids,       \* uids given out
    alerting,     \* what the running Poracle alerts on
    cmd,        \* the command each admin has under way
    orders, slipups,
    alone,      \* observation: no other command was under way during this one
    crowded,    \* observation: two add commands were under way at once
    unloaded    \* observation: a change landed and its command ended unreloaded

database   == <<humans, tracked, uids>>
ruleStore == <<humans, tracked, uids, alerting>>
ruleVars  == <<ruleStore, cmd, orders, slipups, alone, crowded, unloaded>>

RulesTypeOK ==
    /\ humans \in [Channels -> {"unknown", "stopped", "active"}]
    /\ tracked \subseteq Item /\ uids \in 0..MaxRules
    /\ alerting \subseteq Pokemon \X Channels
    /\ \A a \in Admins :
        /\ cmd[a].op \in Reloading \union {"none", "register", "list", "test"}
        /\ cmd[a].phase \in {"idle", "lookup", "check", "call", "start", "reload",
                             "reply"}
        /\ cmd[a].todo \in Seq(Item)
        /\ cmd[a].done \union cmd[a].kept \union cmd[a].failed \subseteq Item
    /\ orders \in 0..MaxOrders /\ slipups \in 0..MaxSlips
    /\ alone \in [Admins -> BOOLEAN] /\ {crowded, unloaded} \subseteq BOOLEAN

RulesInit ==
    /\ humans \in [Channels -> {"unknown", "active"}]
    /\ tracked = {} /\ uids = 0 /\ alerting = {}
    /\ cmd = [a \in Admins |-> Idling] /\ orders = 0 /\ slipups = 0
    /\ alone = [a \in Admins |-> TRUE] /\ crowded = FALSE /\ unloaded = FALSE

-----------------------------------------------------------------------------
\* The channels a reference stands for: one, or those of a category in every area.
Targets(cs) == {c \in cs : humans[c] # "unknown"}

ForRules(cs, ps) == {[uid |-> 0, pokemon |-> p, channel |-> c] : p \in ps, c \in cs}
ForChannels(cs)  == ForRules(cs, {AnyPokemon})

Busy(a) == cmd[a].phase # "idle"

Order(a, op, phase, items) ==
    /\ ~Busy(a) /\ orders < MaxOrders /\ items # {}
    /\ orders' = orders + 1
    /\ cmd' = [cmd EXCEPT ![a] = [Idling EXCEPT !.op = op, !.phase = phase,
                                                !.todo = SetToSeq(items)]]
    /\ alone' = [b \in Admins |-> IF b = a THEN \A o \in Admins : ~Busy(o)
                                  ELSE alone[b] /\ ~Busy(b)]
    /\ crowded' = (crowded \/ (op = "add" /\ \E b \in Admins : cmd[b].op = "add"))
    /\ UNCHANGED <<ruleStore, slipups, unloaded>>

AddCmd(a, cs, ps)   == Order(a, "add", "check", ForRules(Targets(cs), ps))
RemoveByName(a, cs, ps) == Order(a, "remove", "lookup", ForRules(Targets(cs), ps))
Toggle(a, op, cs)   == Order(a, op, "call", ForChannels(Targets(cs)))
ListCmd(a, cs)      == Order(a, "list", "call", ForChannels(Targets(cs)))
TestCmd(a, cs)      == Order(a, "test", "call", ForChannels(Targets(cs)))
RemoveByUid(a, r)   == Order(a, "uid", "lookup", {r})

\* get_human takes an error for an unknown channel: the POST then meets a conflict.
RegisterCmd(a, c) == Order(a, "register", "call", ForChannels({c}))

-----------------------------------------------------------------------------
Set(a, c) == cmd' = [cmd EXCEPT ![a] = c]

\* The command `c` with its first item dealt with.
Dealt(c) ==
    LET rest == Tail(c.todo) IN
    [c EXCEPT
        !.todo = rest,
        !.phase = IF rest # <<>> THEN IF c.op = "add" THEN "check" ELSE "call"
                  ELSE IF c.op \in Reloading /\ c.done # {} THEN "reload" ELSE "reply"]

\* _request: a call that does nothing, or whose answer is lost, raises PoracleError.
Outcome(possible) ==
    {o \in {"ok", "refused", "lost"} : o = "refused" \/ possible}
Pays(o, possible) ==
    IF o = "ok" \/ ~possible THEN UNCHANGED slipups
    ELSE slipups < MaxSlips /\ slipups' = slipups + 1

Answered(a, o, results) ==
    LET c == cmd[a]  item == Head(c.todo) IN
    Set(a, Dealt(IF o = "ok" THEN [c EXCEPT !.done = @ \union results]
                 ELSE [c EXCEPT !.failed = @ \union {item}]))

\* An answer that is lost leaves a change its command does not know of.
Landed(o) == unloaded' = (unloaded \/ o = "lost")
Keep      == UNCHANGED <<orders, alone, crowded>>

Matching(item) == {r \in tracked : Alert(r) = Alert(item)}

\* Mutant of CheckRule: the rule is posted whether it exists or not.
CheckRule_Not(a) ==
    /\ cmd[a].op = "add" /\ cmd[a].phase = "check"
    /\ Set(a, [cmd[a] EXCEPT !.phase = "call"])
    /\ UNCHANGED <<ruleStore, slipups, unloaded>> /\ Keep

\* _rule_exists: the rule is not posted again.
CheckRule(a) ==
    LET c == cmd[a]  item == Head(c.todo) IN
    /\ c.op = "add" /\ c.phase = "check"
    /\ IF Matching(item) # {}
       THEN Set(a, Dealt([c EXCEPT !.kept = @ \union {item}]))
       ELSE Set(a, [c EXCEPT !.phase = "call"])
    /\ UNCHANGED <<ruleStore, slipups, unloaded>> /\ Keep

PostRule(a) ==
    LET item == Head(cmd[a].todo) IN
    /\ cmd[a].op = "add" /\ cmd[a].phase = "call" /\ uids < MaxRules
    /\ \E o \in Outcome(TRUE) :
        /\ Pays(o, TRUE) /\ Answered(a, o, {item}) /\ Landed(o)
        /\ tracked' = IF o = "refused" THEN tracked
                    ELSE tracked \union {[item EXCEPT !.uid = uids + 1]}
        /\ uids' = IF o = "refused" THEN uids ELSE uids + 1
    /\ UNCHANGED <<humans, alerting>> /\ Keep

\* One query for all the targets; by uid, the rule the admin named.
Lookup(a) ==
    LET c == cmd[a]
        found == IF c.op = "uid" THEN tracked \intersect Range(c.todo)
                 ELSE UNION {Matching(c.todo[i]) : i \in DOMAIN c.todo}
    IN  /\ c.phase = "lookup"
        /\ Set(a, [c EXCEPT !.todo = SetToSeq(found), !.kept = Range(c.todo),
                            !.phase = IF found = {} THEN "reply" ELSE "call"])
        /\ UNCHANGED <<ruleStore, slipups, unloaded>> /\ Keep

\* A rule another command deleted since answers 404.
DeleteRule(a) ==
    LET item == Head(cmd[a].todo)  there == item \in tracked IN
    /\ cmd[a].op \in {"remove", "uid"} /\ cmd[a].phase = "call"
    /\ \E o \in Outcome(there) :
        /\ Pays(o, there) /\ Answered(a, o, {item}) /\ Landed(o)
        /\ tracked' = IF o = "refused" THEN tracked ELSE tracked \ {item}
    /\ UNCHANGED <<humans, uids, alerting>> /\ Keep

StartOrStop(a) ==
    LET c == cmd[a]  item == Head(c.todo) IN
    /\ c.op \in {"enable", "disable"} /\ c.phase = "call"
    /\ \E o \in Outcome(TRUE) :
        /\ Pays(o, TRUE) /\ Answered(a, o, {item}) /\ Landed(o)
        /\ humans' = IF o = "refused" THEN humans
                     ELSE [humans EXCEPT ![item.channel] =
                              IF c.op = "enable" THEN "active" ELSE "stopped"]
    /\ UNCHANGED <<tracked, uids, alerting>> /\ Keep

\* A channel Poracle knows is not created again; what stopped it is not undone.
CreateChannel(a) ==
    LET c == cmd[a]  ch == Head(c.todo).channel  new == humans[ch] = "unknown" IN
    /\ c.op = "register" /\ c.phase = "call"
    /\ \E o \in Outcome(new) :
        /\ Pays(o, new)
        /\ Set(a, IF o = "ok" THEN [c EXCEPT !.phase = "start"]
                  ELSE [c EXCEPT !.phase = "reply", !.failed = {Head(c.todo)}])
        /\ humans' = IF o = "refused" THEN humans ELSE [humans EXCEPT ![ch] = "active"]
    /\ UNCHANGED <<tracked, uids, alerting, unloaded>> /\ Keep

\* No reload follows: a channel disabled since it was created is active again.
StartChannel(a) ==
    LET c == cmd[a]  item == Head(c.todo) IN
    /\ c.phase = "start"
    /\ \E o \in Outcome(TRUE) :
        /\ Pays(o, TRUE) /\ Answered(a, o, {item})
        /\ unloaded' = (unloaded \/ (o # "refused" /\ humans[item.channel] = "stopped"))
        /\ humans' = IF o = "refused" THEN humans
                     ELSE [humans EXCEPT ![item.channel] = "active"]
    /\ UNCHANGED <<tracked, uids, alerting>> /\ Keep

\* One request for each channel; the rules of paired channels are shown merged.
ListPerChannel(a) ==
    LET item == Head(cmd[a].todo) IN
    /\ cmd[a].op = "list" /\ cmd[a].phase = "call"
    /\ \E o \in {"ok", "refused"} :
        /\ Pays(o, TRUE)
        /\ Answered(a, o, {r \in tracked : r.channel = item.channel})
    /\ UNCHANGED <<ruleStore, unloaded>> /\ Keep

TestPokemon(a) ==
    /\ cmd[a].op = "test" /\ cmd[a].phase = "call"
    /\ \E o \in Outcome(TRUE) : Pays(o, TRUE) /\ Answered(a, o, {Head(cmd[a].todo)})
    /\ UNCHANGED <<ruleStore, unloaded>> /\ Keep

Effective == {Alert(r) : r \in {q \in tracked : humans[q.channel] = "active"}}

\* A reload that fails is logged; !notify remove by uid answers that it failed.
ReloadPoracle(a) ==
    LET c == cmd[a] IN
    /\ c.phase = "reload"
    /\ \E o \in Outcome(TRUE) :
        /\ Pays(o, TRUE)
        /\ alerting' = IF o = "refused" THEN alerting ELSE Effective
        /\ unloaded' = (o = "refused" \/ (unloaded /\ o = "lost"))
        /\ Set(a, [c EXCEPT !.phase = "reply",
                            !.done = IF c.op = "uid" /\ o # "ok" THEN {} ELSE @])
    /\ UNCHANGED database /\ Keep

ReplyToAdmin(a) ==
    /\ cmd[a].phase = "reply"
    /\ Set(a, Idling)
    /\ UNCHANGED <<ruleStore, slipups, unloaded>> /\ Keep

Unreloaded(c) == c.op \in Reloading /\ c.done # {} /\ c.phase # "reply"

\* A query that raises ends the command where it is, without a reload.
DatabaseFails(a) ==
    /\ cmd[a].phase \in {"check", "lookup"} /\ slipups < MaxSlips
    /\ slipups' = slipups + 1
    /\ unloaded' = (unloaded \/ Unreloaded(cmd[a]))
    /\ Set(a, Idling)
    /\ UNCHANGED ruleStore /\ Keep

NotifyRestart ==
    /\ slipups < MaxSlips /\ \E a \in Admins : Busy(a)
    /\ slipups' = slipups + 1
    /\ unloaded' = (unloaded \/ \E a \in Admins : Unreloaded(cmd[a]))
    /\ cmd' = [a \in Admins |-> Idling]
    /\ UNCHANGED ruleStore /\ Keep

RulesNext ==
    \/ \E a \in Admins, cs \in SUBSET Channels :
        \/ \E ps \in SUBSET Pokemon : AddCmd(a, cs, ps) \/ RemoveByName(a, cs, ps)
        \/ \E op \in {"enable", "disable"} : Toggle(a, op, cs)
        \/ ListCmd(a, cs) \/ TestCmd(a, cs)
    \/ \E a \in Admins : (\E r \in tracked : RemoveByUid(a, r))
                         \/ (\E c \in Channels : RegisterCmd(a, c))
    \/ \E a \in Admins :
        \/ CheckRule(a) \/ PostRule(a) \/ Lookup(a) \/ DeleteRule(a)
        \/ StartOrStop(a) \/ CreateChannel(a) \/ StartChannel(a)
        \/ ListPerChannel(a) \/ TestPokemon(a)
        \/ ReloadPoracle(a) \/ ReplyToAdmin(a) \/ DatabaseFails(a)
    \/ NotifyRestart

RulesSpec == RulesInit /\ [][RulesNext]_ruleVars

-----------------------------------------------------------------------------
\* A rule is made twice only by add commands that overlap: check-then-post makes a
\* repeated command harmless, one whose answer was lost included.
NoRuleTwice ==
    (\E r, s \in tracked : r # s /\ Alert(r) = Alert(s)) => crowded

\* What a reply says is so when no other command ran beside it: a rule it added or
\* says is there exists, what it removed is gone, nothing is left when nothing
\* failed, a channel is as it was switched, and a list shows what the channels have.
RepliesAreTrue ==
    \A a \in Admins :
        LET c == cmd[a] IN
        c.phase = "reply" /\ alone[a] =>
            /\ c.op = "add" => \A i \in c.done \union c.kept : Matching(i) # {}
            /\ c.op \in {"remove", "uid"} => c.done \intersect tracked = {}
            /\ c.op = "remove" /\ c.failed = {} => \A i \in c.kept : Matching(i) = {}
            /\ c.op \in {"enable", "register"} =>
                \A i \in c.done : humans[i.channel] = "active"
            /\ c.op = "disable" => \A i \in c.done : humans[i.channel] = "stopped"
            /\ c.op = "list" => c.done \subseteq tracked

\* Poracle alerts on the rules in its database, once the commands under way have
\* reloaded it, unless a change was not followed by a reload: its answer or its
\* reload failed, the command ended before, or it was the start of a registration.
ChangesTakeEffect ==
    (\A a \in Admins : ~Unreloaded(cmd[a])) /\ ~unloaded => alerting = Effective

\* Rules are not doubled by a repeat, replies are true, and changes are in force.
RulesAsSaid == NoRuleTwice /\ RepliesAreTrue /\ ChangesTakeEffect
===============================================================================
