----------------------------- MODULE TrapChannel -----------------------------
(***************************************************************************)
(* The trap channel (cogs/moderation.py). Whoever writes in it is banned,  *)
(* so that Discord deletes what they wrote, and unbanned at once; each     *)
(* removal is counted in memory and in the database, shown by a warning    *)
(* message in the channel and reported to the moderators. Handlers of      *)
(* several messages interleave, each with awaits between its steps.        *)
(***************************************************************************)
EXTENDS Naturals, FiniteSets

CONSTANTS
    Traps,         \* messages written in the channel
    AuthorOf,      \* their authors
    MaxMistakes    \* bound: calls refused, writes and reads that fail, restarts

ASSUME TrapAssumption == IsFiniteSet(Traps) /\ MaxMistakes \in Nat

Authors == {AuthorOf[m] : m \in Traps}
Counts == 0..Cardinality(Traps)
Deleted == Cardinality(Traps) + 1

VARIABLES
    handling,     \* the step of each message's handler
    bannedNow,    \* bans in force on the server
    removals,     \* _trap_ban_count
    toSave,      \* the count each handler saves
    saved,        \* trap_ban_count in the database
    warning,      \* the count the warning message shows, or Deleted
    reports,      \* reports[m]: what m's report to the moderators says
    modChannel,   \* there is a channel for the reports
    mistakes,
    untold,       \* observation: authors with a ban that no report could tell of
    forgot        \* observation: a restart could not read the count

counting == <<removals, toSave, saved, warning>>
fate     == <<untold, forgot>>
trapVars == <<handling, bannedNow, counting, reports, modChannel, mistakes, fate>>

TrapTypeOK ==
    /\ handling \in
           [Traps -> {"unsent", "ban", "unban", "save", "refresh", "report", "over"}]
    /\ bannedNow \subseteq Authors /\ untold \subseteq Authors
    /\ removals \in Counts /\ toSave \in [Traps -> Counts] /\ saved \in Counts
    /\ warning \in Counts \union {Deleted}
    /\ reports \in [Traps -> {"none", "removed", "stillBanned", "notBanned"}]
    /\ mistakes \in 0..MaxMistakes /\ {forgot, modChannel} \subseteq BOOLEAN

TrapInit ==
    /\ handling = [m \in Traps |-> "unsent"] /\ bannedNow = {} /\ untold = {}
    /\ removals = 0 /\ toSave = [m \in Traps |-> 0] /\ saved = 0 /\ warning = 0
    /\ reports = [m \in Traps |-> "none"] /\ mistakes = 0 /\ forgot = FALSE
    /\ modChannel \in BOOLEAN

Mistake == mistakes < MaxMistakes /\ mistakes' = mistakes + 1
Well == UNCHANGED mistakes
GoOn(m, step) == handling' = [handling EXCEPT ![m] = step]
Note(m, what) == reports' = [reports EXCEPT ![m] = what]
Unsaid(m) == untold' = untold \union ({AuthorOf[m]} \intersect bannedNow)

-----------------------------------------------------------------------------
\* The message is deleted and its author sent an invitation, if that works. As in
\* every step, an exception that is not discord's ends the handler.
CaughtInTrap(m) ==
    /\ handling[m] = "unsent"
    /\ \/ Well /\ GoOn(m, "ban")
       \/ Mistake /\ GoOn(m, "over")
    /\ UNCHANGED <<bannedNow, counting, reports, modChannel, fate>>

\* A call that raises may have banned the author all the same: the report will say
\* that it failed, if the handler gets there.
Ban(m) ==
    /\ handling[m] = "ban"
    /\ \/ /\ Well /\ GoOn(m, "unban")
          /\ bannedNow' = bannedNow \union {AuthorOf[m]} /\ UNCHANGED <<reports, untold>>
       \/ /\ Mistake
          /\ bannedNow' \in {bannedNow, bannedNow \union {AuthorOf[m]}}
          /\ untold' = untold \union (bannedNow' \ bannedNow)
          /\ \/ Note(m, "notBanned") /\ GoOn(m, "refresh")
             \/ UNCHANGED reports /\ GoOn(m, "over")
    /\ UNCHANGED <<counting, modChannel, forgot>>

Lift(a) == bannedNow' = bannedNow \ {a} /\ untold' = untold \ {a}

CountRemoval(m) ==
    /\ removals' = removals + 1
    /\ toSave' = [toSave EXCEPT ![m] = removals + 1]
    /\ GoOn(m, "save")

\* Unbanned before the counter and the messages, and an unknown ban (code 10026) is
\* as good as lifted. A call that raises may have lifted it.
Unban(m) ==
    /\ handling[m] = "unban"
    /\ \/ Well /\ Lift(AuthorOf[m]) /\ Note(m, "removed") /\ CountRemoval(m)
       \/ /\ Mistake /\ Note(m, "stillBanned") /\ CountRemoval(m)
          /\ Lift(AuthorOf[m]) \/ UNCHANGED <<bannedNow, untold>>
       \/ /\ Mistake /\ GoOn(m, "over") /\ UNCHANGED <<removals, toSave, reports>>
          /\ \/ Lift(AuthorOf[m])
             \/ Unsaid(m) /\ UNCHANGED bannedNow
    /\ UNCHANGED <<saved, warning, modChannel, forgot>>

\* _save_trap_ban_count: the statements queue for the connection in their order.
SaveCount(m) ==
    /\ handling[m] = "save"
    /\ \A other \in Traps : handling[other] = "save" => toSave[m] <= toSave[other]
    /\ \/ Well /\ saved' = toSave[m]
       \/ Mistake /\ saved' \in {saved, toSave[m]}
    /\ GoOn(m, "refresh")
    /\ UNCHANGED <<bannedNow, removals, toSave, warning, reports, modChannel, fate>>

\* _refresh_trap_message: edited, or posted again when it is gone.
RefreshTrapMessage(m) ==
    /\ handling[m] = "refresh"
    /\ \/ Well /\ warning' = removals /\ GoOn(m, "report") /\ UNCHANGED untold
       \/ /\ Mistake /\ warning' \in {warning, removals}
          /\ \/ GoOn(m, "report") /\ UNCHANGED untold
             \/ GoOn(m, "over") /\ Unsaid(m)
    /\ UNCHANGED <<bannedNow, removals, toSave, saved, reports, modChannel, forgot>>

\* Without a channel there is no report, and one that cannot be sent is let go.
Report(m) ==
    /\ handling[m] = "report" /\ GoOn(m, "over")
    /\ \/ Well /\ modChannel /\ UNCHANGED untold
       \/ Well /\ ~modChannel /\ Unsaid(m)
       \/ Mistake /\ Unsaid(m)
    /\ UNCHANGED <<bannedNow, counting, reports, modChannel, forgot>>

WarningDeleted ==
    /\ Mistake /\ warning' = Deleted
    /\ UNCHANGED <<handling, bannedNow, removals, toSave, saved, reports, modChannel, fate>>

\* A moderator lifts a ban by hand.
LiftedByHand(a) ==
    /\ a \in bannedNow /\ Lift(a)
    /\ UNCHANGED <<handling, counting, reports, modChannel, mistakes, forgot>>

\* cog_load: the count is read, and is 0 when that fails; then the warning.
TrapRestart ==
    /\ Mistake
    /\ handling' = [m \in Traps |-> IF handling[m] = "unsent" THEN "unsent" ELSE "over"]
    /\ untold' = untold \union
           (bannedNow \intersect {AuthorOf[m] : m \in {t \in Traps :
                                handling[t] \in {"unban", "save", "refresh", "report"}}})
    /\ \/ removals' = saved /\ UNCHANGED forgot
       \/ removals' = 0 /\ forgot' = TRUE
    /\ warning' \in {removals', warning}
    /\ UNCHANGED <<bannedNow, toSave, saved, reports, modChannel>>

TrapNext ==
    \/ \E m \in Traps :
          \/ CaughtInTrap(m) \/ Ban(m) \/ Unban(m) \/ SaveCount(m)
          \/ RefreshTrapMessage(m) \/ Report(m)
    \/ WarningDeleted \/ \E a \in Authors : LiftedByHand(a)
    \/ TrapRestart

TrapSpec == TrapInit /\ [][TrapNext]_trapVars

-----------------------------------------------------------------------------
\* "unrelated failures must not turn the requested removal into a permanent ban":
\* while no call fails a ban goes with its handler. One that outlasts it is reported
\* as a ban to lift by hand, unless it was made by a call that raised, or the handler
\* ended, or the bot, before its report went out.
NoBanIsLeft ==
    /\ mistakes = 0 => \A a \in bannedNow : \E m \in Traps :
                           AuthorOf[m] = a /\ handling[m] = "unban"
    /\ \A a \in bannedNow \ untold : \E m \in Traps :
           AuthorOf[m] = a /\ (handling[m] = "unban" \/ reports[m] = "stillBanned")

\* The database never runs ahead of the count, unless a restart could not read it;
\* without a mistake every message is a removal counted, saved and shown, and said to
\* be one in its report, however the handlers interleave.
RemovalsAreCounted ==
    /\ forgot \/ saved <= removals
    /\ (\A m \in Traps : handling[m] = "over") /\ mistakes = 0 =>
           /\ removals = Cardinality(Traps) /\ saved = removals /\ warning = removals
           /\ \A m \in Traps : reports[m] = "removed"

TrapHolds == NoBanIsLeft /\ RemovalsAreCounted
=============================================================================
