----------------------------- MODULE HundoAlerts -----------------------------
(***************************************************************************)
(* Pokédex 100IV alerts for one player (modules/hundo_alerts.py and        *)
(* modules/hundo_confirmation.py). The site writes the settings and a new  *)
(* revision; every minute the bot confirms a new revision by DM, keeps the *)
(* player's Poracle rules in step with the confirmed settings, and reports *)
(* to the site. Players share nothing but the reload and the sync cache.   *)
(*                                                                         *)
(* A DM is journalled before it is posted, so that no crash and no lost    *)
(* answer can make the bot say the same revision twice.                    *)
(***************************************************************************)
EXTENDS Integers, FiniteSets

CONSTANTS
    Areas,          \* the areas of the site's setting
    MaxRevisions,   \* bound: saves of the settings
    MaxTiles,       \* bound: changes of the collection
    MaxFaults,      \* bound: crashes, lost answers, failed calls
    MaxChanges,     \* bound: leaving, un-collecting, stopping Poracle, and back
    MaxAreaChanges  \* bound: areas switched on or off in the registry

ASSUME HundoAlertsAssumption ==
    /\ Areas # {} /\ IsFiniteSet(Areas)
    /\ MaxRevisions \in Nat /\ MaxTiles \in Nat /\ MaxFaults \in Nat
    /\ MaxChanges \in Nat /\ MaxAreaChanges \in Nat

Revisions == 1..MaxRevisions
Setting   == [on : BOOLEAN, areas : SUBSET Areas]
Rule      == [chosen : SUBSET Areas, areas : SUBSET Areas, tiles : 0..MaxTiles]

VARIABLES
    \* pogoleiria
    set,        \* the settings; asked[r] are those revision r stands for
    asked,
    rev,        \* hundo_settings_revision, _confirmed_, _dm_refused_
    confirmed,
    refused,
    said,       \* hundo_confirmed_setting, as a set of areas; off is {}
    settling,   \* the last save is less than 30 seconds old
    member, collects,
    tiles,      \* what else the rules are built from: missing tiles, costumes
    journal,    \* hundo_confirmation.status per revision
    fresh,      \* the last attempt is less than 120 seconds old
    shown,      \* hundo_health_revision and _state
    active,     \* the areas the registry has active
    \* Poracle
    human,      \* the player there
    rules,      \* their managed rules, as a set of at most one kind
    loaded,     \* those its processor works with
    \* the bot
    at, snap, outcome, synced, owed, health,
    \* observation
    told,       \* DMs Discord accepted, per revision
    last,       \* the revision the latest one confirmed
    faults, changes, areaChanges

site     == <<set, asked, rev, settling>>
acks     == <<confirmed, refused, said>>
poracle  == <<human, rules, loaded>>
memory   == <<outcome, synced, owed, health>>
dms      == <<journal, fresh, told, last>>
world    == <<member, collects, tiles, active, changes, areaChanges>>
vars     == <<site, acks, dms, shown, poracle, at, snap, memory, world, faults>>

-------------------------------------------------------------------------------
\* The rules of modules/hundo_alerts.py about one row.

\* _area_keys: an empty selection, or one of inactive areas only, is all.
Chosen(areas) == IF areas \intersect active = {} THEN active ELSE areas \intersect active

\* setting_code, a set instead of a bit mask.
Code(s) == IF s.on THEN Chosen(s.areas) ELSE {}

Larger(a, b) == IF a > b THEN a ELSE b
Due(r) == r.rev > Larger(r.confirmed, r.refused)

MayConfirm(r) == r.member /\ (~r.set.on \/ r.collects)

SettledBack(r) == r.confirmed > 0 /\ r.said = Code(r.set) /\ r.refused < r.confirmed

\* Mutant of IsActive: the confirmation is not waited for.
IsActive_Unconfirmed(r) == r.set.on /\ r.member /\ r.collects /\ r.rev > 0

IsActive(r) ==
    /\ r.set.on /\ r.member /\ r.collects
    /\ r.rev > 0 /\ r.refused < r.rev
    /\ r.confirmed = r.rev \/ SettledBack(r)

\* What _read_players returns.
Row == [set |-> set, rev |-> rev, confirmed |-> confirmed, refused |-> refused,
        said |-> said, settling |-> settling, member |-> member,
        collects |-> collects, tiles |-> tiles]

Nothing == [set |-> [on |-> FALSE, areas |-> {}], rev |-> 0, confirmed |-> 0,
            refused |-> 0, said |-> {}, settling |-> FALSE, member |-> FALSE,
            collects |-> FALSE, tiles |-> 0]

\* _CLEANUP_SQL keeps a rule of an active player Poracle may write to. It has
\* the settings of now, and compares the stored selection as it is.
SqlCode == IF ~set.on THEN {} ELSE IF set.areas = {} THEN active ELSE set.areas

\* Mutant of Kept: settings are compared, revisions are not.
Kept_BySetting ==
    set.on /\ member /\ collects /\ confirmed > 0 /\ said = SqlCode /\ refused < rev /\ human = "on"

Kept ==
    /\ set.on /\ member /\ collects /\ rev > 0
    /\ \/ confirmed = rev
       \/ confirmed > 0 /\ said = SqlCode /\ refused < confirmed
    /\ refused < rev
    /\ human = "on"

-------------------------------------------------------------------------------
NoOutcome == [rev |-> 0, delivered |-> FALSE]

TypeOK ==
    /\ set \in Setting /\ asked \in [Revisions -> Setting]
    /\ rev \in 0..MaxRevisions /\ confirmed \in 0..rev /\ refused \in 0..rev
    /\ confirmed # refused \/ confirmed = 0
    /\ said \subseteq Areas /\ active \subseteq Areas /\ active # {}
    /\ settling \in BOOLEAN /\ member \in BOOLEAN /\ collects \in BOOLEAN
    /\ tiles \in 0..MaxTiles
    /\ journal \in [Revisions -> {"none", "sending", "sent", "refused", "uncertain"}]
    /\ fresh \in BOOLEAN
    /\ shown \in [rev : 0..MaxRevisions,
                  state : {"pending", "ready", "stopped", "error", "unavailable"}]
    /\ human \in {"none", "on", "stopped"}
    /\ rules \subseteq Rule /\ Cardinality(rules) <= 1
    /\ loaded \subseteq Rule /\ Cardinality(loaded) <= 1
    /\ at \in {"idle", "clean", "reload", "read", "confirm", "post", "record", "reread",
               "sync", "final", "publish", "report"}
    /\ outcome \in [rev : 0..MaxRevisions, delivered : BOOLEAN]
    /\ Cardinality(synced) <= 1 /\ owed \in BOOLEAN
    /\ health \in {"pending", "ready", "stopped", "error"}
    /\ told \in [Revisions -> Nat] /\ last \in 0..MaxRevisions
    /\ faults \in 0..MaxFaults
    /\ changes \in 0..MaxChanges /\ areaChanges \in 0..MaxAreaChanges

Init ==
    /\ set = [on |-> FALSE, areas |-> Areas]
    /\ asked = [r \in Revisions |-> set]
    /\ rev = 0 /\ confirmed = 0 /\ refused = 0 /\ said = {} /\ settling = FALSE
    /\ member = TRUE /\ collects = TRUE /\ tiles = 0 /\ active = Areas
    /\ journal = [r \in Revisions |-> "none"] /\ fresh = FALSE
    /\ shown = [rev |-> 0, state |-> "pending"]
    /\ human \in {"none", "on"} /\ rules = {} /\ loaded = {}
    /\ at = "idle" /\ snap = Nothing
    /\ outcome = NoOutcome /\ synced = {} /\ owed = FALSE /\ health = "pending"
    /\ told = [r \in Revisions |-> 0] /\ last = 0
    /\ faults = 0 /\ changes = 0 /\ areaChanges = 0

Fault == faults < MaxFaults /\ faults' = faults + 1
Fine  == UNCHANGED faults

-------------------------------------------------------------------------------
\* tick, up to the confirmations.

Wake ==
    /\ at = "idle" /\ rev > 0
    /\ at' = "clean" /\ health' = "pending"
    /\ Fine
    /\ UNCHANGED <<site, acks, dms, shown, poracle, snap, outcome, synced, owed, world>>

\* _cleanup_rules, first and last in a tick. The answer of a DELETE that was
\* committed can be lost.
Cleanup ==
    /\ \/ at = "clean" /\ at' = "reload"
       \/ at = "final" /\ at' = "publish"
    /\ \/ /\ rules' = IF Kept THEN rules ELSE {}
          /\ IF rules' # rules THEN owed' = TRUE /\ synced' = {} ELSE UNCHANGED <<owed, synced>>
          /\ Fine
       \/ /\ Fault
          /\ rules' \in {rules, IF Kept THEN rules ELSE {}}
          /\ UNCHANGED <<owed, synced>>
    /\ UNCHANGED <<site, acks, dms, shown, human, loaded, snap, outcome, health, world>>

\* _reload_if_pending.
Reload ==
    /\ \/ at = "reload" /\ at' = "read"
       \/ at = "publish" /\ at' = "report"
    /\ \/ owed /\ loaded' = rules /\ owed' = FALSE /\ Fine
       \/ ~owed /\ UNCHANGED <<loaded, owed>> /\ Fine
       \/ owed /\ Fault /\ UNCHANGED <<loaded, owed>>
    /\ UNCHANGED <<site, acks, dms, shown, human, rules, snap, outcome, synced, health, world>>

\* An outcome that could not be recorded is kept while its revision waits for it.
\* When nothing can be read the tick ends, and reports nothing.
Read ==
    /\ at = "read"
    /\ \/ /\ at' = "confirm" /\ Fine
          /\ snap' = Row
          /\ outcome' = IF Due(Row) /\ outcome.rev = rev THEN outcome ELSE NoOutcome
       \/ at' = "final" /\ Fault /\ snap' = Nothing /\ UNCHANGED outcome
    /\ UNCHANGED <<site, acks, dms, shown, poracle, synced, owed, health, world>>

\* _record: only for the current revision, and only once. After an exception
\* the caller does not know.
Recorded(r, delivered) ==
    IF rev = r /\ Larger(confirmed, refused) < r
    THEN IF delivered
         THEN confirmed' = r /\ said' = Code(asked[r]) /\ UNCHANGED refused
         ELSE refused' = r /\ UNCHANGED <<confirmed, said>>
    ELSE UNCHANGED acks

Confirming == at = "confirm" /\ Due(snap) /\ MayConfirm(snap)

Skip ==
    /\ at = "confirm"
    /\ ~(Due(snap) /\ MayConfirm(snap)) \/ (snap.settling /\ ~SettledBack(snap))
    /\ at' = "reread"
    /\ Fine
    /\ UNCHANGED <<site, acks, dms, shown, poracle, snap, memory, world>>

\* The settings confirmed last are back: acknowledged without a DM.
Acknowledge ==
    /\ Confirming /\ SettledBack(snap)
    /\ at' = "reread"
    /\ \/ Recorded(snap.rev, TRUE) /\ Fine
       \/ Fault /\ (Recorded(snap.rev, TRUE) \/ UNCHANGED acks)
    /\ UNCHANGED <<site, dms, shown, poracle, snap, memory, world>>

Unsettled == Confirming /\ ~SettledBack(snap) /\ ~snap.settling

-------------------------------------------------------------------------------
\* _confirm and send_once.

Again ==
    /\ Unsettled /\ outcome.rev = snap.rev
    /\ at' = "record"
    /\ Fine
    /\ UNCHANGED <<site, acks, dms, shown, poracle, snap, memory, world>>

\* fetch_user and create_dm come first: an account that is gone is a refusal
\* without a row, and any other failure is tried again.
NoChannel ==
    /\ Unsettled /\ outcome.rev # snap.rev
    /\ \/ at' = "record" /\ outcome' = [rev |-> snap.rev, delivered |-> FALSE] /\ Fine
       \/ at' = "reread" /\ Fault /\ UNCHANGED outcome
    /\ UNCHANGED <<site, acks, dms, shown, poracle, snap, synced, owed, health, world>>

\* Mutant of Claimable: the row that is there already counts as claimed.
Claimable_Any(r) == rev = r /\ member /\ (~set.on \/ collects) /\ Larger(confirmed, refused) < r

\* Only who inserts the row may post.
Claimable(r) ==
    /\ rev = r /\ member /\ (~set.on \/ collects)
    /\ Larger(confirmed, refused) < r
    /\ journal[r] = "none"

Claim ==
    /\ Unsettled /\ outcome.rev # snap.rev
    /\ Claimable(snap.rev)
    /\ journal' = [journal EXCEPT ![snap.rev] = "sending"] /\ fresh' = TRUE
    /\ at' = "post"
    /\ Fine
    /\ UNCHANGED <<site, acks, told, last, shown, poracle, snap, memory, world>>

\* Mutant of StillSending: an attempt is waited for however old it is.
StillSending_Ever(was) == was \in {"sending", "uncertain"}

StillSending(was) == was \in {"sending", "uncertain"} /\ fresh
Overdue(was) == was \in {"sending", "uncertain"} /\ ~StillSending(was)

\* Someone posted before: what is known of that attempt, or Discord's history,
\* decides. What cannot be proved stays uncertain.
Recover ==
    /\ Unsettled /\ outcome.rev # snap.rev
    /\ ~Claimable(snap.rev)
    /\ LET was == journal[snap.rev] IN
       \/ /\ was \in {"sent", "refused"}
          /\ outcome' = [rev |-> snap.rev, delivered |-> was = "sent"]
          /\ at' = "record"
          /\ UNCHANGED journal
       \/ /\ was = "none" \/ StillSending(was)
          /\ at' = "reread"
          /\ UNCHANGED <<journal, outcome>>
       \/ /\ Overdue(was) /\ told[snap.rev] > 0
          /\ journal' = [journal EXCEPT ![snap.rev] = "sent"]
          /\ outcome' = [rev |-> snap.rev, delivered |-> TRUE]
          /\ at' = "record"
       \/ /\ Overdue(was)
          /\ journal' = [journal EXCEPT ![snap.rev] = "uncertain"]
          /\ at' = "reread"
          /\ UNCHANGED outcome
    /\ Fine
    /\ UNCHANGED <<site, acks, fresh, told, last, shown, poracle, snap, synced, owed, health, world>>

Accepted ==
    told' = [told EXCEPT ![snap.rev] = @ + 1] /\ last' = snap.rev

\* No answer, or one that was not written down, or was and that answer is lost:
\* Discord may have the DM.
Lost ==
    /\ Fault
    /\ \/ Accepted /\ journal' \in {journal, [journal EXCEPT ![snap.rev] = "sent"]}
       \/ UNCHANGED <<told, last>> /\ journal' \in {journal, [journal EXCEPT ![snap.rev] = "refused"]}
    /\ at' = "reread" /\ UNCHANGED outcome

Post ==
    /\ at = "post"
    /\ \/ /\ Accepted /\ Fine
          /\ journal' = [journal EXCEPT ![snap.rev] = "sent"]
          /\ outcome' = [rev |-> snap.rev, delivered |-> TRUE] /\ at' = "record"
       \/ /\ UNCHANGED <<told, last>> /\ Fine
          /\ journal' = [journal EXCEPT ![snap.rev] = "refused"]
          /\ outcome' = [rev |-> snap.rev, delivered |-> FALSE] /\ at' = "record"
       \/ Lost
    /\ UNCHANGED <<site, acks, fresh, shown, poracle, snap, synced, owed, health, world>>

Record ==
    /\ at = "record" /\ at' = "reread"
    /\ \/ Recorded(outcome.rev, outcome.delivered) /\ outcome' = NoOutcome /\ Fine
       \/ Fault /\ UNCHANGED outcome /\ (Recorded(outcome.rev, outcome.delivered) \/ UNCHANGED acks)
    /\ UNCHANGED <<site, dms, shown, poracle, snap, synced, owed, health, world>>

-------------------------------------------------------------------------------
\* tick, from the second read; without it, or without the masterfile, nothing is
\* rebuilt.

Reread ==
    /\ at = "reread"
    /\ \/ at' = "sync" /\ Fine /\ snap' = Row /\ UNCHANGED health
       \/ at' = "final" /\ Fault /\ UNCHANGED <<snap, health>>
       \/ at' = "final" /\ Fault /\ snap' = Row
             /\ health' = IF IsActive(Row) THEN "error" ELSE health
    /\ UNCHANGED <<site, acks, dms, shown, poracle, outcome, synced, owed, world>>

\* _signature. The rules are built from what is stored when they are.

\* Mutant of Signature: the settings are not part of it.
Signature_Tiles == [tiles |-> snap.tiles]

Signature == [rev |-> snap.rev, areas |-> snap.set.areas, tiles |-> snap.tiles]

Built == {[chosen |-> snap.set.areas, areas |-> Chosen(snap.set.areas), tiles |-> tiles]}

Syncing == at = "sync" /\ IsActive(snap)

Idles ==
    /\ at = "sync" /\ ~IsActive(snap)
    /\ synced' = {} /\ at' = "final"
    /\ Fine
    /\ UNCHANGED <<site, acks, dms, shown, poracle, snap, outcome, owed, health, world>>

\* create_user, and the player is read again.
Create ==
    /\ Syncing /\ human = "none"
    /\ synced' = {}
    /\ \/ human' = "on" /\ Fine /\ UNCHANGED <<at, health>>
       \/ Fault /\ at' = "final" /\ health' = "error" /\ UNCHANGED human
    /\ UNCHANGED <<site, acks, dms, shown, rules, loaded, snap, outcome, owed, world>>

Stopped ==
    /\ Syncing /\ human = "stopped"
    /\ synced' = {} /\ health' = "stopped" /\ at' = "final"
    /\ Fine
    /\ UNCHANGED <<site, acks, dms, shown, poracle, snap, outcome, owed, world>>

Unchanged ==
    /\ Syncing /\ human = "on" /\ Signature \in synced
    /\ health' = "ready" /\ at' = "final"
    /\ Fine
    /\ UNCHANGED <<site, acks, dms, shown, poracle, snap, outcome, synced, owed, world>>

\* _sync_player replaces the rules in one transaction.
Rebuild ==
    /\ Syncing /\ human = "on" /\ Signature \notin synced
    /\ at' = "final"
    /\ \/ /\ rules' = Built /\ owed' = (owed \/ rules # Built)
          /\ synced' = {Signature} /\ health' = "ready" /\ Fine
       \/ /\ Fault
          /\ rules' \in {rules, Built}
          /\ synced' = {} /\ health' = "error" /\ UNCHANGED owed
    /\ UNCHANGED <<site, acks, dms, shown, human, loaded, snap, outcome, world>>

\* _record_health, for the revision that was read. Ready is only what Poracle was
\* told of, and when it answers.
Said(state) == IF rev = snap.rev THEN [rev |-> rev, state |-> state] ELSE shown

Report ==
    /\ at = "report" /\ at' = "idle" /\ snap' = Nothing
    /\ \/ Fine /\ shown' = Said(IF health = "ready" /\ owed THEN "unavailable" ELSE health)
       \/ Fault /\ shown' \in {shown, Said(IF health = "ready" THEN "unavailable" ELSE health)}
    /\ UNCHANGED <<site, acks, dms, poracle, memory, world>>

Crash ==
    /\ at # "idle" /\ Fault
    /\ at' = "idle" /\ snap' = Nothing
    /\ outcome' = NoOutcome /\ synced' = {} /\ owed' = FALSE /\ health' = "pending"
    /\ UNCHANGED <<site, acks, dms, shown, poracle, world>>

-------------------------------------------------------------------------------
\* The site, the player, Poracle and the clock.

\* Every change of the settings is a new revision, in the same UPDATE. An attempt
\* that was refused or is uncertain can be asked for again.
Save ==
    /\ rev < MaxRevisions /\ rev' = rev + 1
    /\ \E s \in Setting :
          /\ s.on => member /\ collects
          /\ s # set \/ (rev > 0 /\ (refused = rev \/ journal[rev] = "uncertain"))
          /\ set' = s
          /\ asked' = [asked EXCEPT ![rev'] = s]
    /\ settling' = TRUE
    /\ UNCHANGED <<acks, dms, shown, poracle, at, snap, memory, world, faults>>

Change ==
    /\ changes < MaxChanges /\ changes' = changes + 1
    /\ \/ member' = ~member /\ UNCHANGED <<collects, human>>
       \/ collects' = ~collects /\ UNCHANGED <<member, human>>
       \/ human = "on" /\ human' = "stopped" /\ UNCHANGED <<member, collects>>
       \/ human = "stopped" /\ human' = "on" /\ UNCHANGED <<member, collects>>
    /\ UNCHANGED <<site, acks, dms, shown, rules, loaded, at, snap, memory, tiles, active,
                   areaChanges, faults>>

Collect ==
    /\ tiles < MaxTiles /\ tiles' = tiles + 1
    /\ UNCHANGED <<site, acks, dms, shown, poracle, at, snap, memory, member, collects, active,
                   changes, areaChanges, faults>>

\* scan_areas follows the registry; a tick without any active area is skipped.
AreaChange ==
    /\ areaChanges < MaxAreaChanges /\ areaChanges' = areaChanges + 1
    /\ \E a \in Areas : active' = IF a \in active THEN active \ {a} ELSE active \union {a}
    /\ active' # {}
    /\ UNCHANGED <<site, acks, dms, shown, poracle, at, snap, memory, member, collects, tiles,
                   changes, faults>>

\* Thirty seconds after a save; two minutes after an attempt; an hour after a sync.
Settle ==
    /\ settling /\ settling' = FALSE
    /\ UNCHANGED <<set, asked, rev, acks, dms, shown, poracle, at, snap, memory, world, faults>>

Ages ==
    /\ fresh /\ at # "post" /\ fresh' = FALSE
    /\ UNCHANGED <<site, acks, journal, told, last, shown, poracle, at, snap, memory, world, faults>>

Expire ==
    /\ at = "idle" /\ synced # {} /\ synced' = {}
    /\ UNCHANGED <<site, acks, dms, shown, poracle, at, snap, outcome, owed, health, world, faults>>

\* Poracle also reloads by itself, every minute.
OwnReload ==
    /\ loaded # rules /\ loaded' = rules
    /\ UNCHANGED <<site, acks, dms, shown, human, rules, at, snap, memory, world, faults>>

Tick ==
    \/ Wake \/ Cleanup \/ Reload \/ Read \/ Skip \/ Acknowledge \/ Again \/ NoChannel \/ Claim
    \/ Recover
    \/ Post \/ Record \/ Reread \/ Idles \/ Create \/ Stopped \/ Unchanged \/ Rebuild \/ Report

Outside == Save \/ Change \/ Collect \/ AreaChange \/ Settle \/ Ages \/ Expire \/ OwnReload

Next == Tick \/ Crash \/ Outside

Spec == Init /\ [][Next]_vars

\* The scheduler ticks, and time passes.
FairSpec == Spec /\ WF_vars(Tick) /\ WF_vars(Settle) /\ WF_vars(Ages) /\ SF_vars(Expire)
                 /\ WF_vars(OwnReload)
-------------------------------------------------------------------------------
\* One DM per revision, whatever crashes, answers lost and writes that failed:
\* journal, outcome kept in memory and conditional record together.
OneDMEach == \A r \in Revisions : told[r] <= 1

\* A revision is confirmed only when the player has read those settings: in the
\* DM of that revision or, when they were undone in time, in that of the earlier
\* revision they were undone to.
ConfirmedWasTold ==
    (confirmed > 0 /\ areaChanges = 0) =>
        \E r \in 1..confirmed : told[r] > 0 /\ Code(asked[r]) = said

\* Poracle never works for a selection the player was not told of, whatever the
\* site saves while a tick reads, sends, rebuilds and cleans up.
RulesWereTold ==
    areaChanges = 0 =>
        \A x \in rules \union loaded :
            \E r \in Revisions : told[r] > 0 /\ Code(asked[r]) = Chosen(x.chosen)

\* "ready" on the site: Poracle has been told of the areas of these settings, and
\* nobody has left, stopped or failed since.
ReadyIsTrue ==
    (shown = [rev |-> rev, state |-> "ready"] /\ set.on /\ faults = 0 /\ changes = 0 /\ areaChanges = 0) =>
        loaded # {} /\ \A x \in loaded : x.areas = Chosen(set.areas)

\* A revision that stays is confirmed, refused or shown to be uncertain.
EveryRevisionSettles ==
    (<>[](rev > 0 /\ MayConfirm(Row))) => <>[](~Due(Row) \/ journal[rev] = "uncertain")

\* The rules end up those of the settings, the collection and the areas of now,
\* loaded by Poracle; and none, in either, when the alerts are off, refused or
\* stopped.
RulesConverge ==
    /\ (<>[](IsActive(Row) /\ human = "on")) =>
          <>[](/\ loaded = rules
               /\ rules = {[chosen |-> set.areas, areas |-> Chosen(set.areas), tiles |-> tiles]})
    /\ (<>[](~IsActive(Row) \/ human = "stopped")) => <>[](rules = {} /\ loaded = {})

\* However the faults fall, the player and Poracle end up with the settings.
SettingsTakeEffect == EveryRevisionSettles /\ RulesConverge
===============================================================================
