---------------------------- MODULE MonitoringRelay ----------------------------
(***************************************************************************)
(* scripts/monitoring_discord_relay.py: Grafana posts alerts, the owner    *)
(* gets a DM for every change, and a file remembers what he was told.  The *)
(* server answers one request at a time; Grafana sends again what was not  *)
(* answered with 200, by then perhaps with other news.                     *)
(***************************************************************************)
EXTENDS Integers, FiniteSets

CONSTANTS
    Checks,       \* the alerts' keys
    Name,         \* host and alert name of each: what one DM is about
    MaxState,     \* MAX_STATE
    Retention,    \* RETENTION, in units of time
    MaxChanges,   \* bound: changes of an alert in Grafana
    MaxBreaks     \* bound: deaths and failures between a DM and its record

ASSUME MonitoringRelayAssumption ==
    /\ MaxState \in Nat \ {0} /\ Retention \in Nat \ {0}
    /\ MaxChanges \in Nat /\ MaxBreaks \in Nat

VARIABLES
    alert,     \* Grafana: each alert's status
    known,     \* the file: status and age of what was told
    job,       \* the request being processed
    \* observation
    heard,     \* what the owner was last told of each alert
    answered,  \* the request that has just been answered with 200
    excused,   \* alerts a broken record, MAX_STATE or RETENTION has parted from the file
    changes, breaks

relayVars == <<alert, known, job, heard, answered, excused, changes, breaks>>

Status == {"firing", "resolved"}
Records == [status : Status, age : 0..(Retention + 1)]

\* Functions from some of the checks.
Some(S) == UNION {[D -> S] : D \in SUBSET Checks}
NoneOf == [k \in {} |-> "firing"]
Within(f, D) == [k \in DOMAIN f \intersect D |-> f[k]]

NoJob == [step |-> "idle", batch |-> NoneOf, state |-> NoneOf, todo |-> {}, group |-> {}]

RelayTypeOK ==
    /\ alert \in [Checks -> Status \union {"quiet"}]
    /\ known \in Some(Records)
    /\ job.step \in {"idle", "send", "save", "final"}
    /\ job.batch \in Some(Status) /\ job.state \in Some(Records)
    /\ job.todo \subseteq Checks /\ job.group \subseteq Checks
    /\ heard \in [Checks -> Status \union {"none"}]
    /\ answered \in Some(Status)
    /\ excused \subseteq Checks
    /\ changes \in 0..MaxChanges /\ breaks \in 0..MaxBreaks

RelayInit ==
    /\ alert = [k \in Checks |-> "quiet"]
    /\ known = NoneOf /\ job = NoJob
    /\ heard = [k \in Checks |-> "none"] /\ answered = NoneOf /\ excused = {}
    /\ changes = 0 /\ breaks = 0

-------------------------------------------------------------------------------
(* Grafana and time.                                                         *)

Turns(k) ==
    /\ changes < MaxChanges
    /\ changes' = changes + 1
    /\ alert' = [alert EXCEPT ![k] = IF @ = "firing" THEN "resolved" ELSE "firing"]
    /\ UNCHANGED <<known, job, heard, answered, excused, breaks>>

Ages(k) ==
    /\ job.step = "idle" /\ k \in DOMAIN known /\ known[k].age <= Retention
    /\ known' = [known EXCEPT ![k].age = @ + 1]
    /\ UNCHANGED <<alert, job, heard, answered, excused, changes, breaks>>

-------------------------------------------------------------------------------
(* process_alerts.                                                           *)

Fresh(k, status) == [status |-> status, age |-> 0]

\* What is not too old to be remembered.
Retained == Within(known, {k \in DOMAIN known : known[k].age <= Retention})

\* Mutant of News: only beginnings are news.
NewsFiring(batch, state) == {k \in DOMAIN batch : k \notin DOMAIN state /\ batch[k] = "firing"}

\* The news of a batch: what differs from what was told; a recovery nobody
\* was told the beginning of is none.
News(batch, state) ==
    {k \in DOMAIN batch : IF k \in DOMAIN state THEN state[k].status # batch[k]
                          ELSE batch[k] = "firing"}

\* do_POST: the whole batch is valid, the file is read, the groups are made.
Post(S) ==
    /\ job.step = "idle"
    /\ S # {} /\ \A k \in S : alert[k] # "quiet"
    /\ LET batch == [k \in S |-> alert[k]]
           state == Retained
           news  == News(batch, state)
       IN job' = [step |-> IF news = {} THEN "final" ELSE "send", batch |-> batch,
                  state |-> [k \in DOMAIN state |->
                                IF k \in S \ news /\ batch[k] = state[k].status
                                THEN Fresh(k, batch[k]) ELSE state[k]],
                  todo |-> news, group |-> {}]
    /\ answered' = NoneOf
    /\ excused' = excused \union {k \in DOMAIN known : known[k].age > Retention}
    /\ UNCHANGED <<alert, known, heard, changes, breaks>>

GroupOf(k) == {j \in job.todo : Name[j] = Name[k] /\ job.batch[j] = job.batch[k]}

\* At most MaxState records, the oldest forgotten.
Bounded(state, kept) ==
    /\ kept \subseteq DOMAIN state
    /\ IF Cardinality(DOMAIN state) <= MaxState THEN kept = DOMAIN state
       ELSE /\ Cardinality(kept) = MaxState
            /\ \A k \in kept, j \in DOMAIN state \ kept : state[k].age <= state[j].age

\* Mutant of SendGroup: the record is kept for the end of the batch.
SendGroupUnsaved(k) ==
    /\ job.step = "send" /\ k \in job.todo
    /\ LET group == GroupOf(k)
           noted == [j \in DOMAIN job.state \union group |->
                        IF j \in group THEN Fresh(j, job.batch[j]) ELSE job.state[j]]
       IN /\ job' = [job EXCEPT !.step = IF job.todo = group THEN "final" ELSE "send",
                                !.todo = @ \ group, !.state = noted]
          /\ heard' = [j \in Checks |-> IF j \in group THEN job.batch[j] ELSE heard[j]]
    /\ UNCHANGED <<alert, known, answered, excused, changes, breaks>>

\* One DM per group, noted in memory.
SendGroup(k) ==
    /\ job.step = "send" /\ k \in job.todo
    /\ LET group == GroupOf(k)
           noted == [j \in DOMAIN job.state \union group |->
                        IF j \in group THEN Fresh(j, job.batch[j]) ELSE job.state[j]]
       IN \E kept \in SUBSET DOMAIN noted :
            /\ Bounded(noted, kept)
            /\ job' = [job EXCEPT !.step = "save", !.state = Within(noted, kept), !.group = group]
            /\ heard' = [j \in Checks |-> IF j \in group THEN job.batch[j] ELSE heard[j]]
            /\ excused' = (excused \ (group \intersect kept)) \union (DOMAIN noted \ kept)
    /\ UNCHANGED <<alert, known, answered, changes, breaks>>

\* The delivered group is on disk before the next DM is tried.
Save ==
    /\ job.step = "save"
    /\ known' = job.state
    /\ LET left == job.todo \ job.group
       IN job' = [job EXCEPT !.todo = left, !.group = {},
                             !.step = IF left = {} THEN "final" ELSE "send"]
    /\ UNCHANGED <<alert, heard, answered, excused, changes, breaks>>

\* The last save, and 200.
Answer200 ==
    /\ job.step = "final"
    /\ known' = job.state
    /\ answered' = job.batch
    /\ job' = NoJob
    /\ UNCHANGED <<alert, heard, excused, changes, breaks>>

\* Discord refuses the DM: 503, and nothing of this group was told.
DMRefused ==
    /\ job.step = "send"
    /\ job' = NoJob
    /\ UNCHANGED <<alert, known, heard, answered, excused, changes, breaks>>

\* 503 or a death after a DM landed and before it was recorded.
BreaksOff ==
    /\ job.step # "idle" /\ breaks < MaxBreaks
    /\ breaks' = breaks + 1
    /\ \/ /\ job.step = "send"
          /\ \E k \in job.todo :
                /\ heard' = [j \in Checks |-> IF j \in GroupOf(k) THEN job.batch[j] ELSE heard[j]]
                /\ excused' = excused \union GroupOf(k)
       \/ job.step # "send" /\ excused' = excused \union job.group /\ UNCHANGED heard
    /\ job' = NoJob
    /\ UNCHANGED <<alert, known, answered, changes>>

-------------------------------------------------------------------------------
RelayNext ==
    \/ \E k \in Checks : Turns(k) \/ Ages(k) \/ SendGroup(k)
    \/ \E S \in SUBSET Checks : Post(S)
    \/ Save \/ Answer200 \/ DMRefused \/ BreaksOff

RelaySpec == RelayInit /\ [][RelayNext]_relayVars

-------------------------------------------------------------------------------
(* Properties.                                                               *)

\* The file says what the owner was told, and an answered request has been told: the last he
\* heard of each of its alerts is what the request said, or it ended something he never heard
\* of.  Except for alerts that a break or a limit has parted from the file since.
OwnerKnows ==
    \A k \in Checks \ excused :
        /\ job.step = "idle" =>
              heard[k] = IF k \in DOMAIN known THEN known[k].status ELSE "none"
        /\ k \in DOMAIN answered =>
              heard[k] = answered[k] \/ (heard[k] = "none" /\ answered[k] = "resolved")
===============================================================================
