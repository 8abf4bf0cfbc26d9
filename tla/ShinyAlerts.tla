------------------------------ MODULE ShinyAlerts ------------------------------
(***************************************************************************)
(* What one player is heard of predicted shinies: an alert per spawn        *)
(* (shiny_alerts), and in the same tick a digest of those that only an     *)
(* event's odds predict (shiny_events).  Both share the table shiny_alert. *)
(* All spawns here are predicted for the player, who may have the messages *)
(* switched off whenever the switch is read.  A unit of time is 100        *)
(* seconds, which divides the code's limits as they are compared.          *)
(***************************************************************************)
EXTENDS Integers, FiniteSets

CONSTANTS
    Spawns,        \* encounters, predicted at the base rate or an event's
    AtEvent,       \* those that only an event's odds predict
    Latest,        \* bound: the time
    MaxTroubles    \* bound: times the messages are off, answers of Poracle that get lost, and
                   \* ticks that end early

ASSUME ShinyAlertsAssumption ==
    /\ AtEvent \subseteq Spawns /\ Latest \in Nat
    /\ MaxTroubles \in Nat

VARIABLES
    time,
    spawn,      \* golbat's pokemon
    mark,       \* shiny_alert_watermark; 0 is NULL
    alerts,     \* shiny_alert: delivery_status of each spawn on record
    round,      \* the tick
    \* observation
    heard,      \* messages that named the spawn
    excused,    \* spawns from before the watermark was put on now, or met with the messages off
    offs, losses

alertVars == <<time, spawn, mark, alerts, round, heard, excused,
               offs, losses>>

\* Mutant of LookBack: nothing behind the watermark is read again.
LookBackShort == 0

LookBack == 3        \* LOOK_BACK
WaitForIV == 2       \* WAIT_FOR_IV

NoRound == [step |-> "read", rows |-> {}, todo |-> {}, one |-> {}]

AlertTypeOK ==
    /\ time \in 1..Latest
    /\ spawn \in [Spawns -> [is : {"unseen", "here", "over"}, first : Nat]]
    /\ mark \in Nat
    /\ alerts \in [Spawns -> {"none", "alert", "pending", "sent", "failed"}]
    /\ round \in [step : {"read", "judge", "send", "digest",
                          "record", "summary", "delivered", "refused"},
                  rows : SUBSET Spawns, todo : SUBSET Spawns,
                  one : SUBSET Spawns]
    /\ heard \in [Spawns -> Nat] /\ excused \subseteq Spawns
    /\ offs \in 0..MaxTroubles /\ losses \in 0..MaxTroubles

AlertInit ==
    /\ time = 1 /\ mark \in {0, 1}
    /\ spawn = [s \in Spawns |-> [is |-> "unseen", first |-> 0]]
    /\ alerts = [s \in Spawns |-> "none"] /\ heard = [s \in Spawns |-> 0]
    /\ round = NoRound /\ excused = {}
    /\ offs = 0 /\ losses = 0

-------------------------------------------------------------------------------
(* The game and the scanner, as a tick sees them: it reads the clock and the *)
(* spawns for the alerts, and again for the digest.                          *)

Looks == round.step \in {"read", "digest"}

TimePasses ==
    /\ time < Latest /\ time' = time + 1
    /\ round.step = "read"
    /\ UNCHANGED <<spawn, mark, alerts, round, heard, excused, offs, losses>>

Sighted(s) ==
    /\ Looks /\ spawn[s].is = "unseen"
    /\ spawn' = [spawn EXCEPT ![s] = [is |-> "here", first |-> time]]
    /\ UNCHANGED <<time, mark, alerts, round, heard, excused, offs, losses>>

\* Less than MIN_SECONDS_LEFT from its end.
Expires(s) ==
    /\ Looks /\ spawn[s].is = "here"
    /\ spawn' = [spawn EXCEPT ![s].is = "over"]
    /\ UNCHANGED <<time, mark, alerts, round, heard, excused, offs, losses>>

-------------------------------------------------------------------------------
(* _alert_spawns.                                                            *)

Proceeds(step) == round' = [round EXCEPT !.step = step]

Calm == offs + losses < MaxTroubles

\* The player has switched the messages off.
Off == Calm /\ offs' = offs + 1

\* Nobody to tell, or the first time: from now on.
StartsFromNow ==
    /\ round.step = "read"
    /\ \/ mark = 0 /\ UNCHANGED offs
       \/ Off
    /\ mark' = time
    /\ excused' = excused \union {s \in Spawns : spawn[s].is # "unseen" /\ alerts[s] = "none"}
    /\ Proceeds("digest")
    /\ UNCHANGED <<time, spawn, alerts, heard, losses>>

\* Also what lies up to LookBack behind the watermark.
Worth == {s \in Spawns : spawn[s].is = "here" /\ spawn[s].first >= mark - LookBack}

\* An alert waits for the IV, if the scanner has not read it yet.
ReadSpawns ==
    /\ round.step = "read" /\ mark # 0
    /\ \E measured \in SUBSET Worth :
          round' = [round EXCEPT !.step = "judge", !.rows = Worth,
                                 !.todo = measured \union
                                          {s \in Worth : time - spawn[s].first >= WaitForIV}]
    /\ UNCHANGED <<time, spawn, mark, alerts, heard, excused, offs, losses>>

\* Mutant of RecordAlert: what the digest told is told again.
RecordAlertAgain(s) ==
    /\ round.step = "judge" /\ s \in round.todo
    /\ LET tells == alerts[s] # "alert"
       IN /\ alerts' = IF tells THEN [alerts EXCEPT ![s] = "alert"] ELSE alerts
          /\ round' = [round EXCEPT !.step = IF tells THEN "send" ELSE "judge",
                                    !.todo = @ \ {s}, !.one = {s}]
    /\ UNCHANGED <<time, spawn, mark, heard, excused, offs, losses>>

\* _alert reads the switch again.
PassesOver(s) ==
    /\ round.step = "judge" /\ s \in round.todo
    /\ Off
    /\ round' = [round EXCEPT !.todo = @ \ {s}]
    /\ excused' = excused \union {s}
    /\ UNCHANGED <<time, spawn, mark, alerts, heard, losses>>

\* INSERT IGNORE comes before the message.
RecordAlert(s) ==
    /\ round.step = "judge" /\ s \in round.todo
    /\ LET tells == alerts[s] = "none"
       IN /\ alerts' = IF tells THEN [alerts EXCEPT ![s] = "alert"] ELSE alerts
          /\ round' = [round EXCEPT !.step = IF tells THEN "send" ELSE "judge",
                                    !.todo = @ \ {s}, !.one = {s}]
    /\ UNCHANGED <<time, spawn, mark, heard, excused, offs, losses>>

Tells(S, times) == heard' = [s \in Spawns |-> IF s \in S THEN heard[s] + times ELSE heard[s]]

\* Through Poracle, or as an embed; a refused DM is let go.  When Poracle's answer is lost the
\* player gets both.
SendAlert ==
    /\ round.step = "send"
    /\ \/ \E times \in 0..1 : Tells(round.one, times) /\ UNCHANGED losses
       \/ Calm /\ Tells(round.one, 2) /\ losses' = losses + 1
    /\ Proceeds("judge")
    /\ UNCHANGED <<time, spawn, mark, alerts, excused, offs>>

\* The watermark is the newest spawn that was read: it moves back when that one is over.
MovesMark ==
    /\ round.step = "judge" /\ round.todo = {}
    /\ mark' = IF round.rows = {} THEN mark
               ELSE CHOOSE m \in {spawn[s].first : s \in round.rows} :
                       \A s \in round.rows : spawn[s].first <= m
    /\ round' = [NoRound EXCEPT !.step = "digest"]
    /\ UNCHANGED <<time, spawn, alerts, heard, excused, offs, losses>>

\* The channel refuses the message, or the process dies: the tick ends where it is.
RoundEnds ==
    /\ round.step # "read"
    /\ Calm /\ losses' = losses + 1
    /\ round' = NoRound
    /\ UNCHANGED <<time, spawn, mark, alerts, heard, excused, offs>>

-------------------------------------------------------------------------------
(* ShinyEventDigests.tick.                                                   *)

\* What an event alone predicts and nobody has told, if the last digest is five minutes old.
ClaimDigest ==
    /\ round.step = "digest"
    /\ LET found == {s \in AtEvent : alerts[s] = "none" /\ spawn[s].is = "here"}
       IN \/ /\ found # {}
             /\ round' = [round EXCEPT !.step = "record", !.todo = found]
          \/ round' = NoRound
    /\ UNCHANGED <<time, spawn, mark, alerts, heard, excused, offs, losses>>

\* INSERT IGNORE, one after the other.
RecordDigest(s) ==
    /\ round.step = "record" /\ s \in round.todo
    /\ alerts' = IF alerts[s] = "none" THEN [alerts EXCEPT ![s] = "pending"] ELSE alerts
    /\ round' = [round EXCEPT !.todo = @ \ {s}, !.one = IF alerts[s] = "none" THEN @ \union {s} ELSE @,
                              !.step = IF round.todo = {s} THEN "summary" ELSE "record"]
    /\ UNCHANGED <<time, spawn, mark, heard, excused, offs, losses>>

SendDigest ==
    /\ round.step = "summary"
    /\ \/ Tells(round.one, 1) /\ Proceeds("delivered")
       \/ UNCHANGED heard /\ Proceeds("refused")
    /\ UNCHANGED <<time, spawn, mark, alerts, excused, offs, losses>>

MarkDelivery ==
    /\ round.step \in {"delivered", "refused"}
    /\ alerts' = [s \in Spawns |->
                     IF s \notin round.one \/ alerts[s] # "pending" THEN alerts[s]
                     ELSE IF round.step = "delivered" THEN "sent" ELSE "failed"]
    /\ round' = NoRound
    /\ UNCHANGED <<time, spawn, mark, heard, excused, offs, losses>>

-------------------------------------------------------------------------------
AlertsNext ==
    \/ TimePasses
    \/ \E s \in Spawns : Sighted(s) \/ Expires(s) \/ PassesOver(s) \/ RecordAlert(s) \/ RecordDigest(s)
    \/ StartsFromNow \/ ReadSpawns \/ SendAlert \/ MovesMark \/ RoundEnds
    \/ ClaimDigest \/ SendDigest \/ MarkDelivery

AlertsSpec == AlertInit /\ [][AlertsNext]_alertVars

-------------------------------------------------------------------------------
(* Properties.                                                               *)

\* No spawn is told twice, by either job, but for answers of Poracle that got lost, and
\* what the record calls sent was sent.
ShinyToldOnce ==
    /\ \A s \in Spawns : heard[s] <= 1 + losses
    /\ \A s \in Spawns : alerts[s] = "sent" => heard[s] > 0

\* The watermark never runs ahead of a spawn that waits for its IV: whatever was on the map while
\* there was somebody to tell, still has time and is on no record, is read again.
NoSpawnSkipped ==
    round.step = "read" /\ mark # 0 =>
        {s \in Spawns \ excused : spawn[s].is = "here" /\ alerts[s] = "none"} \subseteq Worth

\* Told once, and none left out.
SpawnsAreTold == ShinyToldOnce /\ NoSpawnSkipped
===============================================================================
