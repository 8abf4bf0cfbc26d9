----------------------------- MODULE EventNotices -----------------------------
(***************************************************************************)
(* The calendar and its two notices, "Novos eventos" and "Eventos que      *)
(* terminaram": EventManager stores a feed of events and selects what      *)
(* began or ended (modules/event_manager.py), Scheduled posts them in      *)
(* batches and marks what Discord accepted (cogs/scheduled.py).            *)
(*                                                                         *)
(* The feed often lists one event twice, with different times. The copies  *)
(* share a name and overlap; only the earliest start and the latest end    *)
(* are posted. A row is known by the feed's eventID, so a reschedule keeps *)
(* its marks. What a batch holds, and in which order, is left open.        *)
(***************************************************************************)
EXTENDS Integers, FiniteSets, FiniteSetsExt

CONSTANTS
    Events,      \* eventIDs
    Copies,      \* those that share one name; the others have their own
    Horizon,     \* bound: the last moment
    MaxTroubles  \* bound: of all kinds together, see troubles

ASSUME EventNoticesAssumption ==
    /\ Copies \subseteq Events
    /\ Horizon \in Nat /\ MaxTroubles \in Nat

Unlisted == [start |-> 0, end |-> 0]
Spans == {s \in [start : 0..Horizon, end : 0..Horizon] : s.start < s.end}

\* The key of the table is the name and the start.
Keyed(cal) ==
    \A e, f \in Copies :
        (e # f /\ cal[e] # Unlisted /\ cal[f] # Unlisted) => cal[e].start # cal[f].start
Calendars == {cal \in [Events -> Spans \union {Unlisted}] : Keyed(cal)}

VARIABLES
    now,
    feed,                \* feed[e]: where ScrapedDuck has e
    row,                 \* row[e]: where the table event has e
    startMark, endMark,  \* rows whose notification_date / _end_date is set
    excluded,            \* events of an excluded type
    started, ended,      \* selected and not posted yet
    acking,              \* posted, still to be marked
    kind,                \* which notice acking is of
    \* observation
    startTold, endTold,  \* posts that name e
    checked,             \* a check ran at this moment, on these rows
    troubles             \* how often each kind of trouble happened

table   == <<row, startMark, endMark>>
posting == <<started, ended, acking, kind>>
posts   == <<startTold, endTold>>
vars    == <<now, feed, table, excluded, posting, posts, checked, troubles>>

\* A change of the feed; a moment without the bot; a batch Discord refuses; a
\* crash, or a mark or row that is not written; an !exclude or !include.
Troubles == {"move", "down", "refusal", "fault", "toggle"}

Trouble(k) ==
    /\ SumFunction(troubles) < MaxTroubles
    /\ troubles' = [troubles EXCEPT ![k] = @ + 1]

Spared(k) == troubles[k] = 0

TypeOK ==
    /\ now \in 0..Horizon
    /\ feed \in Calendars
    /\ row \in Calendars
    /\ startMark \subseteq Events /\ endMark \subseteq Events
    /\ excluded \subseteq Events
    /\ started \subseteq Events /\ ended \subseteq Events /\ acking \subseteq Events
    /\ started \intersect ended = {}
    /\ kind \in {"start", "end"}
    /\ startTold \in [Events -> Nat] /\ endTold \in [Events -> Nat]
    /\ checked \in BOOLEAN
    /\ troubles \in [Troubles -> 0..MaxTroubles]

Init ==
    /\ now = 0
    /\ feed \in Calendars
    /\ row = feed
    /\ startMark = {} /\ endMark = {}
    /\ excluded = {}
    /\ started = {} /\ ended = {} /\ acking = {} /\ kind = "end"
    /\ startTold = [e \in Events |-> 0] /\ endTold = [e \in Events |-> 0]
    /\ checked = FALSE
    /\ troubles = [k \in Troubles |-> 0]

Idle == started = {} /\ ended = {} /\ acking = {}

Stored == {e \in Events : row[e] # Unlisted}

\* Mutant of Active: an event that is over still counts as running.
Active_Open(e) == e \in Stored /\ row[e].start <= now

Active(e) == e \in Stored /\ row[e].start <= now /\ now < row[e].end
Over(e)   == e \in Stored /\ row[e].end <= now

SameName(e, f) == (e = f) \/ ({e, f} \subseteq Copies)

-------------------------------------------------------------------------------
\* drop_twins.

Twins(e) ==
    {f \in Stored : /\ SameName(e, f) /\ row[f] # row[e]
                    /\ row[f].start < row[e].end /\ row[e].start < row[f].end}

Sooner(s, t) == s.start < t.start \/ (s.start = t.start /\ s.end < t.end)

\* Mutant of Later: copies that end together hide each other.
Later_Ties(s, t) == s.end >= t.end

Later(s, t) == s.end > t.end \/ (s.end = t.end /\ s.start > t.start)

\* Mutant of Earliest: only a copy that is running hides another.
Earliest_Running(e) == ~\E f \in Twins(e) : Sooner(row[f], row[e]) /\ row[f].end > now

Earliest(e) == ~\E f \in Twins(e) : Sooner(row[f], row[e])
Latest(e)   == ~\E f \in Twins(e) : Later(row[f], row[e])

\* One of a name in a batch; which one is the order of the rows.
OnePerName(S) ==
    {T \in SUBSET S : /\ \A e, f \in T : SameName(e, f) => e = f
                      /\ \A e \in S : \E f \in T : SameName(e, f)}

\* check_current_events_changes: what began and ended and has no mark.
Began == {e \in Events \ (excluded \union startMark) : Active(e) /\ Earliest(e)}
Ceased == {e \in Events \ (excluded \union endMark) : Over(e) /\ Latest(e)}

Check ==
    /\ Idle
    /\ started' \in OnePerName(Began)
    /\ ended' \in OnePerName(Ceased)
    /\ checked' = TRUE
    /\ UNCHANGED <<now, feed, table, excluded, acking, kind, posts, troubles>>

\* _send_event_batches: a batch Discord accepts is marked before the next one;
\* one it refuses leaves the rest for the next tick. Ended events go first.
Posted(told, B) == [e \in Events |-> IF e \in B THEN told[e] + 1 ELSE told[e]]

Send ==
    /\ acking = {}
    /\ \/ /\ ended # {}
          /\ \E B \in SUBSET ended \ {{}} :
                acking' = B /\ ended' = ended \ B /\ endTold' = Posted(endTold, B)
          /\ kind' = "end"
          /\ UNCHANGED <<started, startTold>>
       \/ /\ ended = {} /\ started # {}
          /\ \E B \in SUBSET started \ {{}} :
                acking' = B /\ started' = started \ B /\ startTold' = Posted(startTold, B)
          /\ kind' = "start"
          /\ UNCHANGED <<ended, endTold>>
    /\ UNCHANGED <<now, feed, table, excluded, checked, troubles>>

Abandon == started' = {} /\ ended' = {} /\ acking' = {} /\ UNCHANGED kind

\* Mutant of Refused: the rows are marked as if they had been posted.
Refused_Marked ==
    /\ acking = {} /\ ~Idle
    /\ Trouble("refusal")
    /\ startMark' = startMark \union started
    /\ endMark' = endMark \union ended
    /\ Abandon
    /\ checked' = FALSE
    /\ UNCHANGED <<now, feed, row, excluded, posts>>

Refused ==
    /\ acking = {} /\ ~Idle
    /\ Trouble("refusal")
    /\ Abandon
    /\ checked' = FALSE
    /\ UNCHANGED <<now, feed, table, excluded, posts>>

\* mark_event_notified: by name and start, which is the row, or by name and end,
\* which copies may share.
Ack ==
    /\ \E e \in acking :
          /\ acking' = acking \ {e}
          /\ IF kind = "start"
             THEN startMark' = startMark \union {e} /\ UNCHANGED endMark
             ELSE /\ endMark' = endMark \union
                        {f \in Stored : SameName(e, f) /\ row[f].end = row[e].end}
                  /\ UNCHANGED startMark
    /\ UNCHANGED <<now, feed, row, excluded, started, ended, kind, posts, checked, troubles>>

\* The mark is not written, or the bot dies: what was posted may be unmarked.
Fails ==
    /\ ~Idle
    /\ Trouble("fault")
    /\ Abandon
    /\ checked' = FALSE
    /\ UNCHANGED <<now, feed, table, excluded, posts>>

-------------------------------------------------------------------------------
\* The feed, the clock and the admin.

Publish ==
    /\ Trouble("move")
    /\ \E e \in Events, s \in Spans \union {Unlisted} : feed' = [feed EXCEPT ![e] = s]
    /\ Keyed(feed')
    /\ UNCHANGED <<now, table, excluded, posting, posts, checked>>

\* fetch_events, between two checks: a row follows the feed and keeps its marks;
\* a future row that is not listed is deleted, once every row was written. A row
\* that moves onto another's key is not written.
Fetch ==
    /\ Idle
    /\ \E lost \in SUBSET {e \in Events : feed[e] # Unlisted} :
          /\ IF lost = {} THEN UNCHANGED troubles ELSE Trouble("fault")
          /\ row' = [e \in Events |->
                       IF feed[e] # Unlisted THEN IF e \in lost THEN row[e] ELSE feed[e]
                       ELSE IF lost = {} /\ row[e].start > now THEN Unlisted ELSE row[e]]
          /\ Keyed(row')
          /\ startMark' = {e \in startMark : row'[e] # Unlisted}
          /\ endMark' = {e \in endMark : row'[e] # Unlisted}
    /\ checked' = FALSE
    /\ UNCHANGED <<now, feed, excluded, posting, posts>>

\* A moment passes, with a tick in it unless the bot is down.
Advance ==
    /\ Idle /\ now < Horizon
    /\ now' = now + 1
    /\ IF checked THEN UNCHANGED troubles ELSE Trouble("down")
    /\ checked' = FALSE
    /\ UNCHANGED <<feed, table, excluded, posting, posts>>

Exclude ==
    /\ Trouble("toggle")
    /\ \E e \in Events :
          excluded' = IF e \in excluded THEN excluded \ {e} ELSE excluded \union {e}
    /\ checked' = FALSE
    /\ UNCHANGED <<now, feed, table, posting, posts>>

Next == Check \/ Send \/ Refused \/ Ack \/ Fails \/ Publish \/ Fetch \/ Advance \/ Exclude

Spec == Init /\ [][Next]_vars

-------------------------------------------------------------------------------
\* The event that e is a copy of: copies linked by overlaps, which is what every set with
\* e has that has the twins of its own.
Closed(S) == \A f \in S : Twins(f) \subseteq S
Event(e)  == {f \in Events : \A S \in SUBSET Events : e \in S /\ Closed(S) => f \in S}

\* The posts that name one of S.
Posts(told, S) == UNION {{e} \X (1..told[e]) : e \in S}
Total(told, S) == Cardinality(Posts(told, S))

\* However copies overlap, end together or chain, an event is announced once and
\* its end once, a fault aside; no copy is announced in another's place.
OncePerEvent ==
    Spared("move") =>
        \A e \in Stored :
            LET copies == Event(e) IN
            /\ Total(startTold, copies) <= 1 + troubles["fault"]
            /\ Total(endTold, copies) <= 1 + troubles["fault"]

\* A mark is a post Discord accepted: refused batches, crashes, failed writes and
\* reschedules leave no event silently done.
MarkedWasTold ==
    /\ \A e \in startMark : startTold[e] > 0
    /\ \A e \in endMark : \E f \in Events : SameName(e, f) /\ endTold[f] > 0

Gone(e) == Over(e) /\ \A f \in Event(e) : Over(f) /\ f \notin excluded

\* No notice is lost, whatever earlier ticks refused or lost. After a tick that
\* went through, every running event has been announced: the bot must have been
\* up when it began, for a copy that came and went meanwhile still hides the
\* others. The end of an event whose copies are all over is told, on its way, or
\* among what the next tick selects.
NoNoticeLost ==
    /\ (Idle /\ checked /\ \A k \in {"move", "down", "toggle"} : Spared(k)) =>
          \A e \in Events : Active(e) => \E f \in Event(e) : startTold[f] > 0
    /\ Spared("move") =>
          \A e \in Events : Gone(e) =>
              \E f \in Event(e) : endTold[f] > 0 \/ f \in Ceased

\* The marks tell the truth, in both directions.
MarksAreTrue == MarkedWasTold /\ NoNoticeLost
===============================================================================
