---------------------------- MODULE ScheduledPosts ----------------------------
(***************************************************************************)
(* The posts made once a day or a week behind a marker: the weekly         *)
(* calendar and the owner's digest of errors (cogs/scheduled.py,           *)
(* modules/utility.py), the two shiny leaderboards                         *)
(* (modules/shiny_leaderboard.py, cogs/spawn_history.py), and the          *)
(* announcement of a forced version, whose marker is the version itself.   *)
(* Every tick asks whether a post is due; the parts of a post are sent one *)
(* by one, then the marker is set in memory and saved. A part that cannot  *)
(* be sent leaves the marker as it was, and the next tick starts again.    *)
(*                                                                         *)
(* The posts share nothing: a behaviour follows one of them, `job`. Time   *)
(* is in seconds of the log, DayLength of them a day.                      *)
(***************************************************************************)
EXTENDS Integers, FiniteSets

CONSTANTS
    DayLength,   \* seconds in a day
    Nine,        \* the second of the day from which posts are due
    LastSecond,  \* bound: the last second modelled
    WeekLength,  \* days in a week, whose first is Monday
    Chunks,      \* messages the weekly calendar is split into
    Entries,     \* entries of error.log
    Preview,     \* entries of a digest that its text lists
    MaxVersion   \* bound: forced versions released

ASSUME ScheduledPostsAssumption ==
    /\ DayLength \in Nat \ {0} /\ Nine \in 0..DayLength-1
    /\ {LastSecond, MaxVersion} \subseteq Nat
    /\ {WeekLength, Chunks, Preview} \subseteq Nat \ {0}
    /\ IsFiniteSet(Entries)

NotYet == -DayLength
DayBefore == -1
Times == {NotYet, DayBefore} \union 0..LastSecond
Day(second) == second \div DayLength

Jobs == {"week", "errors", "boards", "version"}

VARIABLES
    job,       \* the post this behaviour is about
    now,
    marker,    \* when it was last done, in memory; of the boards only the day counts
    saved,     \* the same in the poliswag table
    part,      \* 0 between posts, else the part to be sent next, or Saving
    started,   \* `now` of the tick that is posting, or that posted last
    recipient, \* whether Config.MY_ID is set
    batch,     \* entries of the digest that is being sent
    logged,    \* when an entry was written to error.log
    posted,    \* observation: times a part was posted on that tick's day, up to 2
    nothingDue,     \* observation: a tick of that day had nothing to post
    slip,      \* observation: the last part of that day that may be repeated
    told,      \* observation: entries that a digest the owner got counts
    listed,    \* observation: those whose line was in its text
    clipped,   \* observation: those whose line was lost with the text's end
    late,      \* observation: entries of the second of a digest, after it was read
    passed,    \* observation: entries read when there was no recipient
    rotated,   \* entries moved to error.log.1
    blind,     \* observation: error.log could not be read, or no marker
    published, \* the forced version Niantic publishes
    version,   \* the version in the poliswag table
    calls,     \* observation: times each version was announced, up to 2
    missed     \* observation: versions whose save or announcement failed

post     == <<marker, saved, part, started, posted, nothingDue, slip>>
entries  == <<recipient, batch, logged, told, listed, clipped, late, passed, rotated, blind>>
releases == <<published, version, calls, missed>>
postVars == <<job, now, post, entries, releases>>

Saving == Chunks + 2
AllParts == 1..Chunks + 1
\* The calendar's messages; the shiny board, then the shundo board; one message.
Parts == IF job = "week" THEN 1..Chunks ELSE IF job = "boards" THEN 1..2 ELSE 1..1
Twice(n) == IF n < 2 THEN n + 1 ELSE n

PostTypeOK ==
    /\ job \in Jobs /\ now \in 0..LastSecond
    /\ {marker, saved, started} \subseteq Times
    /\ part \in 0..Saving /\ slip \in 0..Saving
    /\ posted \in [AllParts -> 0..2]
    /\ {nothingDue, blind, recipient} \subseteq BOOLEAN
    /\ logged \in [Entries -> Times]
    /\ \A read \in {batch, told, listed, clipped, late, passed, rotated} :
           read \subseteq Entries
    /\ {published, version} \subseteq 0..MaxVersion
    /\ calls \in [1..MaxVersion -> 0..2] /\ missed \subseteq 1..MaxVersion

PostInit ==
    /\ job \in Jobs /\ now = 0
    /\ saved \in {NotYet, DayBefore} /\ marker = saved /\ part = 0 /\ started = NotYet
    /\ posted = [p \in AllParts |-> 0] /\ nothingDue = FALSE /\ slip = 0
    /\ recipient \in IF job = "errors" THEN BOOLEAN ELSE {TRUE}
    /\ logged = [e \in Entries |-> NotYet] /\ batch = {}
    /\ told = {} /\ listed = {} /\ clipped = {} /\ late = {} /\ passed = {} /\ rotated = {}
    /\ blind = (saved = NotYet)
    /\ published = 0 /\ version = 0 /\ missed = {}
    /\ calls = [v \in 1..MaxVersion |-> 0]

-------------------------------------------------------------------------------
Second ==
    /\ now < LastSecond /\ now' = now + 1
    /\ UNCHANGED <<job, post, entries, releases>>

\* A log that has grown enough becomes error.log.1, and the entry is the first of
\* a new one.
LogError(e, rolls) ==
    /\ job = "errors" /\ logged[e] = NotYet
    /\ logged' = [logged EXCEPT ![e] = now]
    /\ late' = IF started = now THEN late \union {e} ELSE late
    /\ rotated' =
           IF rolls THEN rotated \union {f \in Entries : logged[f] # NotYet} ELSE rotated
    /\ UNCHANGED <<job, now, post, recipient, batch, told, listed, clipped, passed, blind,
                   releases>>

-------------------------------------------------------------------------------
\* Whether a post is due: past nine, on its day, and not done yet that day.
DoneToday(mark) == Day(mark) = Day(now)

DueNow ==
    /\ job # "version" /\ part = 0
    /\ now % DayLength >= Nine
    /\ job = "week" => Day(now) % WeekLength = 0
    /\ ~DoneToday(marker)

\* read_new_error_entries: what was logged after the last digest, or in the last
\* day, by the second, and is still in error.log. A log that cannot be read has no
\* entries.
NewEntries(readable) ==
    LET since == IF marker = NotYet THEN now - DayLength ELSE marker
    IN  IF readable THEN {e \in Entries \ rotated : logged[e] > since} ELSE {}

\* What was posted on an earlier day is forgotten.
NewDay(nothing) ==
    LET same == Day(started) = Day(now) IN
    /\ started' = now
    /\ nothingDue' = (nothing \/ (same /\ nothingDue))
    /\ posted' = IF same THEN posted ELSE [p \in AllParts |-> 0]
    /\ slip' = IF same THEN slip ELSE 0

Compose(nothing) ==
    /\ NewDay(nothing)
    /\ marker' = IF nothing THEN now ELSE marker
    /\ part' = IF nothing THEN Saving ELSE 1
    /\ UNCHANGED saved

\* A week without events, or a channel that is not configured, is done too.
CheckWeeklyDigest(nothing) ==
    /\ job = "week" /\ DueNow
    /\ Compose(nothing)
    /\ UNCHANGED <<job, now, entries, releases>>

\* With no one to send it to, the day's digest is done too.
CheckErrorDigest(readable) ==
    /\ job = "errors" /\ DueNow
    /\ batch' = IF recipient THEN NewEntries(readable) ELSE {}
    /\ passed' = IF recipient THEN passed ELSE passed \union NewEntries(readable)
    /\ blind' = (blind \/ ~readable)
    /\ Compose(batch' = {})
    /\ UNCHANGED <<job, now, recipient, logged, told, listed, clipped, late, rotated,
                   releases>>

\* ShinyLeaderboard.tick reads the saved date too. Without data it raises.
LeaderboardTick ==
    /\ job = "boards" /\ DueNow
    /\ IF DoneToday(saved)
       THEN /\ marker' = saved
            /\ UNCHANGED <<saved, part, started, posted, nothingDue, slip>>
       ELSE Compose(FALSE)
    /\ UNCHANGED <<job, now, entries, releases>>

\* The first n of a set of entries, which are in the log in the order of their
\* seconds.
FirstOf(n, read) ==
    {first \in SUBSET read :
        \/ first = read /\ Cardinality(first) <= n
        \/ /\ Cardinality(first) = n
           /\ \A e \in first, f \in read \ first : logged[e] <= logged[f]}

\* The digest's title counts its entries; its text has a line for the first of
\* them, and is cut where it is too long, though not before its first line.
DigestArrives ==
    \E preview \in FirstOf(Preview, batch), n \in 1..Preview :
        \E text \in FirstOf(n, preview) :
            /\ told' = told \union batch
            /\ listed' = listed \union text
            /\ clipped' = clipped \union (preview \ text)

\* One send. It may land although it fails; the marker is set after the last.
SendPart(sent, landed) ==
    /\ part \in Parts /\ job # "version"
    /\ sent => landed
    /\ posted' = IF landed THEN [posted EXCEPT ![part] = Twice(@)] ELSE posted
    /\ IF landed THEN DigestArrives ELSE UNCHANGED <<told, listed, clipped>>
    /\ part' = IF ~sent THEN 0 ELSE IF part + 1 \in Parts THEN part + 1 ELSE Saving
    /\ slip' = IF sent \/ slip >= part THEN slip ELSE part
    /\ marker' = IF part' = Saving THEN started ELSE marker
    /\ UNCHANGED <<job, now, saved, started, nothingDue, recipient, batch, logged, late,
                   passed, rotated, blind, releases>>

\* Mutant of SaveMarker: a save that fails is forgotten in memory too.
SaveMarker_Undone(landed) ==
    /\ part = Saving
    /\ saved' = IF landed THEN marker ELSE saved
    /\ marker' = saved'
    /\ part' = 0
    /\ batch' = {}
    /\ UNCHANGED <<job, now, started, posted, nothingDue, slip, recipient, logged, told,
                   listed, clipped, late, passed, rotated, blind, releases>>

SaveMarker(landed) ==
    /\ part = Saving
    /\ saved' = IF landed THEN marker ELSE saved
    /\ part' = 0
    /\ batch' = {}
    /\ UNCHANGED <<job, now, marker, started, posted, nothingDue, slip, recipient, logged,
                   told, listed, clipped, late, passed, rotated, blind, releases>>

-------------------------------------------------------------------------------
\* get_new_pokemongo_version and _check_version_update: the version is saved, then
\* announced. A save that fails announces nothing, whether it landed or not.
Release ==
    /\ job = "version" /\ published < MaxVersion
    /\ published' = published + 1
    /\ UNCHANGED <<job, now, post, entries, version, calls, missed>>

CheckVersion(ok, landed) ==
    /\ job = "version" /\ part = 0 /\ version # published
    /\ ok => landed
    /\ version' = IF landed THEN published ELSE version
    /\ missed' = IF ok THEN missed ELSE missed \union {published}
    /\ part' = IF ok THEN 1 ELSE 0
    /\ UNCHANGED <<job, now, marker, saved, started, posted, nothingDue, slip, entries,
                   published, calls>>

AnnounceVersion(sent, landed) ==
    /\ job = "version" /\ part = 1
    /\ sent => landed
    /\ calls' = IF landed THEN [calls EXCEPT ![version] = Twice(@)] ELSE calls
    /\ missed' = IF sent THEN missed ELSE missed \union {version}
    /\ part' = 0
    /\ UNCHANGED <<job, now, marker, saved, started, posted, nothingDue, slip, entries,
                   published, version>>

-------------------------------------------------------------------------------
\* A new process loads the markers once, and knows of none it cannot load; the
\* boards' is read when they are due.
PostRestart(loads) ==
    /\ part' = 0 /\ batch' = {}
    /\ marker' = IF loads /\ job # "boards" THEN saved ELSE NotYet
    /\ slip' = IF part # 0 \/ saved # marker \/ (~loads /\ job # "boards")
               THEN Saving ELSE slip
    /\ blind' = (blind \/ ~loads)
    /\ missed' = IF job = "version" /\ part = 1 THEN missed \union {version} ELSE missed
    /\ UNCHANGED <<job, now, saved, started, posted, nothingDue, recipient, logged, told,
                   listed, clipped, late, passed, rotated, published, version, calls>>

PostNext ==
    \/ Second \/ Release \/ LeaderboardTick
    \/ \E e \in Entries, rolls \in BOOLEAN : LogError(e, rolls)
    \/ \E b \in BOOLEAN : \/ CheckWeeklyDigest(b) \/ CheckErrorDigest(b)
                          \/ SaveMarker(b) \/ PostRestart(b)
    \/ \E ok, landed \in BOOLEAN : \/ SendPart(ok, landed) \/ CheckVersion(ok, landed)
                                   \/ AnnounceVersion(ok, landed)

PostSpec == PostInit /\ [][PostNext]_postVars

-------------------------------------------------------------------------------
\* A post that is marked as done was posted to its last part, or there was
\* nothing to post, or nobody to send it to.
DoneWasPosted ==
    marker >= 0 /\ Day(marker) = Day(started)
        => nothingDue \/ \A p \in Parts : posted[p] > 0

\* Nothing is posted twice on a day but the parts up to one that could not be
\* sent, and what a process did not save before it died.
OncePerDay == \A p \in Parts : posted[p] > 1 => slip >= p

\* The entries that no digest may have counted: those of the second of a digest,
\* logged after it was read; those read when nobody was to be told; those that a
\* rotation took away.
Excepted == late \union passed \union rotated

\* After a first digest, every error logged by the time of one was counted by it
\* or one before, but for those.
ErrorsAreTold ==
    \A e \in Entries :
        logged[e] \in 0..marker /\ ~blind => e \in told \union Excepted

\* An error that was counted but not listed was cut off, or has as many others before
\* it as a text lists.
FirstAreListed ==
    \A e \in told :
        \/ e \in listed \union clipped
        \/ \E first \in SUBSET (listed \union clipped) :
               /\ Cardinality(first) = Preview
               /\ \A f \in first : logged[f] <= logged[e]

\* A version is announced once at most, and once unless something failed.
VersionsAreTold ==
    \A v \in 1..MaxVersion :
        /\ calls[v] < 2
        /\ v = version /\ part = 0 => calls[v] = 1 \/ v \in missed

\* What the posts promise their readers.
PostsAreTrue ==
    DoneWasPosted /\ OncePerDay /\ ErrorsAreTold /\ FirstAreListed /\ VersionsAreTold

=============================================================================
