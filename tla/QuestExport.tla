------------------------------ MODULE QuestExport ------------------------------
(***************************************************************************)
(* quests.json, the quests as the site shows them                          *)
(* (modules/quest_exporter.py; cogs/scheduled.py, _check_quest_export;     *)
(* cogs/quests.py, !exportquests). An export reads the normal quests, then *)
(* the alternative ones, and names them from the masterfile. When the      *)
(* content is what the meta file says was exported, and the payload on     *)
(* disk holds it and is of today, nothing is written; otherwise payload    *)
(* and meta file are replaced, one after the other. The site ignores a     *)
(* payload that is not stamped today.                                      *)
(***************************************************************************)
EXTENDS Integers

CONSTANTS
    Exports,      \* coroutines that export: the scheduler's tick, an admin
    MaxScans,     \* bound: changes of the scanned quests in a day
    ExportEvery,  \* 30 minutes, in ticks
    LastDate       \* bound: days modelled, from 0

ASSUME QuestExportAssumption ==
    /\ {MaxScans, LastDate} \subseteq Nat /\ ExportEvery \in Nat \ {0}
    /\ "tick" \in Exports

LongAgo == ExportEvery

\* The quests of one kind: the day they are of and the changes since; none at all
\* are the same on every day.
Nothing == [day |-> -1, scans |-> 0]
Version == {Nothing} \union [day: 0..LastDate, scans: 1..MaxScans]
\* A reward is named from the masterfile, or by its bare number (_map_reward).
Names == {"full", "bare"}
Content == [quest: Version, alternative: Version, named: Names]
NoContent == [quest |-> Nothing, alternative |-> Nothing, named |-> "never"]
NoFile == [content |-> NoContent, day |-> -1]

VARIABLES
    today,
    quests, alternatives,   \* the scanner's rows of each kind
    named,     \* the masterfile and the translations are loaded
    stage,        \* where each export is
    draft,     \* what it has read so far
    payload,   \* quests.json: its content and the day of generatedAt
    meta,      \* quests-meta.json: the content it says was exported
    lastTick,  \* age of _last_quest_export
    overran,   \* observation: exports that were under way at midnight
    spoiled,   \* observation: one of them finished, and none begun today since
    result     \* observation: content and day of the last export that finished

scannerRows == <<today, quests, alternatives>>
files   == <<payload, meta>>
exportSeen    == <<overran, spoiled, result>>
exportVars == <<scannerRows, named, stage, draft, files, lastTick, exportSeen>>

Empty == [quest |-> Nothing, alternative |-> Nothing, named |-> "bare"]

ExportTypeOK ==
    /\ today \in 0..LastDate /\ {quests, alternatives} \subseteq Version
    /\ named \in Names
    /\ stage \in [Exports -> {"idle", "quests", "alternatives", "build"}]
    /\ draft \in [Exports -> Content]
    /\ payload \in {NoFile} \union [content: Content, day: 0..LastDate]
    /\ meta \in {NoContent} \union Content
    /\ lastTick \in 0..LongAgo
    /\ overran \subseteq Exports /\ spoiled \in BOOLEAN
    /\ result \in {NoFile} \union [content: Content, day: 0..LastDate]

ExportInit ==
    /\ today = 0 /\ quests = Nothing /\ alternatives = Nothing /\ named = "full"
    /\ stage = [e \in Exports |-> "idle"] /\ draft = [e \in Exports |-> Empty]
    /\ payload = NoFile /\ meta = NoContent
    /\ lastTick = LongAgo /\ overran = {} /\ spoiled = FALSE
    /\ result = NoFile

-------------------------------------------------------------------------------
\* Scanned, or found to be gone: the content may return to what it was.
More(version) == [day |-> today, scans |-> version.scans + 1]
Fewer(version) == IF version.scans = 1 THEN Nothing
                  ELSE [version EXCEPT !.scans = @ - 1]

ScannerScans ==
    /\ \/ quests.scans < MaxScans /\ quests' = More(quests) /\ UNCHANGED alternatives
       \/ quests.scans > 0 /\ quests' = Fewer(quests) /\ UNCHANGED alternatives
       \/ alternatives.scans < MaxScans /\ alternatives' = More(alternatives)
                                        /\ UNCHANGED quests
    /\ UNCHANGED <<today, named, stage, draft, files, lastTick, exportSeen>>

NewDate ==
    /\ today < LastDate /\ today' = today + 1
    /\ quests' = Nothing /\ alternatives' = Nothing
    /\ overran' = {e \in Exports : stage[e] # "idle"}
    /\ spoiled' = FALSE
    /\ UNCHANGED <<named, stage, draft, files, lastTick, result>>

Minutes ==
    /\ lastTick < LongAgo /\ stage["tick"] = "idle"
    /\ lastTick' = lastTick + 1
    /\ UNCHANGED <<scannerRows, named, stage, draft, files, exportSeen>>

-------------------------------------------------------------------------------
\* _check_quest_export notes the time before it exports; the end of a scan exports
\* at any time; so does !exportquests.
CheckQuestExport ==
    /\ stage["tick"] = "idle" /\ lastTick = LongAgo
    /\ lastTick' = 0
    /\ stage' = [stage EXCEPT !["tick"] = "quests"]
    /\ draft' = [draft EXCEPT !["tick"].named = named]
    /\ UNCHANGED <<scannerRows, named, files, exportSeen>>

ExportNow(e) ==
    /\ stage[e] = "idle"
    /\ stage' = [stage EXCEPT ![e] = "quests"]
    /\ draft' = [draft EXCEPT ![e].named = named]
    /\ lastTick' = IF e = "tick" THEN 0 ELSE lastTick
    /\ UNCHANGED <<scannerRows, named, files, exportSeen>>

ReadQuests(e) ==
    /\ stage[e] = "quests"
    /\ draft' = [draft EXCEPT ![e].quest = quests]
    /\ stage' = [stage EXCEPT ![e] = "alternatives"]
    /\ UNCHANGED <<scannerRows, named, files, lastTick, exportSeen>>

ReadAlternatives(e) ==
    /\ stage[e] = "alternatives"
    /\ draft' = [draft EXCEPT ![e].alternative = alternatives]
    /\ stage' = [stage EXCEPT ![e] = "build"]
    /\ UNCHANGED <<scannerRows, named, files, lastTick, exportSeen>>

Drop(e) ==
    /\ stage' = [stage EXCEPT ![e] = "idle"]
    /\ draft' = [draft EXCEPT ![e] = Empty]
    /\ overran' = overran \ {e}

\* Mutant of PayloadUsable: any payload with the same quests will do.
PayloadUsable_AnyDay(content) == payload.content = content

\* _payload_usable.
PayloadUsable(content) == payload = [content |-> content, day |-> today]

Unchanged(content) == meta = content /\ PayloadUsable(content)

Finish(e) ==
    /\ stage[e] = "build"
    /\ Drop(e)
    /\ spoiled' = (e \in overran)
    /\ result' = [content |-> draft[e], day |-> today]
    /\ UNCHANGED <<scannerRows, named, lastTick>>

Skip(e) ==
    /\ Unchanged(draft[e])
    /\ Finish(e)
    /\ UNCHANGED files

\* _write_json_atomic, twice: nothing else runs between the two files, but the
\* second may fail, or the process die before it.
Write(e, both) ==
    /\ ~Unchanged(draft[e])
    /\ payload' = [content |-> draft[e], day |-> today]
    /\ meta' = IF both THEN draft[e] ELSE meta
    /\ Finish(e)

\* A read or a write fails: the export is over.
ExportFails(e) ==
    /\ stage[e] # "idle"
    /\ Drop(e)
    /\ UNCHANGED <<scannerRows, named, files, lastTick, spoiled, result>>

LoadNames ==
    /\ named = "bare" /\ named' = "full"
    /\ UNCHANGED <<scannerRows, stage, draft, files, lastTick, exportSeen>>

\* The masterfile is downloaded again by a new process, and may not come.
ExportRestart ==
    /\ named' \in Names
    /\ stage' = [e \in Exports |-> "idle"] /\ draft' = [e \in Exports |-> Empty]
    /\ lastTick' = LongAgo /\ overran' = {}
    /\ UNCHANGED <<scannerRows, files, spoiled, result>>

ExportNext ==
    \/ ScannerScans \/ NewDate \/ Minutes \/ CheckQuestExport \/ LoadNames \/ ExportRestart
    \/ \E e \in Exports :
           \/ ExportNow(e) \/ ReadQuests(e) \/ ReadAlternatives(e)
           \/ Skip(e) \/ ExportFails(e)
           \/ \E both \in BOOLEAN : Write(e, both)

ExportSpec == ExportInit /\ [][ExportNext]_exportVars

-------------------------------------------------------------------------------
KindsOf(content) == {content.quest, content.alternative} \ {Nothing}

\* The site shows no quest of an earlier day, whatever crashes, skipped writes and
\* payloads of other days came before: only an export that was under way at midnight
\* may stamp what it had read with the new day, until the next one finishes.
SiteShowsToday ==
    payload.day = today /\ ~spoiled => \A v \in KindsOf(payload.content) : v.day = today

\* What the last export to finish had read is what the site has, whether it wrote or
\* found nothing to write, and whatever pair of files a crash had left.
DoneIsOnDisk == result # NoFile => payload = result

\* What the exporter promises the site.
QuestsArePublished == SiteShowsToday /\ DoneIsOnDisk

=============================================================================
