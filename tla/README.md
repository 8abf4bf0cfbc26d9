# Poliswag: TLA+ models, checks and proofs

Poliswag is the Discord bot of a Pokémon GO community (Leiria and Marinha Grande).  It watches a
scanner stack (Dragonite, Golbat, rotom-ng, a phone), reports what it finds, keeps Poracle's
alert rules in step with what players collect, places lures through another service, and runs
agent jobs for its owner.  Around the bot run host scripts (a worker, update and shutdown hooks,
a monitoring relay, a watchdog), a MariaDB server shared with a web site, and services the
repository only calls: Discord, Poracle, PoliSnatch, Dragonite, rotom-ng, Home Assistant.

Almost nothing of this is hard as computation.  What is hard is that every promise ("told once",
"never two at a time", "closed for good") is kept by a process that may die between any two of
its writes, talks to services that refuse or lose calls, reads state before an `await` and uses
it afterwards, and shares its tables with a site that writes while a tick runs.  The models are
about those promises.

Contents: [1 Inventory](#1-inventory), [2 Modules](#2-modules), [3 Runs](#3-runs),
[4 Fairness](#4-fairness), [5 Proofs](#5-proofs),
[6 Where code and documentation disagree](#6-where-code-and-documentation-disagree),
[7 What the models say besides](#7-what-the-models-say-besides),
[8 Not modelled](#8-not-modelled), [9 Plan](#9-plan).

## 1. Inventory

**The tick.**  `main.py` starts the bot; `cogs/scheduled.py` runs `scheduled_tasks` every 60
seconds.  A tick is a list of steps run one after the other by `_run_tick_step`, which catches
and logs every exception, so a step that fails ends there and the next one runs: scan areas,
masterfile, event feed, version, quest scan, exports, event notices, workers (channel names,
map-down alert, stack recovery), lures, accounts, digests, tracking health, trade announcer,
trade DMs, 100IV alerts, shiny odds, availability and alerts, trade digest.  Ticks never
overlap; commands and buttons run between the awaits of a tick.  A second loop in
`cogs/agents.py` delivers job results, and the PoliSnatch poller is a task of its own.

| Component | State it keeps | Operations | Hard because |
| --- | --- | --- | --- |
| Agent jobs (`modules/agent_jobs.py`, `scripts/agent_worker.py`, `cogs/agents.py`) | a directory of JSON files per job, marks, worktrees, a heartbeat; the worker's snapshot; the bot's snapshot of what is to be told | submit, answer, cancel, run, recover, deliver | two processes without a lock, decisions from stale snapshots, crashes between writes |
| Lure jobs (`cogs/lures.py`, `modules/polisnatch_*.py`, `modules/lure_locks.py`) | ledger `polisnatch_job`, table `lure_lock`, the poller's phase and event | ask, record, poll, announce, settle | a remote job that outlives the bot, duplicates, purges, a lost wake-up |
| Stack recovery (`modules/stack_recovery.py`) | the episode, rungs spent, which notices went out | observe, guard, recreate, reset the apps | the world moves during every await; a rung must be spent exactly once |
| Quest scan (`cogs/scheduled.py`, `modules/scanner_status.py`, `modules/scanner_manager.py`, `cogs/quests.py`) | `last_scanned_date`, `scanned`, expected totals; plateau state and message pointer in memory | day change, check, complete, show, !scan | "done" is inferred from counts that stand still; leftovers, a dark scanner, restarts |
| Map-down alerts (`modules/scanner_status.py`) | four flags and a cooldown in memory | down, recovery, dashboard webhook | refused DMs, retries, overlapping outages |
| Database connector (`modules/database_connector.py`) | one connection, one lock, a worker thread per call | query, transaction, retry, reconnect, cancel | cancellation leaves a thread behind; a lost commit is neither done nor undone |
| Events (`modules/event_manager.py`, `modules/event_store.py`) | table `event` with a mark per start and per end, exclusions | fetch, select, post, mark | copies of one event, reschedules, partial batches |
| 100IV alerts (`modules/hundo_alerts.py`, `modules/hundo_confirmation.py`) | settings revisions, a journal of DMs, Poracle's rules, the sync cache | confirm, record, rebuild, clean up, reload | a DM must not be repeated and rules must not be written without it; the site saves meanwhile |
| Trade notices (`modules/trade_dm.py`, `trade_announcer.py`, `trade_digest.py`) | watermarks and notice tables | batch, send, record, advance | at-least-once sends, a cap per tick, late commits |
| Shiny alerts (`modules/shiny_alerts.py`, `shiny_events.py`, `shiny_store.py`) | watermark, one row per alert, revisions of the settings | select, record, send, confirm | look-back windows, record before send, settings saved during a tick |
| Shiny channels (`modules/shiny_channels.py`) | the channel's row, Discord's channel and its category | open, hide, archive, adopt | two stores without a transaction, `!shiny canal` during a tick |
| Shiny access (`modules/shiny_access_requests.py`, `scripts/pokedex_moderation_alert.py`) | requests and the state file of a timer | post, approve, refuse | two moderators, a player who leaves, a lost commit |
| Monitoring relay (`scripts/monitoring_discord_relay.py`) | a file of what the owner was told | receive, group, send, save, prune | send then save, batches sent again |
| Scanner updates (`scripts/scanner-update`, `scanner-db-shutdown`) | Docker's tags, `state.json`, a lock | stage, deploy at shutdown, patch, confirm | a host that stops anywhere |
| Owner runs (`cogs/hermes.py`, `modules/hermes_client.py`) | the turn queue, one record per admitted run | ask, guide, approve, stop, recover | a run that survives the bot, lost answers |
| Public replies (`cogs/mentions.py`, `modules/public_conversation.py`, `conversation_model.py`) | a public job per line asked, slots, `retry_after` | look up, ask, poll, take back | deadlines inside deadlines, a worker busy with the owner |
| Device watch and phone commands (`modules/device_manager.py`, `cogs/container_manager.py`) | ages of the outage and of the last alert, the setting; one adb session | watch, alert, restart the apps, !device | alerts remembered before they are sent; coroutines on one session |
| Status channel (`modules/scanner_status.py`) | the last status written, the rename budget, ages | sum the workers, rename | rate limits, stale worker counts |
| Scan areas (`modules/scan_areas.py`) | a snapshot in memory, a copy on disk, a lock | refresh, fall back, read | partial failure, readers between two awaits |
| Scheduled posts (`cogs/scheduled.py`, `modules/utility.py`, `shiny_leaderboard.py`) | a marker per post, in memory and in the database | ask whether due, send the parts, mark | parts refused, restarts between parts and mark |
| Quests (`modules/quest_search.py`, `quest_exporter.py`, `cogs/quests.py`) | two caches per stop kind; payload and meta file | search, refresh, export | midnight, two exports at once, a crash between two files |
| Catalogue (`modules/quest_search.py`, `mega_exporter.py`, `pokemon_*_sync.py`) | the masterfile in memory and what is derived from it | download, pass, retry | a step that raises ends the pass |
| Poracle rules (`cogs/notifications.py`, `modules/poracle_client.py`) | channels and rules in Poracle's tables, and what it has loaded | add, remove, start, stop, reload | two admins, lost answers, a reload that does not follow |
| Trap channel (`cogs/moderation.py`) | a count in memory and database, the warning message, bans | ban, unban, count, report | handlers interleave at every await |
| Membership (`cogs/pokedex.py`, `modules/trade_player_store.py`) | `left_at` of every player | join, leave, `!pokedex`, align | a snapshot worked through while people move |
| Spawn history (`modules/spawn_history.py`, `cogs/spawn_history.py`) | rows, gaps, the last capture | capture, delete, report | rows that change variant, pauses, the retention window |

The remaining parts (commands that make one call, rendering, mirrors of reference data,
statistics) are in section 8; `PROJECT.json` lists every part with its files.

**How they meet.**  Everything the bot keeps in the `poliswag` schema goes through the shared
connector; trade, shiny and 100IV code open short-lived connections instead and let the database
serialise them with the site.  `scanner_status` feeds `stack_recovery` with the reading it has
just made; `quest scan` and the alerts share the tick but no state.  The bot and the agent
worker meet only in the job directory; the bot and Poracle only in Poracle's tables plus a
reload call.  `device_manager` serves the watch, the ladder and the owner's commands with one adb
session.  The public conversation and the owner's jobs share one worker.  `scan_areas` is read by
the alerts, the rules and the reports, each of which may hold a snapshot across an await.

**What makes each correct**, in a sentence: a job is run one at a time, closed for good and told
(agent jobs); a recorded lure is followed to one outcome, and only verified lures lock a stop
(lures); rungs and notices are bounded, and the phone is reset only after a check that read the
counts of accounts as zero, made again after a recreation (recovery); a scan is called done only
when it is, on every day (quest scan); down and up alternate as far as the bot is told what
became of its DMs, and the truth is told in the end (alerts); calls are atomic, answered and truthful
(connector); every event gets one start and one end notice (events); no DM twice, no rule without
a DM, and convergence (100IV); a trade, a spawn and a request are told, and again only when the
first telling was not recorded (trade notices, shiny, relay); a save the site shows as applied was
applied (shiny access); a deployed version is one whose database fits (updates); a run is
submitted once and its result reaches the owner (owner runs); an answer says what was looked up,
in time (public replies); what a channel, an export, a reply or a report says is so, or was so
when it was written (status, quests, rules, spawn history, membership).

## 2. Modules

One module per component; each file names at its head the code it follows, and `PROJECT.json`
maps every definition to its lines.  An action is a handler, or the part of one between two
awaits or two writes that can fail on their own.  A comment "Mutant of X" marks an operator that
is X with a plausible mistake; it is used nowhere and serves to show that a property can fail.

### AgentQueue, with AgentLifecycle

`submitted`, `result`, `cont`, `cancels`, `notified`, `worktrees` and `beat` are the files;
`View(j)` is what `AgentJobs.get` makes of them.  The bot's commands are `Submit`, `Cancel` and
`resume`, which is split into `ResumeRead` and `ResumeWrite` because the worker may close the job
in between.  The worker takes a snapshot of the queue (`BeginPass`) and works through it in
`TakeJob`, with the snapshot possibly long out of date; `RunAgent` ends in an exit, a deadline, a
cancel mark or a SIGTERM, in the order of the poll loop.  `WorkerStart` is `recover()`.
`Deliver` posts what is not marked and marks it afterwards; either process may die at any step.
`SendFails` is a send that was refused and `AnswerLost` one that landed though its call raised:
the bot cannot tell them apart and posts again after either.
`AgentLifecycle` is the promise: queued, one running, waiting for an answer, closed for good.
`ImplementsLifecycle` maps the files to it by `Phase`.

### LureJobs

`server` is PoliSnatch, `row`, `home` and `notified` the ledger, `lock` the table of stops, `cmd`
a command between its awaits.  `phase` walks the poller: `Tick`, `Poll` per open row, `Announce`
per unannounced one, `Sleep`, `Awake`.  `Sleep` has the event that a command sets when it records
a job.  A crash may fall between the message and its mark (`DiesAnnouncing`), and Discord may take
a message whose call raises (`AnswerLost`, as opposed to `AnnounceFails`), which leaves the row
unannounced all the same.  Orders are pairs of a stop and a lure type; several orders share a lock
key.

### StackRecovery

`Observe` is `observe()` cut at its awaits: guard, recreate, guard again, apps.  The environment
(readings, accounts in use, the setting) may change at each cut.  `Spend` is the assignment of
`_recovery_attempts`, and `AppsRaises` the exception that skips it.  A notice may be swallowed
(`Hears`): a send that is refused, or a channel that is not set, is caught and logged, and the
ladder goes on as if it had gone out.  `Closes` is the notice that the map is back, `unclosed` that
it was this one that was swallowed.

### QuestScan

`count`, `alive` and the leftover rows are the scanner; `rolled`, `scanned` and `expected` the
database; `prev`, `flat`, `quiet`, `cache`, `embedded` and `pointer` the bot's memory.  A tick
walks day change, `Reopen`, `Announce`, `Check`, `AskAlive`, then either the completion
(`Tracked`, `Export`, `Mark`, `Record` per area, `Recorded`, `ShowDone`) or `ShowProgress`; any
of them may raise, which ends the tick there.  `stood`, `old`, `finished` and `lost` are
observations: how long a true count stood still, which counts were yesterday's.

### MapAlerts

`gap` is the age of the newest Pokémon in units of 2.5 minutes; `alerted`, `downSent`, `upSent`
and `cool` are the flags and the cooldown.  `AllDown` and `Restored` are the two triggers whole,
with the webhook accepted or refused and the DM accepted, refused, or denied: `notify_owner`
returns False although it landed (`Lands` and `Denied` beside `Accepted` and `Refused`).  A DM
that is said to have failed is tried again, after the cooldown for an outage, on every tick for a
recovery.

### DatabaseConnector, with CallContract

The coroutine (`call`: queued for the lock, holding it, or orphaned by a cancellation) and its
worker (`thread`) are two state machines per call.  `work` are statements in the open
transaction, `applied` statements in the database, and `limbo` the calls whose commit was on the
wire when the connection broke: the server may still apply it (`Late`).  `CallContract` is what a
caller may rely on.

### EventNotices

Rows follow the feed by their `eventID` and keep their marks when they move.  `Check` selects
what started and what ended, hides the copies, and walks batches of posts (`Send`, any non-empty
part of what is left) and marks (`Ack`), which are written by name and start, or by name and
end.  `Refused`, `Fails`, `Publish`, `Fetch`, `Advance` and `Exclude` are Discord, faults, the
feed, the clock and the admins.

### HundoAlerts

One player.  `Save` is the site: a new revision per change.  A tick is `Read`, the confirmation
(`Claim` writes the journal row, `Post` sends or loses the answer, `Record` writes the outcome if
the row is still "sending", `Recover` settles what an earlier process left), `Reread`, then
`Rebuild`, `Unchanged`, `Stopped` or `Idles`, the cleanup, the reload and the report of health.
The cleanup's SQL (`Kept`) and Python's `is_active` (`IsActive`) are two definitions, because
they compare the selection differently (section 6); `RulesConverge` (in `SettingsTakeEffect`) would fail if the one kept
deleting what the other builds.

### Telling players: TradeNotices, ShinyAlerts, ShinyAccess, ShinyRequests

*TradeNotices* is one model of three senders that differ in their cutoff, cap and record; `sender`
says whose behaviour it is.  The site's transactions (`Adds`, then `Commits`) stamp a row before it
can be seen, which is what the settling delay is for.  `TradeTick` reads the batch with its cutoff,
`SendDM` and `PostMatches` are one message each, and `Rest` decides whether the watermark moves.

*ShinyAlerts* walks a tick: `ReadSpawns`, then per spawn `RecordAlert` before `SendAlert`,
`MovesMark`, then the digest of what only an event's odds predict.  *ShinyAccess* is the player's
switches, his private channel in the database and on Discord, and the two who hold `CHANNEL_LOCK`:
the tick's reconciliation and `!shiny canal`.  `TickBegins` reads the revision first and
`Confirms` is what the site shows as applied.  *ShinyRequests* is the timer's run over two state
files and the buttons of whichever message is pressed, by whom and however late.  A player may leave
(`Leave`) and come back (`Return`): the stamp of the request is kept while the timer forgets its
key, so the request is posted once more.

### Telling the owner: MonitoringRelay, OwnerRuns, PublicReplies

*MonitoringRelay* answers one request at a time: `Post`, a `SendGroup` and a `Save` per group,
`Answer200`.  `DMRefused` and `BreaksOff` end it with 503 or not at all, and Grafana sends what
was not answered again, by then perhaps with other news.

*OwnerRuns* is the bot, the agent's server and the files between them.  A message starts a turn
(`NewTurn`) or guides the running one (`SteerActive`, `Redirect`); a turn waits for the lock, posts
its run, persists the record (`Admit`), polls, answers approvals, delivers, forgets.  The server's
runs (`WorksOn`, `Ends`, `Asks`) go on whatever the bot does; after `BotDies` the next process
lists the records and polls them (`ListPending`, `RecoverRun`).  The server may show an admitted
run as queued (`PollShows`).  Its card then has the button of a turn that still waits, and
`Redirect` takes it out of the lock and hands its text to whatever run is active next
(`Redirected`); a plain message at that moment does the same to the turn it meant to guide
(`SteerQueued`, `Requeues`); a click may also come too late (`RedirectLate`).  A delivery whose
send raised may have arrived as a whole (`ArrivesUnseen`), by the turn or by the recovery.

*PublicReplies* follows questions by the stages of `PublicConversation.reply`, each with its
deadline, inside the deadline of the cog.  `lineJob`, `cancel` and `busySign` are the files between
the bot and the worker, which also serves the owner.  Time is a clock in coarse units; the sums of
the deadlines keep the order they have in the code.

### The host: ScannerUpdate

One service at a time (`kind`): the database, deployed by the shutdown hook, the scanner, deployed
by the recovery, or one that is only reported.  Both scripts are cut into the steps after which a
power loss leaves something behind: tags, the state file, the override, the container, the
signature of what the owner was told.  `Cut` is the host going down anywhere.

### The scanner's surroundings: DeviceWatch, PhoneCommands, StatusChannel, ScanAreas

*DeviceWatch* and *StatusChannel* take a whole tick as one action, because their awaits are
followed by no read of shared state; times are ages in ticks.  *PhoneCommands* is the opposite:
`DeviceManager.run` is cut at every adb call, because the ladder and the owner's commands are
coroutines that share one session and one repair of it.  *ScanAreas* has the lock of `refresh`
with its queue, the registry, the fences fetched area by area, and the copy on disk.

### The scanner's data: QuestAnswers, QuestExport, Catalogue, SpawnHistory

*QuestAnswers* lets searches interleave at each query of a cache that is shared, over midnight.
*QuestExport* lets the tick and `!exportquests` export at once and die between the two files.
*Catalogue* is the pass over what is derived from the masterfile, in which a step that raises ends
the tick.  *SpawnHistory* is the upsert, assignment by assignment in the order MariaDB evaluates
them, the gaps, and what a report may say of a window.

### Members: PoracleRules, TrapChannel, Membership, ScheduledPosts

*PoracleRules* runs the `!notify` commands of two admins call by call; a call is done, refused, or
done with its answer lost, and Poracle alerts on what it last loaded.  *TrapChannel* is one handler
per message, with an await between every two of its steps.  A call that raises may have been
applied (`Ban`, `Unban`, `SaveCount`); what is not Discord's own exception ends the handler, and
without `MOD_CHANNEL` there is no report: `untold` collects the bans of which nobody heard.
*Membership* has the statements that queue for the one connection, the coroutine of `!pokedex` and
the reconciliation of `on_ready`, which works through a snapshot of the members.  The bot connects
with an empty cache (`Connects`, `CacheFills`), over which `is_member` lets everybody pass
(`AskForCode`).  *ScheduledPosts* follows one post (`job`): whether it is due, its parts, its
marker in memory and in the database, and a restart anywhere.  The digest of errors reads what is
in `error.log` since the marker, which loses its entries when it rotates (`LogError`), lists the
first `Preview` of them (ten) in a text that is cut, counts them all, and is marked as done unsent
when there is no owner to send it to (`recipient`).

### The MC modules

A component that shares nothing with another needs no product of states.  `MCFollowUps` (LureJobs
and OwnerRuns), `MCOperations`, `MCPlayers`, `MCServices` and `MCCommunity` therefore put several components into one behaviour
each: `which` chooses a component, only it takes steps, the others keep an initial state.  A
property about another component holds there trivially and is decided where `which` is its own.

### The proof modules

`AgentQueueProofs`, `LureJobsProofs`, `DatabaseConnectorProofs` and `HundoAlertsProofs` extend the
module they are named after.  `OperationsProofs`, `PlayersProofs`, `CommunityProofs` and
`ServicesProofs` have a section per component; the last two also extend the MC module and prove
what it joins.  Section 5 lists what they show.

## 3. Runs

| Run | Instance | Distinct states | Shows |
| --- | --- | --- | --- |
| `agent_queue` | 3 jobs, 2 of them pending, one asks twice, 1 fault | 3.0 M | one job runs; closed stays closed; what the bot lets in; a mark is a message, and a second message had a fault before it; AgentQueue implements AgentLifecycle |
| `agent_queue_live` | 2 jobs, both pending, 1 question each, 1 fault, fair | 0.5 M | cancellations end jobs, accepted jobs are answered, every revision is told |
| `follow_ups` | LureJobs (2 commands, one stop and type, 1 fault), OwnerRuns (2 messages, 1 lost answer, 1 click or death); fair | 0.60 M | one story per lure job, locks only for verified lures, no sleep over an open job; the owner's texts run once and their results are kept, what the code repeats counted; every row and every turn comes to its end |
| `hundo_alerts` | 2 areas, 2 revisions, 2 faults | 2.2 M | one DM per revision, no rules untold, a truthful "ready" |
| `hundo_converge` | 2 areas, 1 revision, 1 fault, 1 change of each kind, fair | 0.77 M | revisions settle and rules converge |
| `operations` | MapAlerts (3 outages, 2 refusals, 1 denied DM, 1 restart), StackRecovery (2 rungs, 1 crash, 1 exception, 1 swallowed notice), MonitoringRelay (3 checks, 4 changes, 1 break), ScannerUpdate (4 versions, 2 cuts), DatabaseConnector (2 queries, a transaction of 2), PublicReplies (2 questions, 1 slot, 1 fall); fair | 0.75 M | what the channels and the owner are told is true, nothing is done twice or by half, and what lasts is recovered, answered or told |
| `players` | TradeNotices (2 recipients, 1 per tick), ShinyRequests (2 players, 2 stamps, 1 return), ShinyAccess (2 saves, 2 channels, 1 refusal), ShinyAlerts (2 spawns, 1 of an event), PoracleRules (2 admins, 2 channels, 3 orders); fair | 1.25 M | every trade, request and save is told or served, once but for what broke between a message and its record and for players who come back; replies about rules are true |
| `services` | QuestScan (1 area, counts to 2, 1 day change), DeviceWatch, StatusChannel (2 areas), PhoneCommands (2 flaps, 1 hang, 3 commands), ScheduledPosts (2 versions, 2 entries, 1 of them listed), QuestAnswers (2 searches), QuestExport (2 exports, 1 midnight), Catalogue (2 masterfiles); fair | 2.2 M | done means flat, today's, and shown, every day; the watch, the channel, the posts, the answers and the exports say what is so |
| `community` | EventNotices (3 copies and another event, which is to start at moment 1, 2 troubles), ScanAreas (2 areas, 2 callers), SpawnHistory (1 spawn, 2 variants, 8 moments), TrapChannel (3 messages, 2 authors, 2 mistakes), Membership (2 members, 5 moves, 2 stumbles) | 1.7 M | one notice per event with true marks; fences are of one refresh and fall back on their copies; the history, the removals and the members' marks are true |
| `lure_jobs_lock` | 2 commands, two types of one stop, no fault | violation | a failed job removes the lock of a verified lure (section 6) |
| `quest_scan_dark` | QuestScan without troubles | violation | a plateau spent in the dark completes a scan (section 6) |
| `update_patch` | ScannerUpdate, 4 versions, no cut | violation | a normal start after an applied patch may bring up the old image (section 6) |

Properties with a common subject are conjunctions: `RecoveryIsOrderly` is `LadderKept`,
`CheckedSinceRecreate` and `LastWordIsRecovered`; `TellingIsMarked` is `MarkedMeansTold` and
`RepeatsNeedFaults`; `OneRunOneResult` is `TextRunsOnce` and `ResultKept`; `MarksAreTrue` is `MarkedWasTold` and
`NoNoticeLost`; `DoneIsReal` is `DoneMeansFlat` and `NoLeftoverDone`; `SettingsTakeEffect` is that
revisions settle and rules converge.  In the MC modules `NothingIsLeft`, `ScannerIsWatched`,
`QuestsAreRight`, `DataComesToBe`, `PlayersAreServed`, `EveryoneIsAnswered` and `MembersAreKept`
join what the modules state each for itself.

**Bounds.**  They bound how often the environment misbehaves, never what the program may do in
answer.  Two jobs suffice for the races of AgentQueue, which are between a job and the next one of
the same snapshot; the limit of pending jobs is two, so that one snapshot does hold both, and the
second is taken from it when the first has run.  The third job is there for that limit: `QueueSpec`
of `MCAgentQueue` has it only where the bot has delivered nothing, and lets one job at a time have
a second question.  One question makes two revisions, which is what it takes for the mark of an old
one to matter, and the second question is for an answer that would be ahead of its question; two
jobs with two questions each (4.0 M states), or three with one question each and two faults (3.2 M),
gave the same result.  Two lures are a job and its duplicate.  Two messages of the owner are one
that runs and one that guides it, waits behind it or is redirected to it.  The ladder has the code's two rungs in the code's ratio.
QuestScan has the windows of the code in the code's order (2 quiet ticks, then the plateau, then
the stuck window) at the smallest size that keeps them apart, and one area, because the
conjunction over areas is the only place where they meet: two areas without troubles (3.2 M
states) and one area with two troubles (3.3 M) were checked as well, with the same result.
MapAlerts needs two outages for a pending recovery to overlap a new one; it has three.  Two
queries and a transaction are one call on the connection, one waiting and one cancelled.  Three
copies are what chains of overlapping copies need; the other event is there to share their
batches, and with its first dates left open (2.5 M states) the result was the same.  HundoAlerts
was also checked with three revisions and one fault (34 M), PoracleRules with four orders, three
rules and two slips (5.4 M), PublicReplies with longer deadlines (`Wait` 2, `RunTime` 2, `Outer`
5, `Hold` 3: 0.38 M), StackRecovery with two swallowed notices, ShinyRequests with three stamps
(1.9 M), ScheduledPosts with three entries of which two are listed (2.6 M).  `MaxFence` is 0:
the polygon of an area does not change in the run, so what `AreasHold` says there of fences is
whether an area has one; two versions of each are beyond the time of a run, and the theorem
`AreasKeepTheirFences` holds for any number.

Two recipients and a cap of one per tick are the smallest batch that leaves somebody waiting; a
day of three units lets a digest be due, sent and due again.  Two spawns are one of the alerts and
one of the digest.  Two saves are one that a tick reads and one that falls into it.  Four versions
are the running one, the staged one, one that replaces it before it is deployed, and one more.  Two coroutines
are all that the phone has: the ladder and the owner.  Two searches share the caches; the tick and
an admin are the two exporters.  Three trap messages are two of one author and one of another.
Five moves let a member leave, return and leave again around one reconciliation while another
moves too.  Where a theorem exists (section 5) the bounds do not matter.

The type invariants (`TypeOK` of each component, joined in `OperationsTypeOK`, `PlayersTypeOK`,
`ServicesTypeOK` and `CommunityTypeOK`) hold on the same instances.  No configuration lists them,
because what they would say of the code is little; the theorems prove those they need.

Symmetry is used over areas and over copies of an event, in safety runs only.  Deadlock is not
checked where all remaining steps are somebody's choice (nobody has to submit a job, ask a
question or publish an event).

**Bounded counters**, all constants of their modules: `MaxFaults`, `MaxCrashes`, `MaxRaises`,
`MaxTroubles`, `MaxRefusals`, `MaxFailures`, `MaxRestarts`, `MaxOutages`, `MaxDays`,
`MaxAreaChanges`, `MaxBreaks`, `MaxCuts`, `MaxLost`, `MaxUnsure`, `MaxSwallowed`, `MaxUpsets`,
`MaxFalls`, `MaxRaised`, `MaxMishaps`, `MaxBroken`, `MaxSlips`, `MaxFlaps`, `MaxHangs`,
`MaxMistakes` and `MaxStumbles` bound the faults (`MaxUpsets` the clicks on a queued turn, too); `MaxJobs`, `MaxRev`, `MaxCommands`, `MaxCount`, `MaxRevisions`, `MaxTiles`,
`MaxChanges`, `MaxStamps`, `MaxReturns`, `MaxSaves`, `MaxChannels`, `MaxRules`, `MaxOrders`,
`MaxOps`, `MaxVersion`, `MaxScans`, `MaxMasterfile`, `MaxFence`, `MaxMoves`, `Latest`, `Newest`,
`LastDay`, `LastDate`, `LastSecond`, `LastMoment` and `Horizon` the work and the time;
`MaxPending`, `MaxState`, `Preview`, `Retention`, `Ladder`, `Stale`, `Cooldown`, `Retries`, `Recipients`,
`AlertAfter`, `ShortGap`, `LongGap`, `LongOutage`, `RenameBudget`, `RenameWindow`, `RefreshAfter`,
`RetryAfter`, `CacheLife`, `ExportEvery`, `Life`, `MaxGap`, `Slots`, `Lookup`, `Wait`, `RunTime`,
`Outer`, `Hold`, `PlateauTicks`, `StuckTicks`, `QuietTicks`, `FloorNum` and `FloorDen` are the
program's own, at a smaller size where the order among them is what matters.  `MaxNotices` in
StackRecovery is where its counter of notices stops counting.

## 4. Fairness

Fairness is assumed only of what the repository keeps going, and never of a person or a fault.

- *AgentQueue*: weak fairness of the worker, started again by `agent-worker.service`
  (`Restart=on-failure`) or by whoever stopped it; every agent has a deadline, so a run ends.
  Weak fairness of `deliver_results`, a `tasks.loop`; strong fairness of the delivery of each job,
  that is, Discord does not refuse the same message for ever.
- *LureJobs*: weak fairness of the poller task, whose calls have timeouts, and of the server's
  work on an open job; strong fairness of one poll and one announcement per job.
- *StackRecovery*: ticks and time; strong fairness of `Allowed`: if the session check keeps
  finding no account, it is not always interrupted.
- *QuestScan*: the tick, and the scanner that clears yesterday's rows.  `EveryDayIsFinished`
  assumes a scanner that stays up and nothing else.
- *MapAlerts*: a tick in every unit of time (ticks are a minute, units two and a half).
- *DatabaseConnector*: the event loop, and threads whose every wait ends by the connection's
  timeouts.
- *HundoAlerts*: the tick, the passing of 30 seconds, two minutes and an hour, and Poracle's own
  reload.

- *TradeNotices*: the tick, the sending of a message (whose failures are bounded), and the passing
  of a day.  The site has to add nothing.
- *ShinyRequests*: the timer's run, a systemd timer; the moderators have to press nothing.
- *ShinyAccess*: whoever holds `CHANNEL_LOCK` (every step is a call with a timeout) and the tick.
- *OwnerRuns*: the bot's coroutine of each message, whose requests and waits for an approval have
  deadlines.  The server's run need not end: `EveryTurnEnds`, the owner's half of `NothingIsLeft`,
  is about the turn, not the run.
- *PublicReplies*: that the answers together with time get on, and that the worker does; not that
  the worker ever turns to the public queue.
- *Catalogue*: the steps of the tick that do not raise.

EventNotices, ScanAreas and the remaining components have no liveness property: "no notice is
lost", "an area keeps its fence", "an outage past the delay has been alerted about" are stated as
invariants over what the next tick would select or what the ages are, which need no fairness.

In the `which` modules the fairness of a component is that of its own specification, conjoined
with `which`, so that no component is owed a step in another's behaviour.

## 5. Proofs

Every safety property that a passing run checks is also a theorem, proved with the TLA+ proof
system for every value of the constants.  Each proof has the same three parts: the initial states
satisfy an inductive invariant, every action preserves it (one lemma per action, or per group of
actions that disturb the same part), and it implies the property.  TLC agreed with the inductive
invariants on the instances of section 3 before they were proved.

**`AgentQueueProofs`, `LureJobsProofs`** (jobs)

| Theorem | Says | Inductive invariant |
| --- | --- | --- |
| `TypeCorrect`, `OneAtATime` | types; at most one result says running and a live worker holds it | `TypeOK /\ OneRunning`, inductive with the types: only a worker that holds no other job writes "running" |
| `TellingStaysMarked`, from `MarkedWasTold` and `RepeatsCostFaults` | a mark is a message Discord took; a repeat costs a crash, a failed mark or a lost answer | `DeliveryInv`: the snapshot has one unmarked entry per job, only the newest can be between message and mark (`MailInv`), and each message beyond the one the mark stands for cost a fault (`SendsInv`) |
| `LimitAndAnswersHold`, `QueueIsLifecycle` | the limit holds at every moment and an answer reopens nothing that completed; the files implement `AgentLifecycle` | `QueueInv`: what the worker's snapshot (`StillTrue`), its job (`CurInv`) and an answer between read and write (`ResumeInv`) may rely on, though the other process acts meanwhile.  The limit counts `Owed`, in which the answered job stays counted, so only a submission adds to it |
| `LuresAreTold` | one outcome per job, told again only at the price of a fault, the lost answer of a post among them; a locked stop has a verified lure; the poller does not idle on a new job | `LureInv`: what a tick carries is still so when it gets there (`Followed`), an outcome once told can no longer change (`Stories`), and a row is of a job the server took (`Given`) |

**`DatabaseConnectorProofs`, `HundoAlertsProofs`** (the connection, the 100IV alerts)

| Theorem | Says | Inductive invariant |
| --- | --- | --- |
| `NeverTwoThreads`, `WholeOrNothing`, `AnswersAreTrue` | one thread; calls are atomic and applied once; answers are true | `ConnInv`: `LockInv` ties threads to the lock through the orphaned calls, `WorkInv` ties the open transaction, the database and lost commits to the place of each thread |
| `ImplementsContract` | the connector refines `CallContract`, step by step | `ConnInv` again: it is what makes a commit, a late commit and a retry map to the right abstract step |
| `OneDMPerRevision` | no revision is said twice | `JournalInv`: whoever is about to post holds a "sending" row nobody has told yet |
| `NoRulesUntold`, `ConfirmationsAreTrue` | every rule, and every confirmation, stands for a DM the player got | `ConsentInv`: on top of `JournalInv`, that outcomes carry evidence and that every snapshot of the tick is one the site really had |
| `ReadyMeansLoaded` | "ready" means that Poracle works with these areas | `ReadyInv`: until something fails or leaves, what the tick read is what the site has (`Current`), the cache stands for the stored rules (`Cached`), and health says "ready" only over rules in force (`Ready`) |

**`OperationsProofs`** (ladder, relay, updates, owner's runs, public replies, map alerts)

| Theorem | Says | Inductive invariant |
| --- | --- | --- |
| `LadderIsOrderly` | rungs in order and bounded; the phone is reset only after a check that read the counts as zero, made again after a recreation; "down" is the last word of a closed episode only if the notice that closes it was swallowed | `StackInv`: the rungs spent, the age of the episode and the place of the tick tied together |
| `OwnerIsTold` | what the relay remembers, and answered with 200, is what the owner heard | `RelayInv`: the file is behind by no more than the group just sent (`RelayFile`), the memory by nothing (`RelayMemory`), and what is left of the request is what he has not heard (`RelayBatch`) |
| `UpdatesAlwaysFit` | the images that the files name are there, and a normal start brings up what runs | `UpdateInv`: `Held` for every record, on disk or in a script, and what each step of a script has made true so far, since it may be cut off after any of them |
| `EachRunOnce` | a text is taken once, and once more for each lost answer and each click on a turn that was taken already; a recorded result is kept, and delivered once more only for what `retold` counts | `RunInv`: whoever may still submit a text has not (`TakenOnce`), and whoever may still deliver a result (the turn, recovery, the file at rest) has a share in `Load`, so that deliveries and load together stay within one plus `retold` |
| `RepliesStaySound` | jobs are marked, facts told, one lookup never cut | `RepliesInv`: `InBudget` adds up what the deadlines inside leave of the one around them |
| `DMsAreTruthful`, from `DMsAlternate` and `DownIsPending` | one down and one up DM per outage, and one more for each that landed and was denied; a "down" the bot knows of keeps its recovery pending | `AlertInv`: while the last DM was denied, one of the next is still to come (`Slack`, in `Denials`), and a down DM of this outage exists only at full length or after the map came back (`OutageShape`) |

**`PlayersProofs`** (trades, shiny requests, access and alerts, rules)

| Theorem | Says | Inductive invariant |
| --- | --- | --- |
| `TradesTold` | no watermark passes a trade that is neither told nor refused; repeats cost mishaps | `TradeInv`: the batch holds whatever moving the watermark to its cutoff would pass over (`BatchHolds`), and nothing that commits later can be stamped before a cutoff that has settled (`Clocks`) |
| `DecidedAndTold` | one decision per request; a second post had a broken run before it or a player who came back | `RequestInv`: stamps are never reused (`StampsAreOwn`), and a post without a record cost a broken run, or a return with the request still open (`Excused`, in `ToldOnce`) |
| `ConfirmsWhatWasRead` | a confirmed save was read by a tick | `AccessInv`: what is applied is no newer than what was read, and what a tick is about to confirm it has read |
| `AlertsTellSpawns` | no spawn twice, none left behind | `AlertInv`: the record comes before the message (`RecordFirst`), and the watermark is at most the look-back ahead of whoever waits (`MarkBehind`) |
| `RulesAreAsSaid` | duplicates only from overlapping commands; replies of a lone command are so | `RulesInv`: `SoundSoFar`, what a command that runs alone has established of the rules it has been through |

**`CommunityProofs`** (events, spawn history, areas, trap, members)

| Theorem | Says | Inductive invariant |
| --- | --- | --- |
| `EventsToldOnce`, `MarksTellTheTruth` | one start and one end per event; marks are true | `CalendarInv`: only the earliest copy is announced and only the latest ended (`StartsOnce`, `EndsOnce`), and what began in the bot's time was told (`BegunIsTold`).  `Event` is the smallest set of rows closed under overlap, so that copies form classes; the proofs use nothing else of it |
| `HistoryTellsTrue` | a complete window has every spawn | `HistoryInv`: what appeared since the recorder began is recorded or in a gap (`RecordedOrGap`), because the scanner keeps a row longer than a poll may be late (`ScannerKeeps`) |
| `AreasKeepTheirFences` | one snapshot; no area loses a fence whose copy exists | `AreaInv`: the fences in use are on disk unless the copy was lost (`OnDisk`) |
| `TrapsAreLifted` | without a failed call no ban is left; with one, it was reported as a ban to lift, or made by a call that raised, or its handler or the report did not get that far (`untold`) | `TrapInv`: a ban somebody is to hear of has a handler at work or a report (`NoBanIsLeft`, with `Unreported` for the reports of handlers under way), and each removal has a count of its own that is saved, shown and reported (`Faultless`) |
| `MembersAreMarked`, `MembersStayKept` | marks are true, but for what the bot could not hear and for rows last written by a check or a snapshot that was not true; both components together in the composition | `MemberInv`: the last event in the line about a member is true (`EventsAreTrue`), the snapshot is true of whom no event waits for (`SnapshotHolds`), and a row that is wrong is excused, or the line or the reconciliation still mends it (`RowsAreTrue`, `MendsAreDone`) |

**`ServicesProofs`** (quest scan, phone, channel, posts, quests, catalogue)

| Theorem | Says | Inductive invariant |
| --- | --- | --- |
| `CompletedIsFlat`, `CompletedIsReal`, `CompletedIsShown` | done means flat, of today, and shown | `ScanInv`: the plateau is no longer than the count stood still (`PlateauIsTrue`), yesterday's rows are no older than their age allows (`LeftoversAge`), and a verdict carries both to the write (`VerdictIsFlat`, `VerdictIsOfToday`) |
| `ScannerStaysWatched` | the watch, the channel and the phone | `DeviceInv`, `ChannelInv` (the renames in the window are the oldest first, within the budget) and `PhoneInv` (what is left of each coroutine's sequence restarts what it stopped, or it said that it failed) |
| `PostsStayTrue` | a mark is a complete post, or one with nothing to say or nobody to say it to; a digest counts every error that is still in `error.log` and lists the first ones | `PostInv`: both markers are good ones (`MarksAreGood`), a part goes out again only after a mishap (`PartsGoOut`), the digest being sent has what its marker will pass over (`DigestHas`), and digests read only what was written (`DigestReads`) |
| `AnswersStayCurrent`, `SiteShowsQuests`, `DerivedTogether`, `QuestsStayRight` | answers, exports and names are of today and of one version; all together in the composition | `AnswersInv` (what a search has read so far and what a cache may still serve), `ExportInv` (a draft of today is of quests read today unless midnight fell in between), `CatalogueInv` |

`NoRulesUntold` is the argument behind `is_active`: the rules of a rebuild come from a row read
before it, the row's confirmation from a DM of an even earlier revision, and a save may fall
anywhere; `Heard` follows the selection through all four.  `AnswersAreTrue`, `MarkedWasTold`,
`RepeatsCostFaults`, `ConfirmationsAreTrue`, `DMsAlternate` and `DownIsPending` are proved of
invariants no run lists; the runs keep the property next to them that says more to a user
(`KeepsContract`, `TellingIsMarked`, `RulesWereTold`, `TruthfulDMs`).

**Assumptions.**  The `ASSUME`s on constants are all that is assumed; TLC evaluates them in every
run.  Most are naturals and finite sets.  The ones that carry weight:

- `PublicReplies`: `Wait + Lookup < Outer` and `Lookup <= Wait + 1`, the order of the deadlines in
  the code (35 + 5 < 42 seconds).  With two lookups the sum exceeds the outer deadline, which is
  why the theorem excuses the questions that have two (section 6).
- `StackRecovery`: an ordered ladder.  `DatabaseConnector`: `Tx \subseteq Calls`, a positive
  `TxSize` and `Retries`.
- `SpawnHistory`: `MaxGap <= Life`, that the scanner keeps a row at least as long as the longest
  interval between polls that does not count as a pause.
- Values that stand for "nothing" differ from the real ones (`NoAsk \notin Questions`, "none" is
  no variant).

`CompletedIsReal` has a premise besides, `LeftoverTicks <= QuietTicks + PlateauTicks`: it is about
how soon the scanner clears yesterday's rows, which the code relies on and does not enforce;
without it the property is false (section 7).

**Only model-checked**: liveness, and everything under fairness, which is out of this prover's
reach as ENABLED is: `OwnerIsServed`, `NothingIsLeft`, `SettingsTakeEffect`,
`OwnerHearsInTheEnd`, `LastingOutageIsRecovered`, `EveryoneIsAnswered`, `PlayersAreServed` and
`DataComesToBe`.  So is what the three violation runs refute, of course.  Induction over data is
avoided rather than done: no module declares a RECURSIVE operator, the closure of overlapping
copies is a smallest closed set, and totals are cardinalities, so the theorems cover them.

## 6. Where code and documentation disagree

Three disagreements are kept as runs, which TLC shows with a trace:

- `lure_jobs_lock`: `_settle` (`cogs/lures.py:544`) clears the lock of its key for every job that
  is not verified, whoever wrote it, so a second job that fails, typically with `already_lured`,
  unlocks the stop of a verified lure.  `lure_locks.py:10` says a lock lasts "the lure's
  lifetime".
- `quest_scan_dark`: `_update_plateau` (`modules/scanner_status.py:652`) counts flat checks while
  no worker is up, so the first check after the scanner returns may find a plateau that was spent
  in the dark, and completes the day.  `scanner_status.py:679` says a crash "never fires as
  done".
- `update_patch`: `scanner-update:380` decides from the running container alone whether an update
  is pending and writes that over the record.  When the shutdown hook recreated the database and
  its wait for readiness failed before it moved the plain tag, the next check takes the update off
  the queue and the plain tag keeps the old image.  `scanner-db-shutdown:216` says a "normal
  compose up must also resolve the applied patch".

Others came up in modelling.  They are not runs, and the properties are stated so as to leave
them out; the place is given for whoever maintains the code.

| Where | The code | The text |
| --- | --- | --- |
| `modules/polisnatch_jobs.py:212` | an announcement is repeated after a crash, a failed mark, or a post that Discord took and whose call raised | `:105` "announces each outcome exactly once" |
| `cogs/lures.py:284` | the cooldown is only cleared by an announced outcome or a failed submission | `modules/lure_locks.py:9` "cleared as soon as the outcome is known" |
| `modules/stack_recovery.py:134` | an exception after the recreation leaves the rung unspent, and it runs again | `:36` "each used at most once" |
| `modules/stack_recovery.py:338` | a notice that Discord refuses is logged and taken as given, the one that closes the episode too: "em baixo" may stay the last word | `:93` mods saw a post about it, "so they hear it came back too" |
| `modules/stack_recovery.py:145` | `all_red` of None is diagnosed as the stack, so a silent Dragonite recreates containers | `modules/scanner_status.py:471` "a data outage never triggers the recovery ladder" |
| `modules/scanner_manager.py:12` | the date is written before the flag: cut in between, the day has no scan | `scanner_status.py:66`, `docs/context/modules.md:12`: the day change starts a cycle |
| `cogs/scheduled.py:374` | a `!scan` between the counts and the verdict is closed by that verdict | `cogs/quests.py:56` "Scan de quests iniciado!" |
| `modules/scanner_status.py:347` | the cooldown swallows an outage that begins soon after the last one | `docs/context/host-ops.md:23` one down and one recovery DM per episode |
| `modules/owner_alert.py:23` | a timeout or a broken connection is answered with False though the DM may have landed: the owner gets it twice, or a "down" that has no recovery pending | `modules/scanner_status.py:39` "Keep recovery pending until the owner has received" it |
| `modules/scanner_status.py:41` | the flags are lost in a restart, and with them the recovery DM | `:39` "Keep recovery pending until the owner has received" it |
| `modules/scanner_status.py:420` | a failed webhook is swallowed and the flag that stops retries is set | `docs/context/config.md:14` the webhook fires when data "flows again" |
| `modules/event_manager.py:503` | a copy that came and went while the bot was down still hides the one that runs | `:265` the start is announced at the earliest copy |
| `modules/hundo_alerts.py:637` | a change undone while its DM is on its way is confirmed by the earlier DM | `:190` undone "before its DM went out" |
| `modules/hundo_alerts.py:351` | the SQL compares the stored bit set of the selection, Python only its active areas: with an inactive area selected, one keeps the rules the other would not | `:206` "Mirrors _CLEANUP_SQL" |
| `modules/scan_areas.py:540` | a failed fetch falls back to the copies on disk, and an area without one loses its fence | `:521` "keep the old snapshot on failure" |
| `modules/public_conversation.py:361` | the deadlines inside an answer (5 + 5 + 35 s) exceed the one around it (42 s), and a cut loses facts already read | `:5` "Local calendar/statistics facts remain authoritative" |
| `modules/quest_exporter.py:213`, `cogs/scheduled.py` | an export that reads before midnight and finishes after it stamps yesterday's quests with today | `:404` "so quests.json never goes stale" |
| `modules/device_manager.py` | "offline" is also an answer Rotom did not give | `:269` "Alert when Rotom reports the device offline" |
| `modules/device_manager.py:97` | a command may meet the disconnect of another coroutine's repair | `:104` a re-handshake "so a recoverable session never blocks a command" |
| `cogs/pokedex.py:55` | the check for membership precedes the awaits that deliver the code; who leaves in between is unmarked until the next `on_ready` | the comment: a leaver must not have `upsert()` clear the mark "on their way out" |
| `modules/membership.py:12` | while no guild is cached everybody passes, so the DM of one who left clears `left_at` | `cogs/pokedex.py:55` without the check a leaver's `!pokedex` would undo "the block on their way out" |
| `cogs/moderation.py:253` | only Discord's own HTTP errors are caught: a timeout of the unban ends the handler with the ban in place and no report, and a ban that landed though its call raised is reported as "não tentado (o ban falhou)" | `:261` "unrelated failures must not turn the requested removal into a permanent ban" |
| `scripts/pokedex_moderation_alert.py:60` | a key is forgotten while its player is away, so a request still open when he returns is posted again | `:67` "must not cause successful messages to repeat" |
| `cogs/spawn_history.py` | the image goes to the CONVIVIO channel | `:107` "por DM ao dono" |
| `scripts/pokedex-validation-alert.service` | the timer's service runs `scripts.pokedex_moderation_alert` | `scripts/pokedex_validation_alert.py`: "Run by pokedex-validation-alert.timer" |
| `cogs/notifications.py` | "Nenhuma regra … encontrada" is also said when every deletion failed; by uid, an error is said when only the reload failed | the replies themselves |
| `cogs/hermes.py:521` | the server's "queued" is shown for an admitted turn too (`modules/hermes_client.py:315`): its button, or a plain message, cancels the turn that is polling, and the button gives the agent the text a second time | `:526` once admitted a turn "must never be abandoned, and the text must not run twice" |
| `cogs/hermes.py` | a second press of the button while a redirection is under way is refused with "o pedido volta à fila", while the first may yet be taken | `:588` the reply itself |

`docs/context/hundo-alerts.md` says under Limits that a crash can duplicate a confirmation; the
durable journal described further down in the same file replaced that, and `OneDMPerRevision` is
proved of it.

## 7. What the models say besides

*Agent jobs.*  Marks are per revision.  A job that is cancelled while its question has been told
keeps the revision, so the message of the cancellation is never sent; `EveryRevisionTold` is
stated per revision for that reason.  A message that landed while its call raised is posted again on
the next pass, ten seconds later, and once more for every such answer.  A job refused because the provider's binary is missing can
be reopened by an answer that crosses the refusal, which is why `Closed` asks for a cancel mark
of failures.  The limit of five is tested by `submit` only and still holds at every moment.

*Lures.*  The ledger row keeps the message of whoever records first, so a duplicate request that
is faster takes the announcement over.  A crash between the server's acceptance and the row loses
the follow-up: `FollowedToTheEnd` is about recorded jobs.  An outcome whose post raised although
Discord took it is posted again until a call returns: `OneStory` counts these lost answers among
the faults.  A late announcement locks a stop for thirty minutes from then, past the lure.

*Recovery.*  The episode is in memory: a restart during an outage grants the rungs again and
leaves the last notice standing.  Nothing looks at a notice after it was sent: `LastWordIsRecovered`
excuses an episode whose closing notice was swallowed.  A login between the last check of the
sessions and the reset of the apps is not excluded either, as `CheckedSinceRecreate` says.  The
setting fails open (no answer counts as enabled).  "No data"
and "unreachable" share one flag for their notice, so the second of them is not announced.

*Quest scan.*  `NoLeftoverDone` holds while yesterday's rows disappear within the quiet period
plus a plateau (`LeftoverTicks`, 12 minutes in the code); with one more tick TLC finds
yesterday's count completed as today's.  A verdict after midnight and before the day change is
yesterday's and exempt.  An export that fails repeats the completion, with its report, each tick.

*Map alerts.*  A short outage within the cooldown of an earlier one is never told, nor its
recovery; this is how retries of refused DMs are spaced.  After a "down" that landed and was denied
the map may come back with no recovery pending: the owner keeps that word (`RecoveryIsTold` has it
as `~sure`), and the next outage tells him "down" again.  A denied recovery is repeated on every
tick; if the next outage begins before a repeat goes through, it is not told, since the flag still
says that the owner knows (`OutageIsTold`).

*Connector.*  A commit lost with its connection may land later; such a call has answered with an
error, and callers of transactions are told to treat that as unknown.  The worker thread of a
cancelled call keeps the lock until it ends.

*Events.*  Two rows of one name with one start are one row.  A second end of the same name waits
for the next tick, hence `Ceased` in `NoNoticeLost`.

*100IV alerts.*  An area that is deactivated stays in Poracle's rules until the hourly
resynchronisation; `RulesWereTold` therefore speaks of a registry that stays.  A commit of the
cleanup whose answer is lost heals with that resynchronisation too, which `RulesConverge` uses.

*Trade notices.*  The digest has no settling delay: a transaction that commits after the tick read
its cutoff is skipped for good, while the DM waits 60 seconds and the announcer 90.  The first recipient whose
message fails with another error ends the tick, and is first again in the next: those after him
wait as long as he fails.

*Shiny.*  With `SHINY_ALERTS_ENABLED` off a linked player's save is never confirmed, since only the
alert tick confirms.  The archived flag is set in the database before the channel is edited, so a
refusal by Discord leaves a channel that looks archived to the bot; `OffIsHidden` holds because the
next tick compares the channel itself.  `!shiny canal` does not look for an orphaned channel.  A request
is posted once more for every time its player left and came back with it still open (`back`).  A
lost answer of Poracle makes one alert two.

*Relay.*  Records are forgotten by age and number, and with them the recovery of what is still
firing.  A DM that landed and was not recorded, followed by a recovery, leaves the owner with the
news of an alert that the file never had.  Both are what `excused` stands for.

*Updates.*  `OrdinaryStart` has `dropped` as its third case: that is the disagreement above.
Pruning keeps every image that the override or the record names, wherever the script before it was
cut off.

*Owner runs.*  A message that is sent in parts may arrive as a whole although one send raised; its
record stays and the next process delivers it again (`retold`).  While the server shows an admitted
run as queued, a plain message takes its turn out of the lock and guides the run: the turn is over,
and the result stays on file until the next process.  `TextRunsOnce` counts the clicks that made
the agent take a text again (`retaken`).  Recovery lists the records that exist when it starts; a
run that this process admitted before that is delivered by both.  An approval whose POST fails ends the polling, though
the run goes on; its record stays for the next process.

*Public replies.*  A cut does not set `retry_after`, so the next question asks again at once.  The
job of an answer nobody waits for is marked in every case but the death of the bot; those the
worker drops when it comes to them, because they have waited too long.

*Phone.*  Switching the watch off leaves the beginning of an outage standing; switched on again, the
first check counts the time in between, whether or not the phone was back meanwhile: hence
`skipped` in `OutageIsReal`.  An alert that could not be sent is followed by a "back
online" all the same: `ModsKnow` speaks of the time no message was lost.  A command may fail
because another coroutine repaired the session; the failure is reported, which is all
`StoppedIsKnown` needs.

*Scan areas.*  Callers that queued behind a refresh refresh again.  One area that Dragonite does
not know discards all the fresh fences of that refresh.  A failed fetch also counts as loaded, for
the shorter retry.  The copy on disk is rewritten from the active areas, so an area that is off
during a refresh loses its copy.

*Posts, quests, catalogue.*  A board that cannot be sent has the ones before it posted again on the
next tick.  The error digest reads whole seconds: an entry of the second of the digest may be
missed.  So is one that `error.log` rotated away before the digest, which
`modules/utility.py:116` says and accepts; the text of a digest names the first ten and stops at
4000 characters, while its title counts them all.  That is what `Excepted`, `FirstAreListed` and
`clipped` stand for; without `MY_ID` the day is marked as done and its errors are passed over
(`passed`).  Tracked rewards are answered from a cache that may be an hour old.  After the first
success the tables of names follow only the next download: a pass cut short waits a day.  A sprite
that cannot be fetched is marked for good.

*Rules.*  `!notify` tells each admin what it saw: two at once may add a rule twice, or report what
the other has just undone.  An answer that was lost leaves a rule that Poracle has not loaded; so
does registering a channel, which starts it without a reload, and a database error in the middle
of a command.

*Members.*  A restart that cannot read the trap count starts from zero and saves that over the
stored one at the next removal.  A crash between ban and unban leaves a ban nobody reports; so does
an exception that is not Discord's, and without `MOD_CHANNEL` nothing is reported at all.  The
unban does not know whose ban it lifts, and two messages of one author are two removals.  The rows
of who moved during a reconciliation, or while the bot was down or had no guild in its cache, are right after the next one.  An `on_ready`
that finds the cache empty aligns nothing and is not repeated when the cache fills (`CacheFills`).

*Spawn history.*  The upsert relies on MariaDB evaluating assignments from left to right: the
variant is compared before it is replaced.  The scanner must keep a row at least as long as the
gap that counts as a pause (`MAX_POLL_GAP`).

## 8. Not modelled

*Left out of modelled components*: prompts, providers and artifacts of the agents; the cooldown
row and the read-only commands of lures; the development branch of the alerts; connections of
`connect()`; retention, merged revisions, shared cards and the weekly list of events; several
players, the profile, forms and costumes behind a 100IV rule; what an answer, a digest or a card
says; the geometry of a fence; the five minutes between two shiny digests, which may pass at any
step.  A cancelled worker task at loop shutdown is not modelled either.

*External, modelled only by how it is used*: Discord accepts, refuses or loses the answer of a
call; Poracle loads its tables on request and by itself; PoliSnatch takes, finishes and forgets
jobs; the site saves settings; MariaDB commits, refuses or loses a commit.

*Not modelled, with the reason in `PROJECT.json`*: the scheduler's heartbeat and the watchdog
(they are the fairness assumed of the tick), the event card and panel, staging around an agent's
job, announcements, lure counters, host services and offline tools, configuration and shared
helpers; and within the partly modelled components commands that make one call and leave nothing
behind (roles, warnings, containers, trackers), rendering, sprites and art maps, text search,
odds and draws, and statistics.

## 9. Plan

Done in this order: the file protocol of the agents, the connector (everything stored goes
through it), the alerts and the ladder, the quest scan, lures, events, 100IV alerts; then the
components that tell players and the owner, the update scripts, the scanner's surroundings and
data, and the members; then the safety of all of them as theorems.  What is left:

1. An abstract "tell once" specification, implemented by the delivery of AgentQueue, the journal
   of HundoAlerts, TradeNotices and the relay, so that what they promise is compared on one scale.
   The invariants it needs exist (`SendsInv`, `JournalInv`, `Repeats`, `RelayFile`).
2. DeviceWatch, PhoneCommands and StackRecovery composed on one phone; OwnerRuns and PublicReplies
   with AgentQueue's worker, which serves both of its queues in turn.
3. Two areas of QuestScan without their product of states: the theorems hold for any number, the
   liveness of `EveryDayIsFinished` is checked for one.
