----------------------------- MODULE ScannerUpdate -----------------------------
(***************************************************************************)
(* scripts/scanner-update stages the image of a newer version and never    *)
(* deploys it; scripts/scanner-db-shutdown deploys a staged database when  *)
(* the host goes down, and the stack recovery the others.  The two scripts *)
(* share a lock, the file state.json and Docker's tags.  A behaviour       *)
(* follows one service; versions are numbers, and an image is its version. *)
(***************************************************************************)
EXTENDS Integers, FiniteSets

CONSTANTS
    Newest,    \* bound: the last version the registry gets
    MaxCuts    \* bound: deaths, of a script or of the host

ASSUME ScannerUpdateAssumption == Newest \in Nat \ {0} /\ MaxCuts \in Nat

VARIABLES
    kind,      \* the service: "db", "scanner" (another one to stage) or "report"
    remote,    \* the registry: the version of the tag
    running,   \* Docker: the container's image
    plain,     \* Docker: the image of the tag that the Compose file names
    pinned,    \* Docker: the container was created with an override
    staged,    \* Docker: tags scanner-staged/<name>
    previous,  \* Docker: tags scanner-previous/<name>
    file,      \* state.json: the service's record
    override,  \* the staged Compose override
    notified,  \* state.json: notified_signature
    script,    \* the script that holds the lock
    stopping,  \* systemd: the host is going down
    \* observation
    told,      \* what the owner was last told
    dropped,   \* a check took an unfinished update off the queue
    cuts

docker     == <<running, plain, pinned, staged, previous>>
updateVars == <<kind, remote, docker, file, override, notified, script, stopping,
                told, dropped, cuts>>

None == -1
Composed == 1
Versions == 0..Newest
OrNone == Versions \union {None}
Record == [candidate : OrNone, pending : BOOLEAN, downloaded : BOOLEAN, rollback : OrNone]
NoRecord == [candidate |-> None, pending |-> FALSE, downloaded |-> FALSE, rollback |-> None]
NoSignature == [candidate |-> None, downloaded |-> FALSE, failed |-> FALSE]

\* record: what the check made, or the hook read; failed: the check met an error;
\* moved: the container is not the one first seen.
Off == [step |-> "idle", record |-> NoRecord, failed |-> FALSE, moved |-> FALSE]

UpdateTypeOK ==
    /\ kind \in {"db", "scanner", "report"}
    /\ remote \in Versions /\ running \in Versions /\ plain \in Versions
    /\ staged \subseteq Versions /\ previous \subseteq Versions
    /\ file \in Record /\ override \in OrNone
    /\ notified.candidate \in OrNone /\ told.candidate \in OrNone
    /\ script.step \in {"idle", "verify", "save", "write", "prune", "tell", "sign",
                        "backup", "up", "ready", "tag", "done"}
    /\ script.record \in Record
    /\ {script.failed, script.moved, stopping, dropped, pinned} \subseteq BOOLEAN
    /\ cuts \in 0..MaxCuts

UpdateInit ==
    /\ kind \in {"db", "scanner", "report"}
    /\ remote \in IF kind = "scanner" THEN 0..Composed ELSE {Composed}
    /\ running = Composed /\ plain = Composed /\ pinned = FALSE
    /\ staged = {} /\ previous = {} /\ override = None
    /\ file = NoRecord /\ notified = NoSignature
    /\ script = Off /\ stopping = FALSE
    /\ told = NoSignature /\ dropped = FALSE /\ cuts = 0

Enter(step) == script' = [script EXCEPT !.step = step]
Released    == script' = Off

-------------------------------------------------------------------------------
(* Around the scripts.                                                       *)

Publishes ==
    /\ remote < Newest
    /\ remote' = remote + 1
    /\ UNCHANGED <<kind, docker, file, override, notified, script, stopping, told, dropped, cuts>>

\* The stack recovery recreates its services with the override it finds.
Recovers ==
    /\ kind = "scanner"
    /\ running' = IF override = None THEN plain ELSE override
    /\ pinned' = (override # None)
    /\ script' = [script EXCEPT !.moved = script.step = "verify"]
    /\ UNCHANGED <<kind, remote, plain, staged, previous, file, override, notified, stopping,
                   told, dropped, cuts>>

Shutdown ==
    /\ ~stopping /\ stopping' = TRUE
    /\ UNCHANGED <<kind, remote, docker, file, override, notified, script, told, dropped, cuts>>

Cancelled ==
    /\ stopping /\ stopping' = FALSE
    /\ UNCHANGED <<kind, remote, docker, file, override, notified, script, told, dropped, cuts>>

\* The script dies, or the host is down and up again.
Cut ==
    /\ script.step # "idle" /\ cuts < MaxCuts
    /\ cuts' = cuts + 1
    /\ Released
    /\ stopping' \in {stopping, FALSE}
    /\ UNCHANGED <<kind, remote, docker, file, override, notified, told, dropped>>

-------------------------------------------------------------------------------
(* scanner-update: check_and_stage.                                          *)

\* Never below the version of the Compose file.
Candidate == IF remote < Composed THEN Composed ELSE remote

\* The record of a check.  An applied pin stays in the override, and the rollback stays.
Checked ==
    [candidate  |-> Candidate,
     pending    |-> running # Candidate,
     downloaded |-> /\ kind # "report"
                    /\ \/ file.candidate = Candidate /\ file.downloaded
                       \/ running = Candidate /\ pinned,
     rollback   |-> file.rollback]

\* The check, and the download of what is pending; both images get a tag of their own.
Stage ==
    /\ script.step = "idle"
    /\ IF Checked.pending /\ kind # "report"
       THEN /\ staged' = staged \union {Candidate}
            /\ previous' = previous \union {running}
            /\ script' = [Off EXCEPT !.step = "verify",
                             !.record = [Checked EXCEPT !.downloaded = TRUE, !.rollback = running]]
       ELSE /\ script' = [Off EXCEPT !.step = "verify", !.record = Checked]
            /\ UNCHANGED <<staged, previous>>
    /\ UNCHANGED <<kind, remote, running, plain, pinned, file, override, notified, stopping,
                   told, dropped, cuts>>

\* The registry, Docker or the disk refuses: the old record stands.
StageFails ==
    /\ script.step = "idle"
    /\ script' = [Off EXCEPT !.step = "save", !.record = file, !.failed = TRUE]
    /\ UNCHANGED <<kind, remote, docker, file, override, notified, stopping, told, dropped, cuts>>

\* A service without a recorded rollback adopts the newest of its old tags.
Adopted(record) ==
    IF record.rollback # None \/ previous = {} \/ kind = "report" THEN record
    ELSE [record EXCEPT !.rollback = CHOOSE v \in previous : \A w \in previous : w <= v]

\* The container must still be the one that was looked at.
Verify ==
    /\ script.step = "verify"
    /\ script' = IF script.moved
                 THEN [Off EXCEPT !.step = "save", !.record = file, !.failed = TRUE]
                 ELSE [script EXCEPT !.step = "save", !.record = Adopted(@)]
    /\ UNCHANGED <<kind, remote, docker, file, override, notified, stopping, told, dropped, cuts>>

\* save_overrides: the Compose model must be valid, or the run ends here.
SaveOverrides ==
    /\ script.step = "save"
    /\ \/ /\ override' = IF script.record.downloaded THEN script.record.candidate ELSE None
          /\ Enter("write")
       \/ Released /\ UNCHANGED override
    /\ UNCHANGED <<kind, remote, docker, file, notified, stopping, told, dropped, cuts>>

WriteState ==
    /\ script.step = "write"
    /\ file' = script.record
    /\ dropped' = (dropped \/ (file.pending /\ ~script.record.pending /\ running # plain))
    /\ Enter(IF kind = "report" \/ script.failed THEN "tell" ELSE "prune")
    /\ UNCHANGED <<kind, remote, docker, override, notified, stopping, told, cuts>>

\* Mutant of Keep: only what is waiting is kept.
KeepPending == IF script.record.pending THEN {script.record.candidate} ELSE {}

Keep == IF script.record.downloaded THEN {script.record.candidate} ELSE {}

\* prune_tags: all other tags, but for those Docker keeps.
Prune ==
    /\ script.step = "prune"
    /\ \E kept \in SUBSET (staged \ Keep) : staged' = (staged \intersect Keep) \union kept
    /\ IF script.record.rollback = None THEN UNCHANGED previous
       ELSE \E kept \in SUBSET (previous \ {script.record.rollback}) :
                previous' = (previous \intersect {script.record.rollback}) \union kept
    /\ Enter("tell")
    /\ UNCHANGED <<kind, remote, running, plain, pinned, file, override, notified, stopping,
                   told, dropped, cuts>>

\* What is pending, and whether the check failed.
Signature ==
    [candidate  |-> IF script.record.pending THEN script.record.candidate ELSE None,
     downloaded |-> script.record.pending /\ script.record.downloaded,
     failed     |-> script.failed]

\* One DM for each new state of affairs, noted when it is out.
Tell ==
    /\ script.step = "tell"
    /\ \/ /\ Signature \notin {NoSignature, notified}
          /\ \/ told' = Signature /\ Enter("sign")
             \/ Released /\ UNCHANGED told
          /\ UNCHANGED notified
       \/ Signature = notified /\ Released /\ UNCHANGED <<notified, told>>
       \/ Signature = NoSignature /\ Released /\ notified' = NoSignature /\ UNCHANGED told
    /\ UNCHANGED <<kind, remote, docker, file, override, stopping, dropped, cuts>>

Sign ==
    /\ script.step = "sign"
    /\ notified' = Signature
    /\ Released
    /\ UNCHANGED <<kind, remote, docker, file, override, stopping, told, dropped, cuts>>

-------------------------------------------------------------------------------
(* scanner-db-shutdown: the systemd unit's ExecStop.                         *)

Queued == file.pending /\ file.downloaded

\* An error: it is noted in the record, and the owner gets a DM.
Gives == Released /\ told' = [NoSignature EXCEPT !.failed = TRUE]

\* main and the first half of apply_database: what was staged is an image of this
\* series, and the container runs.
EnterHook ==
    /\ kind = "db" /\ script.step = "idle" /\ stopping /\ Queued
    /\ \/ /\ file.candidate \in staged
          /\ script' = [Off EXCEPT !.record = file,
                                   !.step = IF running = file.candidate THEN "ready" ELSE "backup"]
          /\ UNCHANGED told
       \/ Gives
    /\ UNCHANGED <<kind, remote, docker, file, override, notified, stopping, dropped, cuts>>

\* A whole dump, or no update.
Backup ==
    /\ script.step = "backup"
    /\ \/ Enter("up") /\ UNCHANGED told
       \/ Gives
    /\ UNCHANGED <<kind, remote, docker, file, override, notified, stopping, dropped, cuts>>

\* Still going down: the container is recreated with the candidate alone.
Up ==
    /\ script.step = "up"
    /\ \/ /\ stopping /\ running' = script.record.candidate /\ pinned' = TRUE
          /\ Enter("ready") /\ UNCHANGED told
       \/ Gives /\ UNCHANGED <<running, pinned>>
    /\ UNCHANGED <<kind, remote, plain, staged, previous, file, override, notified, stopping,
                   dropped, cuts>>

\* The database answers within two minutes.
WaitReady ==
    /\ script.step = "ready"
    /\ \/ Enter("tag") /\ UNCHANGED told
       \/ Gives
    /\ UNCHANGED <<kind, remote, docker, file, override, notified, stopping, dropped, cuts>>

\* Mutant of TagPlain: the plain tag stays.
TagPlain_Not ==
    /\ script.step = "tag"
    /\ Enter("done")
    /\ UNCHANGED <<kind, remote, docker, file, override, notified, stopping, told, dropped, cuts>>

\* A normal start must find the update as well.
TagPlain ==
    /\ script.step = "tag"
    /\ plain' = script.record.candidate
    /\ dropped' = FALSE
    /\ Enter("done")
    /\ UNCHANGED <<kind, remote, running, pinned, staged, previous, file, override, notified,
                   stopping, told, cuts>>

\* The record leaves the queue.  The owner may not hear of it: the results stay in the file.
Applied ==
    /\ script.step = "done"
    /\ file' = [script.record EXCEPT !.pending = FALSE]
    /\ told' \in {told, NoSignature}
    /\ Released
    /\ UNCHANGED <<kind, remote, docker, override, notified, stopping, dropped, cuts>>

-------------------------------------------------------------------------------
UpdateNext ==
    \/ Publishes \/ Recovers \/ Shutdown \/ Cancelled \/ Cut
    \/ Stage \/ StageFails \/ Verify \/ SaveOverrides \/ WriteState \/ Prune \/ Tell \/ Sign
    \/ EnterHook \/ Backup \/ Up \/ WaitReady \/ TagPlain \/ Applied

UpdateSpec == UpdateInit /\ [][UpdateNext]_updateVars

-------------------------------------------------------------------------------
(* Properties.                                                               *)

\* What the files name is there: no recovery finds an override whose image has been pruned, and
\* the recorded rollback can be started, wherever a script was cut off.
NamedIsThere ==
    /\ override # None => override \in staged
    /\ file.rollback # None => file.rollback \in previous

\* A normal start brings up the database that runs now; or its update is still queued for the
\* next shutdown, which finishes it; or a later check has taken it off the queue.
OrdinaryStart ==
    kind = "db" /\ script.step = "idle" /\ plain # running => Queued \/ dropped

\* Images, files and tags fit together, for the recovery and for a normal start.
UpdatesFit == NamedIsThere /\ OrdinaryStart

\* What scanner-db-shutdown says of its TagPlain: a normal start resolves the applied patch.  It
\* does not once a check has found the container current and taken its update off the queue.
PatchResolved ==
    kind = "db" /\ script.step = "idle" /\ ~Queued => plain = running
===============================================================================
