------------------------------ MODULE ScanAreas ------------------------------
(***************************************************************************)
(* The scan areas every part of the bot reads (modules/scan_areas.py): the *)
(* registry in the database, the geofence of each active area in Dragonite *)
(* and, for when Dragonite does not answer, a copy of the fences on disk.  *)
(* Any coroutine may ask for a fresh snapshot (ensure); refreshes queue    *)
(* for one lock. A refresh reads the registry, then the fences area by     *)
(* area, and puts the new snapshot in place in one go.                     *)
(*                                                                         *)
(* A fence is the version of the polygon drawn in Dragonite; times are     *)
(* ages in minutes, no higher than RefreshAfter.                           *)
(***************************************************************************)
EXTENDS Integers, Sequences, FiniteSets, Functions

CONSTANTS
    AreaKeys,         \* area keys
    Callers,       \* coroutines that call ensure
    RefreshAfter,  \* REFRESH_SECONDS
    RetryAfter,    \* RETRY_SECONDS
    MaxFence,      \* bound: versions a polygon goes through
    Nobody

ASSUME ScanAreasAssumption ==
    /\ IsFiniteSet(AreaKeys)
    /\ RefreshAfter \in Nat \ {0} /\ RetryAfter \in 1..RefreshAfter
    /\ MaxFence \in Nat
    /\ Nobody \notin Callers

Missing == -1
Fence == 0..MaxFence
Never == RefreshAfter

VARIABLES
    registry,   \* the active areas in the database
    drawn,      \* Dragonite's polygon of each area; Missing when it has none
    disk,       \* the cached copy of each area; Missing when it has none
    rows,       \* _rows: the active areas of the snapshot
    fences,     \* _fences
    sinceLoad,     \* age of _loaded_at
    tried,      \* age of _last_attempt
    queue,      \* callers waiting for _lock, first come first served
    holder,     \* the caller inside the lock
    read,       \* its registry rows, once read
    got,        \* its polygons so far
    keptCopy,        \* the copy it read from disk
    lostCopy    \* observation: areas whose copy could not be written or was lost

outside  == <<registry, drawn>>
snapshot == <<rows, fences, sinceLoad>>
attempt  == <<holder, read, got, keptCopy>>
areaVars == <<outside, disk, snapshot, tried, queue, attempt, lostCopy>>

NoFence == [a \in AreaKeys |-> Missing]
Fenced(f) == {a \in AreaKeys : f[a] # Missing}

AreasTypeOK ==
    /\ registry \subseteq AreaKeys /\ rows \subseteq AreaKeys
    /\ {drawn, disk, fences, got, keptCopy} \subseteq [AreaKeys -> Fence \union {Missing}]
    /\ {sinceLoad, tried} \subseteq 0..Never
    /\ queue \in Seq(Callers)
    /\ holder \in Callers \union {Nobody}
    /\ read \in [known: BOOLEAN, active: SUBSET AreaKeys]
    /\ lostCopy \subseteq AreaKeys

NotRead == [known |-> FALSE, active |-> {}]

AreasInit ==
    /\ registry \in SUBSET AreaKeys
    /\ drawn \in [AreaKeys -> {0, Missing}]
    /\ disk = NoFence
    /\ rows = {} /\ fences = NoFence
    /\ sinceLoad = Never /\ tried = Never
    /\ queue = <<>> /\ holder = Nobody
    /\ read = NotRead /\ got = NoFence /\ keptCopy = NoFence
    /\ lostCopy = {}

-------------------------------------------------------------------------------
\* Outside: an operator changes the registry or Dragonite, time passes, the copy
\* on disk becomes unreadable.

SetRegistry(active) ==
    /\ registry' = active
    /\ UNCHANGED <<drawn, disk, snapshot, tried, queue, attempt, lostCopy>>

Redraw(a, version) ==
    /\ version \in {Missing, drawn[a] + 1} /\ version <= MaxFence
    /\ drawn' = [drawn EXCEPT ![a] = version]
    /\ UNCHANGED <<registry, disk, snapshot, tried, queue, attempt, lostCopy>>

Minute ==
    /\ sinceLoad' = IF sinceLoad < RefreshAfter THEN sinceLoad + 1 ELSE sinceLoad
    /\ tried' = IF tried < RefreshAfter THEN tried + 1 ELSE tried
    /\ UNCHANGED <<outside, disk, rows, fences, queue, attempt, lostCopy>>

LoseCopy ==
    /\ disk' = NoFence
    /\ lostCopy' = lostCopy \union Fenced(disk)
    /\ UNCHANGED <<outside, snapshot, tried, queue, attempt>>

-------------------------------------------------------------------------------
\* ensure: a fresh snapshot is used as it is, and a failed refresh is not tried
\* again at once. The answer is decided before the caller waits for the lock.
Stale == sinceLoad >= RefreshAfter /\ tried >= RetryAfter

Resting(c) == c # holder /\ \A i \in DOMAIN queue : queue[i] # c

Ensure(c) ==
    /\ Resting(c)
    /\ Stale
    /\ queue' = Append(queue, c)
    /\ UNCHANGED <<outside, disk, snapshot, tried, attempt, lostCopy>>

Enter ==
    /\ holder = Nobody /\ queue # <<>>
    /\ holder' = Head(queue)
    /\ queue' = Tail(queue)
    /\ tried' = 0
    /\ UNCHANGED <<outside, disk, snapshot, read, got, keptCopy, lostCopy>>

Leave ==
    /\ holder' = Nobody
    /\ read' = NotRead /\ got' = NoFence /\ keptCopy' = NoFence

ReadRegistry ==
    /\ holder # Nobody /\ ~read.known
    /\ read' = [known |-> TRUE, active |-> registry]
    /\ keptCopy' = disk
    /\ UNCHANGED <<outside, disk, snapshot, tried, queue, holder, got, lostCopy>>

RegistryFails ==
    /\ holder # Nobody /\ ~read.known
    /\ Leave
    /\ UNCHANGED <<outside, disk, snapshot, tried, queue, lostCopy>>

\* _fetch_fences: one request an area.
FetchArea(a) ==
    /\ read.known /\ a \in read.active \ Fenced(got)
    /\ drawn[a] # Missing
    /\ got' = [got EXCEPT ![a] = drawn[a]]
    /\ UNCHANGED <<outside, disk, snapshot, tried, queue, holder, read, keptCopy, lostCopy>>

\* Mutant of Install: the fences are added to those of the old snapshot.
Install_Merged(polygons) ==
    /\ rows' = read.active
    /\ fences' = [a \in AreaKeys |-> IF a \in read.active THEN polygons[a] ELSE fences[a]]
    /\ sinceLoad' = 0
    /\ Leave
    /\ UNCHANGED <<outside, tried, queue>>

\* The new snapshot replaces the old one between two awaits.
Install(polygons) ==
    /\ rows' = read.active
    /\ fences' = [a \in AreaKeys |-> IF a \in read.active THEN polygons[a] ELSE Missing]
    /\ sinceLoad' = 0
    /\ Leave
    /\ UNCHANGED <<outside, tried, queue>>

\* _write_cache: the file holds the areas that are active now, or it stays as it
\* was.
SaveFence(written) ==
    IF written
    THEN disk' = got /\ lostCopy' = lostCopy \ read.active
    ELSE UNCHANGED disk /\ lostCopy' = lostCopy \union read.active

Fetched(written) ==
    /\ read.known /\ read.active \subseteq Fenced(got)
    /\ SaveFence(written)
    /\ Install(got)

\* Dragonite does not answer, or does not know one of the areas: what was fetched
\* is dropped, and every area falls back to its copy, if there is one.
FetchFails ==
    /\ read.known /\ ~(read.active \subseteq Fenced(got))
    /\ Install(keptCopy)
    /\ UNCHANGED <<disk, lostCopy>>

AreasRestart ==
    /\ rows' = {} /\ fences' = NoFence /\ sinceLoad' = Never /\ tried' = Never
    /\ queue' = <<>>
    /\ Leave
    /\ UNCHANGED <<outside, disk, lostCopy>>

AreasNext ==
    \/ \E active \in SUBSET AreaKeys : SetRegistry(active)
    \/ \E a \in AreaKeys, version \in Fence \union {Missing} : Redraw(a, version)
    \/ Minute \/ LoseCopy
    \/ \E c \in Callers : Ensure(c)
    \/ Enter \/ ReadRegistry \/ RegistryFails
    \/ \E a \in AreaKeys : FetchArea(a)
    \/ \E written \in BOOLEAN : Fetched(written)
    \/ FetchFails
    \/ AreasRestart

AreasSpec == AreasInit /\ [][AreasNext]_areaVars

-------------------------------------------------------------------------------
\* No fence of an area that is off, and (area_for) no point that two snapshots
\* disagree on: rows and fences are of one refresh.
OneSnapshot == Fenced(fences) \subseteq rows

\* An area of the snapshot that has a copy on disk has a fence.
CopiesAreUsed == rows \intersect Fenced(disk) \subseteq Fenced(fences)

\* An area that stays active keeps a fence, through Dragonite failing and through
\* a restart's first refresh, as long as its copy was never lost: a refresh that
\* fails falls back to the copies and not, as its docstring says, to the snapshot.
KeepsFences ==
    [][\A a \in Fenced(fences) :
          a \in rows' /\ a \notin lostCopy => a \in Fenced(fences')]_fences

\* What refresh promises its readers.
AreasHold == [](OneSnapshot /\ CopiesAreUsed) /\ KeepsFences
===============================================================================
