------------------------------- MODULE Catalogue -------------------------------
(***************************************************************************)
(* What the bot derives from the masterfile, which it downloads once a day *)
(* (cogs/scheduled.py, _refresh_masterfile_data; modules/quest_search.py): *)
(* the names that searches look up, megas.json with its sprites for the    *)
(* site (modules/mega_exporter.py), and the tables pokemon_name and        *)
(* pokemon_costume (modules/pokemon_name_sync.py,                          *)
(* modules/pokemon_costume_sync.py). A download starts a pass over the     *)
(* four; a step that raises ends the tick's pass. Until their first        *)
(* success the export and the tables are tried again every tick; after it, *)
(* only by the pass of the next download.                                  *)
(***************************************************************************)
EXTENDS Integers

CONSTANTS
    MaxMasterfile,   \* bound: versions of the masterfile
    Life,         \* ticks a download lasts
    MaxRaises     \* bound: steps that raise and downloads that fail

ASSUME CatalogueAssumption == MaxMasterfile \in Nat /\ Life \in Nat \ {0} /\ MaxRaises \in Nat

NotLoaded == -1

VARIABLES
    upstream,   \* the masterfile's version
    masterfile,     \* the version of masterfile_data, or None
    ttl,       \* ticks until it is downloaded again
    names,      \* the version of pokemon_name_map and item_name_map
    megas,      \* of megas.json
    sprites,    \* of the newest Mega that has a sprite or a mark that it has none
    table,      \* of the rows in pokemon_name
    costumes,   \* of the rows in pokemon_costume
    megasExported, namesSynced,
    step,       \* the step the tick is at
    reloaded,   \* masterfile_refreshed
    raises,
    cut         \* observation: a pass over a download was cut short, and none went through since

outputs == <<names, megas, sprites, table, costumes>>
flags   == <<megasExported, namesSynced>>
catalogueVars == <<upstream, masterfile, ttl, outputs, flags, step, reloaded, raises, cut>>

Versions == NotLoaded..MaxMasterfile

CatalogueTypeOK ==
    /\ upstream \in 0..MaxMasterfile
    /\ {masterfile, names, megas, sprites, table, costumes} \subseteq Versions
    /\ ttl \in 0..Life /\ raises \in 0..MaxRaises
    /\ step \in {"idle", "map", "megas", "sprites", "names", "costumes"}
    /\ {megasExported, namesSynced, reloaded, cut} \subseteq BOOLEAN

\* QuestSearch.__init__ downloads too, and without it there is no process.
CatalogueInit ==
    /\ upstream = 0
    /\ masterfile \in {NotLoaded, 0} /\ names = masterfile
    /\ ttl = IF masterfile = NotLoaded THEN 0 ELSE Life
    /\ megas = NotLoaded /\ sprites = NotLoaded /\ table = NotLoaded /\ costumes = NotLoaded
    /\ megasExported = FALSE /\ namesSynced = FALSE
    /\ step = "idle" /\ reloaded = FALSE /\ raises = 0 /\ cut = FALSE

-------------------------------------------------------------------------------
Publish ==
    /\ upstream < MaxMasterfile /\ upstream' = upstream + 1
    /\ UNCHANGED <<masterfile, ttl, outputs, flags, step, reloaded, raises, cut>>

Fails == raises < MaxRaises /\ raises' = raises + 1

\* load_masterfile_data: what was loaded is kept when the download fails.
LoadMasterfile(comes) ==
    /\ step = "idle"
    /\ IF ttl > 0
       THEN /\ comes /\ ttl' = ttl - 1 /\ reloaded' = FALSE
            /\ UNCHANGED <<masterfile, raises>>
       ELSE IF comes
            THEN /\ masterfile' = upstream /\ ttl' = Life /\ reloaded' = TRUE
                 /\ UNCHANGED raises
            ELSE Fails /\ reloaded' = FALSE /\ UNCHANGED <<masterfile, ttl>>
    /\ step' = IF reloaded' THEN "map" ELSE "megas"
    /\ UNCHANGED <<upstream, outputs, flags, cut>>

GenerateNameMap ==
    /\ step = "map" /\ step' = "megas"
    /\ names' = masterfile
    /\ UNCHANGED <<upstream, masterfile, ttl, megas, sprites, table, costumes, flags,
                   reloaded, raises, cut>>

\* Mutant of ExportMegas: a process exports once.
ExportMegas_Once ==
    /\ step = "megas"
    /\ IF ~megasExported /\ masterfile # NotLoaded
       THEN megas' = masterfile /\ step' = "sprites" /\ UNCHANGED megasExported
       ELSE /\ megasExported' = TRUE /\ step' = "names"
            /\ UNCHANGED megas
    /\ UNCHANGED <<upstream, masterfile, ttl, names, sprites, table, costumes,
                   namesSynced, reloaded, raises, cut>>

\* MegaExporter.export. Without a masterfile it does nothing, and counts as done.
ExportMegas ==
    /\ step = "megas"
    /\ IF (reloaded \/ ~megasExported) /\ masterfile # NotLoaded
       THEN megas' = masterfile /\ step' = "sprites" /\ UNCHANGED megasExported
       ELSE /\ megasExported' = TRUE /\ step' = "names"
            /\ UNCHANGED megas
    /\ UNCHANGED <<upstream, masterfile, ttl, names, sprites, table, costumes,
                   namesSynced, reloaded, raises, cut>>

\* One sprite for each new Mega; one that cannot be fetched is marked, for ever.
FetchSprites ==
    /\ step = "sprites" /\ step' = "names"
    /\ sprites' = masterfile
    /\ megasExported' = TRUE
    /\ UNCHANGED <<upstream, masterfile, ttl, names, megas, table, costumes, namesSynced,
                   reloaded, raises, cut>>

Synced == step' = "idle" /\ cut' = (cut /\ ~reloaded)

SyncNames ==
    /\ step = "names"
    /\ IF (reloaded \/ ~namesSynced) /\ masterfile # NotLoaded
       THEN table' = masterfile /\ step' = "costumes" /\ UNCHANGED cut
       ELSE Synced /\ UNCHANGED table
    /\ UNCHANGED <<upstream, masterfile, ttl, names, megas, sprites, costumes, flags,
                   reloaded, raises>>

SyncCostumes ==
    /\ step = "costumes"
    /\ costumes' = masterfile
    /\ namesSynced' = TRUE
    /\ Synced
    /\ UNCHANGED <<upstream, masterfile, ttl, names, megas, sprites, table, megasExported,
                   reloaded, raises>>

\* A malformed masterfile, a file that cannot be written, a query that fails: the
\* scheduler logs it and goes on with its other steps.
TickRaises ==
    /\ step # "idle" /\ Fails
    /\ step' = "idle"
    /\ cut' = (cut \/ reloaded)
    /\ UNCHANGED <<upstream, masterfile, ttl, outputs, flags, reloaded>>

CatalogueRestart(comes) ==
    /\ step' = "idle" /\ reloaded' = FALSE /\ cut' = FALSE
    /\ Fails
    /\ masterfile' = IF comes THEN upstream ELSE NotLoaded
    /\ names' = masterfile'
    /\ ttl' = IF comes THEN Life ELSE 0
    /\ megasExported' = FALSE /\ namesSynced' = FALSE
    /\ UNCHANGED <<upstream, megas, sprites, table, costumes>>

TickStep ==
    \/ GenerateNameMap \/ ExportMegas \/ FetchSprites \/ SyncNames \/ SyncCostumes
    \/ LoadMasterfile(TRUE)

CatalogueNext ==
    \/ Publish \/ TickStep \/ LoadMasterfile(FALSE) \/ TickRaises
    \/ \E comes \in BOOLEAN : CatalogueRestart(comes)

CatalogueSpec ==
    CatalogueInit /\ [][CatalogueNext]_catalogueVars /\ WF_catalogueVars(TickStep)

-------------------------------------------------------------------------------
\* Between ticks, what was derived is of the masterfile in memory, unless a pass
\* was cut short or it is still to be tried again.
DerivedIsOfOne ==
    step = "idle" /\ ~cut =>
        /\ names = masterfile
        /\ megasExported /\ masterfile # NotLoaded => megas = masterfile /\ sprites = masterfile
        /\ namesSynced => table = masterfile /\ costumes = masterfile

\* Everything comes to be of the published masterfile, and stays so, once it changes
\* no more and nothing fails any more.
CatalogueFollows ==
    <>[](\A v \in {masterfile, names, megas, sprites, table, costumes} : v = upstream)

=============================================================================
