--------------------------- MODULE CandleArchive ---------------------------
(***************************************************************************)
(* The candle archive of one symbol, timeframe and month: the Parquet      *)
(* partitions on disk, the sidecar index that publishes them to readers,   *)
(* and the processes that change both (market-archive and                  *)
(* market-archive-index).  A partition is a day of the month, or 0 for the *)
(* file that holds the whole month.                                        *)
(*                                                                         *)
(* While the month runs the downloader stores daily files; once it is over *)
(* it stores the monthly file, which supersedes the daily ones.  Index and *)
(* files are changed one file at a time, a process can be killed between   *)
(* any two of these steps, and several processes may run at once.          *)
(***************************************************************************)
EXTENDS Naturals

CONSTANTS
    Procs,          \* the processes that work on the archive
    LastDay,        \* the days of the month are 1 .. LastDay
    Seconds,        \* TRUE: the 1s timeframe, which has daily files only
    MonthlyRows,    \* what Binance's monthly file may hold: a set of sets of days
    MaxFaults       \* bound: how many jobs fail or commands are killed

Days  == 1 .. LastDay
Parts == 0 .. LastDay

ConstantsOK ==
    /\ LastDay \in Nat \ {0}
    /\ Seconds \in BOOLEAN
    /\ MonthlyRows \subseteq SUBSET Days
    /\ MaxFaults \in Nat

VARIABLES
    files,      \* partitions that have a candles.parquet on disk
    index,      \* archive_index.parquet: [present, parts]
    metaOk,     \* archive_index.meta.json has the index's generation
    dirs,       \* the archive root holds directories
    month,      \* "current", "over" or "published" (Binance's monthly file)
    upTo,       \* Binance has published the daily files 1 .. upTo
    vision,     \* the days the monthly file holds
    indexLock,  \* holder of .index.lock: a set of at most one process
    monthLock,  \* holder of the month's .partition.lock across steps
    proc,       \* the processes' local state
    faults      \* how many faults there have been

vars == <<files, index, metaOk, dirs, month, upTo, vision, indexLock,
          monthLock, proc, faults>>

archive == <<files, index, metaOk, dirs>>
world   == <<month, upTo, vision>>
locks   == <<indexLock, monthLock>>

\* What a process remembers.  "known" is _indexed_rows (when "indexed"),
\* "changed" and "retired" are _changed_paths and _retired_paths, "layout" is
\* what repair read from the index, "cover" and "drop" the two sides of a mixed
\* month, "rec" the records of the index being written.
Idle == [pc |-> "idle", tool |-> "none", layout |-> {}, cover |-> {},
         drop |-> {}, removed |-> FALSE, indexed |-> FALSE, known |-> {},
         todo |-> {}, changed |-> {}, retired |-> {}, rec |-> {}]

PCs == {"idle", "layout", "scan", "recheck", "remove", "gate", "open", "jobs",
        "close", "retire", "build", "update", "windex", "wmeta", "finish"}

\* The values a process's memory takes.
ProcStates ==
    [pc : PCs, tool : {"none", "download", "index"}, layout : SUBSET Parts,
     cover : SUBSET Parts, drop : SUBSET Parts, removed : BOOLEAN,
     indexed : BOOLEAN, known : SUBSET Parts, todo : SUBSET Parts,
     changed : SUBSET Parts, retired : SUBSET Parts, rec : SUBSET Parts]

\* A lock file is free or held by one process.
LockStates == {{}} \cup {{p} : p \in Procs}

TypeOK ==
    /\ files \subseteq Parts
    /\ index \in [present : BOOLEAN, parts : SUBSET Parts]
    /\ metaOk \in BOOLEAN /\ dirs \in BOOLEAN
    /\ month \in {"current", "over", "published"}
    /\ upTo \in 0 .. LastDay
    /\ vision \in MonthlyRows
    /\ indexLock \in LockStates /\ monthLock \in LockStates
    /\ proc \in [Procs -> ProcStates]
    /\ faults \in 0 .. MaxFaults

-----------------------------------------------------------------------------
(* The days (open times) a set of partition files holds. *)
RowsIn(p)   == IF p = 0 THEN vision ELSE {p}
RowsOf(ps)  == UNION {RowsIn(p) : p \in ps}
Mixed(ps)   == 0 \in ps /\ ps \cap Days # {}

\* _require_open_time_coverage: every required file can be read, and so can
\* every covering one, and no open time is lost.
Covered(required, covering) ==
    /\ required \cup covering \subseteq files
    /\ RowsOf(required) \subseteq RowsOf(covering)

\* _PartitionLayoutValidator over the rows of an index.
LayoutValid(ps) ==
    /\ ~Mixed(ps)
    /\ Seconds => 0 \notin ps

Step(p, changes) == proc' = [proc EXCEPT ![p] = changes]
Goto(p, pc)      == [proc[p] EXCEPT !.pc = pc]

\* The command ends, successfully or with the exception that no handler takes.
Exit(p) == Step(p, Idle)

Init ==
    /\ files = {} /\ index = [present |-> FALSE, parts |-> {}]
    /\ metaOk = FALSE /\ dirs = FALSE
    /\ month = "current" /\ upTo = 0 /\ vision \in MonthlyRows
    /\ indexLock = {} /\ monthLock = {}
    /\ proc = [p \in Procs |-> Idle]
    /\ faults = 0

-----------------------------------------------------------------------------
(* Binance publishes a day's file; the month ends; its file is published. *)

PublishDay ==
    /\ upTo < LastDay
    /\ upTo' = upTo + 1
    /\ UNCHANGED <<archive, month, vision, locks, proc, faults>>

PassMonth ==
    /\ upTo = LastDay
    /\ \/ month = "current" /\ month' = "over"
       \/ month = "over" /\ month' = "published"
    /\ UNCHANGED <<archive, upTo, vision, locks, proc, faults>>

-----------------------------------------------------------------------------
(* Both commands begin with repair_mixed_candle_partitions. *)
StartCommand(p, tool) ==
    /\ proc[p].pc = "idle"
    /\ Step(p, [Idle EXCEPT !.pc = "layout", !.tool = tool])
    /\ UNCHANGED <<archive, world, locks, faults>>

\* _indexed_partition_layouts: reads the index file alone, not its generation.
ReadLayout(p) ==
    /\ proc[p].pc = "layout"
    /\ Step(p, [Goto(p, "scan") EXCEPT
                  !.layout = IF index.present THEN index.parts ELSE {}])
    /\ UNCHANGED <<archive, world, locks, faults>>

\* The side of a mixed month that repair keeps: the monthly file when the index
\* names it and no day, otherwise the daily files.
KeptSide(layout, onDisk) ==
    IF 0 \in layout /\ layout \cap Days = {} THEN {0} ELSE onDisk \cap Days

AfterRepair(p) == IF proc[p].tool = "index" THEN "build" ELSE "gate"

ScanMonth(p) ==
    LET keep == KeptSide(proc[p].layout, files)
        drop == files \ keep
    IN  /\ proc[p].pc = "scan"
        /\ CASE ~Mixed(files)         -> Step(p, Goto(p, AfterRepair(p)))
             [] Mixed(files) /\ Covered(drop, keep) ->
                  Step(p, [Goto(p, "recheck") EXCEPT !.cover = keep, !.drop = drop])
             [] Mixed(files) /\ ~Covered(drop, keep) -> Exit(p)
        /\ UNCHANGED <<archive, world, locks, faults>>

\* The second check, under the exclusive month lock.
RecheckMonth(p) ==
    /\ proc[p].pc = "recheck"
    /\ monthLock = {}
    /\ IF Covered(proc[p].drop, proc[p].cover)
       THEN monthLock' = {p} /\ Step(p, Goto(p, "remove"))
       ELSE UNCHANGED monthLock /\ Exit(p)
    /\ UNCHANGED <<archive, world, indexLock, faults>>

\* _remove_partition_files unlinks one file at a time; a file that is already
\* gone is skipped.
RemoveInactive(p) ==
    /\ proc[p].pc = "remove"
    /\ IF proc[p].drop \cap files = {}
       THEN /\ monthLock' = {} /\ UNCHANGED files
            /\ Step(p, Goto(p, IF proc[p].removed THEN "build" ELSE AfterRepair(p)))
       ELSE \E f \in proc[p].drop \cap files :
              /\ files' = files \ {f}
              /\ UNCHANGED monthLock
              /\ Step(p, [proc[p] EXCEPT !.drop = @ \ {f}, !.removed = TRUE])
    /\ UNCHANGED <<index, metaOk, dirs, world, indexLock, faults>>

\* _require_index_for_existing_archive.
RequireIndex(p) ==
    /\ proc[p].pc = "gate"
    /\ IF index.present \/ ~dirs THEN Step(p, Goto(p, "open")) ELSE Exit(p)
    /\ UNCHANGED <<archive, world, locks, faults>>

-----------------------------------------------------------------------------
(* The download: what a run asks for, opening the archive, the jobs. *)

\* _aggtrade_periods, _kline_periods: days for 1s and for the running month,
\* the monthly file for a month that is over.
Jobs == IF Seconds \/ month = "current" THEN Days ELSE {0}

\* load_archive_index raises on an index whose generation is not the meta's.
Loadable == index.present /\ metaOk /\ LayoutValid(index.parts)

OpenArchive(p) ==
    /\ proc[p].pc = "open"
    /\ IF index.present /\ ~Loadable
       THEN Exit(p)
       ELSE Step(p, [Goto(p, "jobs") EXCEPT !.indexed = index.present,
                       !.known = index.parts, !.todo = Jobs])
    /\ UNCHANGED <<archive, world, locks, faults>>

\* partition_rows: the index decides when there is one, otherwise the disk.
Stored(p, part) == part \in (IF proc[p].indexed THEN proc[p].known ELSE files)

Available(part) == IF part = 0 THEN month = "published" ELSE part <= upTo

\* upsert_table, under the month lock (shared for a day, exclusive for the
\* month): a day is refused while the monthly file exists, a monthly file must
\* hold every open time of the daily files it retires.
Accepts(part) ==
    IF part = 0 THEN files \cap Days = {} \/ RowsOf(files \cap Days) \subseteq vision
                ELSE 0 \notin files

\* One job of download_history that ends well: skipped, unavailable or stored.
FinishJob(p) ==
    /\ proc[p].pc = "jobs"
    /\ \E part \in proc[p].todo :
         LET rest == [proc[p] EXCEPT !.todo = @ \ {part}]
             gone == IF part = 0 THEN files \cap Days ELSE {}
         IN  \/ /\ Stored(p, part) \/ ~Available(part) \/ RowsIn(part) = {}
                /\ Step(p, rest)
                /\ UNCHANGED <<files, dirs>>
             \/ /\ ~Stored(p, part) /\ Available(part) /\ RowsIn(part) # {}
                /\ monthLock = {}
                /\ Accepts(part)
                /\ files' = files \cup {part} /\ dirs' = TRUE
                /\ Step(p, [rest EXCEPT
                              !.changed = @ \cup {part},
                              !.retired = @ \cup gone,
                              !.known = IF proc[p].indexed
                                        THEN (@ \cup {part}) \ gone ELSE @])
    /\ UNCHANGED <<index, metaOk, world, locks, faults>>

\* A job raises, the other jobs have finished or are given up, and the
\* with-statement closes the archive.  upsert_table refuses the partition ...
RefuseJob(p) ==
    /\ proc[p].pc = "jobs"
    /\ \E part \in proc[p].todo :
         /\ ~Stored(p, part) /\ Available(part) /\ RowsIn(part) # {}
         /\ monthLock = {}
         /\ ~Accepts(part)
    /\ Step(p, [Goto(p, "close") EXCEPT !.todo = {}])
    /\ dirs' = TRUE
    /\ UNCHANGED <<files, index, metaOk, world, locks, faults>>

\* Mutant: the run that fails takes back what it stored.
FailJob_takes_back(p) ==
    /\ proc[p].pc = "jobs" /\ faults < MaxFaults
    /\ \E part \in proc[p].todo : ~Stored(p, part)
    /\ faults' = faults + 1
    /\ files' = files \ proc[p].changed
    /\ Step(p, [Goto(p, "close") EXCEPT !.todo = {}])
    /\ UNCHANGED <<index, metaOk, dirs, world, locks>>

\* ... or the transfer fails, the disk guard trips, the operator interrupts,
\* or another writer holds the partition's .write.lock.
FailJob(p) ==
    /\ proc[p].pc = "jobs" /\ faults < MaxFaults
    /\ \E part \in proc[p].todo : ~Stored(p, part)
    /\ faults' = faults + 1
    /\ Step(p, [Goto(p, "close") EXCEPT !.todo = {}])
    /\ UNCHANGED <<archive, world, locks>>

EndJobs(p) ==
    /\ proc[p].pc = "jobs" /\ proc[p].todo = {}
    /\ Step(p, Goto(p, "close"))
    /\ UNCHANGED <<archive, world, locks, faults>>

-----------------------------------------------------------------------------
(* close(): a first archive drops the retired files and builds the index; an *)
(* indexed one updates the index and then drops the retired files.           *)
CloseArchive(p) ==
    /\ proc[p].pc = "close"
    /\ CASE proc[p].changed = {}  -> Exit(p)
         [] proc[p].changed # {} /\ proc[p].indexed  -> Step(p, Goto(p, "update"))
         [] proc[p].changed # {} /\ ~proc[p].indexed -> Step(p, Goto(p, "retire"))
    /\ UNCHANGED <<archive, world, locks, faults>>

\* The retired files are removed without the month lock.
RetireFiles(p) ==
    /\ proc[p].pc = "retire"
    /\ IF proc[p].retired \cap files = {}
       THEN /\ UNCHANGED files
            /\ IF proc[p].indexed THEN Exit(p) ELSE Step(p, Goto(p, "build"))
       ELSE \E f \in proc[p].retired \cap files :
              /\ files' = files \ {f}
              /\ Step(p, [proc[p] EXCEPT !.retired = @ \ {f}])
    /\ UNCHANGED <<index, metaOk, dirs, world, locks, faults>>

\* Mutant: a rebuild that first insists on loading the old index.
ScanForIndex_loads_first(p) ==
    /\ proc[p].pc = "build" /\ indexLock = {}
    /\ IF LayoutValid(files) /\ (index.present => Loadable)
       THEN indexLock' = {p} /\ Step(p, [Goto(p, "windex") EXCEPT !.rec = files])
       ELSE UNCHANGED indexLock /\ Exit(p)
    /\ UNCHANGED <<archive, world, monthLock, faults>>

\* Mutant: the index lists what a run asks for.
ScanForIndex_asked(p) ==
    /\ proc[p].pc = "build" /\ indexLock = {}
    /\ indexLock' = {p} /\ Step(p, [Goto(p, "windex") EXCEPT !.rec = Jobs])
    /\ UNCHANGED <<archive, world, monthLock, faults>>

\* Mutant: the index lists what this run stored.
ScanForIndex_changed(p) ==
    /\ proc[p].pc = "build" /\ indexLock = {}
    /\ indexLock' = {p} /\ Step(p, [Goto(p, "windex") EXCEPT !.rec = proc[p].changed])
    /\ UNCHANGED <<archive, world, monthLock, faults>>

\* build_archive_index: every partition on disk, refused when the layout is
\* mixed.
ScanForIndex(p) ==
    /\ proc[p].pc = "build" /\ indexLock = {}
    /\ IF LayoutValid(files)
       THEN indexLock' = {p} /\ Step(p, [Goto(p, "windex") EXCEPT !.rec = files])
       ELSE UNCHANGED indexLock /\ Exit(p)
    /\ UNCHANGED <<archive, world, monthLock, faults>>

\* The records update_archive_index writes: the index as reloaded under the
\* lock, without the retired files, with the changed ones.
Merged(p) == (index.parts \ proc[p].retired) \cup proc[p].changed

\* update_archive_index; _inspect_partition raises on a changed file that is
\* gone, the layout validator on a mixed month.
MergeIndex(p) ==
    /\ proc[p].pc = "update" /\ indexLock = {}
    /\ IF /\ index.present => Loadable
          /\ proc[p].changed \subseteq files
          /\ LayoutValid(Merged(p))
       THEN indexLock' = {p} /\ Step(p, [Goto(p, "windex") EXCEPT !.rec = Merged(p)])
       ELSE UNCHANGED indexLock /\ Exit(p)
    /\ UNCHANGED <<archive, world, monthLock, faults>>

ReplaceIndex(p) ==
    /\ proc[p].pc = "windex"
    /\ index' = [present |-> TRUE, parts |-> proc[p].rec] /\ metaOk' = FALSE
    /\ Step(p, Goto(p, "wmeta"))
    /\ UNCHANGED <<files, dirs, world, locks, faults>>

\* The meta file makes the generation complete.  An update goes on to remove
\* the retired files; the rebuild after a repair goes on to the download.
AfterIndex(p) ==
    CASE proc[p].indexed -> "retire"
      [] ~proc[p].indexed /\ proc[p].removed /\ proc[p].tool = "download" -> "gate"
      [] OTHER -> "finish"

ReplaceMeta(p) ==
    /\ proc[p].pc = "wmeta"
    /\ metaOk' = TRUE /\ indexLock' = {}
    /\ Step(p, [Goto(p, AfterIndex(p)) EXCEPT !.rec = {}, !.removed = FALSE])
    /\ UNCHANGED <<files, index, dirs, world, monthLock, faults>>

\* The catalog (DuckDB view over the indexed files) is created or kept.
Finish(p) ==
    /\ proc[p].pc = "finish"
    /\ Exit(p)
    /\ UNCHANGED <<archive, world, locks, faults>>

\* kill -9 or a power cut: the locks fall, the memory is gone.
Kill(p) ==
    /\ proc[p].pc # "idle" /\ faults < MaxFaults
    /\ faults' = faults + 1
    /\ indexLock' = indexLock \ {p} /\ monthLock' = monthLock \ {p}
    /\ Exit(p)
    /\ UNCHANGED <<archive, world>>

Work(p) ==
    \/ ReadLayout(p) \/ ScanMonth(p) \/ RecheckMonth(p) \/ RemoveInactive(p)
    \/ RequireIndex(p) \/ OpenArchive(p)
    \/ FinishJob(p) \/ RefuseJob(p) \/ EndJobs(p)
    \/ CloseArchive(p) \/ RetireFiles(p) \/ ScanForIndex(p) \/ MergeIndex(p)
    \/ ReplaceIndex(p) \/ ReplaceMeta(p) \/ Finish(p)

Next ==
    \/ PublishDay \/ PassMonth
    \/ \E p \in Procs, tool \in {"download", "index"} : StartCommand(p, tool)
    \/ \E p \in Procs : Work(p) \/ FailJob(p) \/ Kill(p)

Spec == Init /\ [][Next]_vars

\* Binance publishes its files, a command that was started goes on, and the
\* operator runs both commands again and again.
Fairness ==
    /\ WF_vars(PublishDay) /\ WF_vars(PassMonth)
    /\ \A p \in Procs :
         /\ WF_vars(Work(p))
         /\ \A tool \in {"download", "index"} : SF_vars(StartCommand(p, tool))

-----------------------------------------------------------------------------
(* Properties *)

\* The candles view reads the files the index names.
Visible == RowsOf(index.parts \cap files)

\* The meta file says the index is complete: then every partition it names is
\* on disk and no month is named by both layouts, so load_archive_index and
\* verify_archive_index_files accept it.
CompleteIndexIsServed ==
    index.present /\ metaOk => index.parts \subseteq files /\ LayoutValid(index.parts)

\* A process removes files and those it counts on for their rows have gone: the
\* monthly file of a close, the side of the month that a repair keeps.
Bereft(p) ==
    \/ RetireFiles(p) /\ 0 \notin files
    \/ RemoveInactive(p) /\ ~(proc[p].cover \subseteq files)

\* No day that was stored is ever lost from the disk: a file is removed only
\* while another file holds its rows (compaction, repair, close).  One command
\* alone never loses a day.  Of several, one loses a day only when another has
\* removed the file that was to hold it, which .partition.lock does not prevent
\* as close() removes the daily files without it.
RowsNeverVanish ==
    [][\/ RowsOf(files) \subseteq RowsOf(files')
       \/ \E p, r \in Procs : p # r /\ Bereft(p)]_vars

\* Readers of the catalog never lose a day: replacing the daily files by the
\* monthly one is invisible to them at every point, kills included.
ReadersNeverLoseRows == [][Visible \subseteq RowsOf(index'.parts \cap files')]_vars

\* Whatever was killed or failed before, running the commands again ends in a
\* complete index that names exactly what is on disk and covers the month.
EventuallyServed ==
    []<>(index.present /\ metaOk /\ index.parts = files /\ Visible = Days)

-----------------------------------------------------------------------------
(* Why the safety properties hold, as an inductive invariant *)

\* At most one command at a time works on the archive, or the timeframe has no
\* monthly file.  No lock enforces the first; outside of this a repair and a
\* close that overlap remove both copies of a day.
Undisturbed == Seconds \/ \A p, q \in Procs : p = q

\* The index names files that exist, in one layout; the 1s timeframe has no
\* monthly file.
IndexSound ==
    /\ index.parts \subseteq files
    /\ LayoutValid(index.parts)
    /\ ~index.present => index.parts = {}
    /\ Seconds => 0 \notin files

\* A run does days or the month, and until it opened the archive it changed
\* nothing.
RunSound(p) ==
    /\ proc[p].pc \in {"idle", "layout", "scan", "recheck", "remove", "gate", "open"} =>
         proc[p].changed = {} /\ proc[p].retired = {}
    /\ proc[p].removed =>
         /\ proc[p].pc \in {"remove", "build", "windex", "wmeta"}
         /\ proc[p].changed = {} /\ proc[p].retired = {}
    /\ 0 \in proc[p].todo => proc[p].todo = {0} /\ proc[p].changed = {} /\ ~Seconds

\* Daily files are retired for a monthly file that is on disk and holds their
\* rows, and go once the index does not name them.
RetiredSound(p) ==
    /\ proc[p].retired \subseteq Days
    /\ proc[p].retired # {} =>
         0 \in files /\ proc[p].changed = {0} /\ RowsOf(proc[p].retired) \subseteq vision
    /\ proc[p].pc \in {"retire", "wmeta"} => proc[p].retired \cap index.parts = {}
    /\ proc[p].pc = "build" => proc[p].retired \cap files = {}
    /\ proc[p].pc \in {"jobs", "close"} /\ ~proc[p].indexed /\ ~Seconds => ~index.present

\* A repair drops the side of the month that the index does not name, and has
\* seen that the other side holds its rows.
RepairSound(p) ==
    /\ proc[p].pc \in {"scan", "recheck", "remove"} /\ ~Seconds =>
         proc[p].layout = index.parts
    /\ proc[p].pc \in {"recheck", "remove"} =>
         /\ ~Seconds
         /\ proc[p].cover \cap proc[p].drop = {}
         /\ proc[p].drop \cap index.parts = {}
    /\ proc[p].pc = "remove" => Covered(proc[p].drop, proc[p].cover)

\* The holder of the index lock is about to publish files that exist, in one
\* layout, with every row that readers see now.
WriterSound(p) ==
    /\ p \in indexLock <=> proc[p].pc \in {"windex", "wmeta"}
    /\ proc[p].pc = "windex" =>
         /\ proc[p].rec \subseteq files
         /\ LayoutValid(proc[p].rec)
         /\ proc[p].rec \cap proc[p].retired = {}
         /\ RowsOf(index.parts) \subseteq RowsOf(proc[p].rec)

ProcSound(p) == RunSound(p) /\ RetiredSound(p) /\ RepairSound(p) /\ WriterSound(p)

\* What holds of every process, however many there are: the files it is about to
\* remove had their rows in those it counts on.
RemovalSound(p) ==
    /\ proc[p].retired \subseteq Days /\ RowsOf(proc[p].retired) \subseteq vision
    /\ proc[p].pc \in {"recheck", "remove"} => proc[p].cover \cap proc[p].drop = {}
    /\ proc[p].pc = "remove" => RowsOf(proc[p].drop) \subseteq RowsOf(proc[p].cover)

\* The inductive invariant of one command, or of the 1s timeframe.
ArchiveInv == TypeOK /\ IndexSound /\ \A p \in Procs : ProcSound(p)
=============================================================================
