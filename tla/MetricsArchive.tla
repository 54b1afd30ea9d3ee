--------------------------- MODULE MetricsArchive ---------------------------
(***************************************************************************)
(* The metrics archive of one symbol: daily Parquet partitions, their      *)
(* sidecar index, and the DuckDB catalog whose view reads every partition  *)
(* on disk.  market-archive downloads the missing days and publishes index *)
(* and catalog together under .publish.lock; market-archive-index rebuilds *)
(* both.  Writers of partitions share the lock, publications exclude them. *)
(***************************************************************************)
EXTENDS Naturals, FiniteSets

CONSTANTS
    Procs,      \* the processes that work on the archive
    LastDay,    \* the requested days are 1 .. LastDay
    Tools,      \* the commands in use: "download", "index"
    MaxFaults   \* bound: how many jobs fail or commands are killed

Days == 1 .. LastDay

ConstantsOK ==
    /\ LastDay \in Nat \ {0}
    /\ Tools \subseteq {"download", "index"}
    /\ MaxFaults \in Nat

VARIABLES
    files,      \* days that have a metrics.parquet on disk
    index,      \* metrics_index.parquet: [present, parts]
    metaOk,     \* metrics_index.meta.json has the index's generation
    catalog,    \* metrics.duckdb: "none", a view of no rows, or of all files
    upTo,       \* Binance has published the days 1 .. upTo
    lock,       \* exclusive holder of .publish.lock
    proc,       \* the processes' local state
    faults

vars == <<files, index, metaOk, catalog, upTo, lock, proc, faults>>

\* "known" is _indexed_rows (when "indexed"), "changed" is _changed_paths (the
\* archive is dirty when it is not empty), "rec" the records being written,
\* "full" whether the catalog is written anew.
Idle == [pc |-> "idle", tool |-> "none", indexed |-> FALSE, known |-> {},
         todo |-> {}, changed |-> {}, rec |-> {}, full |-> FALSE]

TypeOK ==
    /\ files \subseteq Days
    /\ index \in [present : BOOLEAN, parts : SUBSET Days]
    /\ metaOk \in BOOLEAN
    /\ catalog \in {"none", "empty", "glob"}
    /\ upTo \in 0 .. LastDay
    /\ lock \subseteq Procs /\ Cardinality(lock) <= 1
    /\ faults \in 0 .. MaxFaults
    /\ \A p \in Procs :
         /\ proc[p].pc \in {"idle", "gate", "open", "jobs", "publish", "close",
                            "windex", "wmeta", "catalog"}
         /\ proc[p].tool \in Tools \cup {"none"}
         /\ \A s \in {proc[p].known, proc[p].todo, proc[p].changed, proc[p].rec} :
              s \subseteq Days

Step(p, changes) == proc' = [proc EXCEPT ![p] = changes]
Goto(p, pc)      == [proc[p] EXCEPT !.pc = pc]
Exit(p)          == Step(p, Idle)

Init ==
    /\ files = {} /\ index = [present |-> FALSE, parts |-> {}]
    /\ metaOk = FALSE /\ catalog = "none" /\ upTo = 0 /\ lock = {}
    /\ proc = [p \in Procs |-> Idle] /\ faults = 0

PublishDay ==
    /\ upTo < LastDay
    /\ upTo' = upTo + 1
    /\ UNCHANGED <<files, index, metaOk, catalog, lock, proc, faults>>

-----------------------------------------------------------------------------
(* market-archive: the index gate, MetricsArchive(), the jobs. *)
StartCommand(p, tool) ==
    /\ proc[p].pc = "idle"
    /\ Step(p, [Idle EXCEPT !.tool = tool,
                  !.pc = IF tool = "index" THEN "publish" ELSE "gate"])
    /\ UNCHANGED <<files, index, metaOk, catalog, upTo, lock, faults>>

\* _require_index_for_existing_archive: data without an index is refused.
RequireIndex(p) ==
    /\ proc[p].pc = "gate"
    /\ IF index.present \/ files = {} THEN Step(p, Goto(p, "open")) ELSE Exit(p)
    /\ UNCHANGED <<files, index, metaOk, catalog, upTo, lock, faults>>

\* load_metrics_index raises on an index whose generation is not the meta's.
Loadable == index.present /\ metaOk

OpenArchive(p) ==
    /\ proc[p].pc = "open"
    /\ IF index.present /\ ~Loadable
       THEN Exit(p)
       ELSE Step(p, [Goto(p, "jobs") EXCEPT !.indexed = index.present,
                       !.known = index.parts, !.todo = Days])
    /\ UNCHANGED <<files, index, metaOk, catalog, upTo, lock, faults>>

\* partition_rows: the index first, then the disk.
Stored(p, d) == (proc[p].indexed /\ d \in proc[p].known) \/ d \in files

\* upsert_table, under the shared publication lock.
Store(p, d) ==
    /\ lock = {}
    /\ files' = files \cup {d}
    /\ Step(p, [proc[p] EXCEPT !.todo = @ \ {d}, !.changed = @ \cup {d},
                  !.known = IF proc[p].indexed THEN @ \cup {d} ELSE @])

\* One job that ends well: skipped, unavailable, or stored.
FinishJob(p) ==
    /\ proc[p].pc = "jobs"
    /\ \E d \in proc[p].todo :
         \/ /\ Stored(p, d) \/ d > upTo
            /\ Step(p, [proc[p] EXCEPT !.todo = @ \ {d}])
            /\ UNCHANGED files
         \/ /\ ~Stored(p, d) /\ d <= upTo
            /\ Store(p, d)
    /\ UNCHANGED <<index, metaOk, catalog, upTo, lock, faults>>

EndJobs(p) ==
    /\ proc[p].pc = "jobs" /\ proc[p].todo = {}
    /\ Step(p, Goto(p, "publish"))
    /\ UNCHANGED <<files, index, metaOk, catalog, upTo, lock, faults>>

\* A transfer, a parse or the disk guard fails: the with-statement closes the
\* archive, and nothing is published but the index.
FailJob(p) ==
    /\ proc[p].pc = "jobs" /\ faults < MaxFaults
    /\ faults' = faults + 1
    /\ \E d \in proc[p].todo : ~Stored(p, d)
    /\ IF proc[p].changed = {} THEN Exit(p) ELSE Step(p, Goto(p, "close"))
    /\ UNCHANGED <<files, index, metaOk, catalog, upTo, lock>>

-----------------------------------------------------------------------------
(* Publication, under the exclusive lock. *)

\* Mutant: the index lists what this run stored.
Records_changed(p) == proc[p].changed

\* _update_metrics_index merges the changed days into the reloaded index;
\* _build_metrics_index takes every partition on disk.
Records(p) == IF proc[p].indexed THEN index.parts \cup proc[p].changed ELSE files

\* publish() or close() gets the lock.  An incremental publication without
\* changes keeps the index as it is; one with changes must load it first.
BeginPublication(p) ==
    /\ proc[p].pc \in {"publish", "close"} /\ lock = {}
    /\ LET then == [proc[p] EXCEPT !.rec = Records(p), !.full = ~proc[p].indexed,
                      !.tool = IF proc[p].pc = "close" THEN "none" ELSE @]
       IN  CASE proc[p].indexed /\ proc[p].changed = {} /\ index.present ->
                  lock' = {p} /\ Step(p, [then EXCEPT !.pc = "catalog"])
             [] proc[p].indexed /\ proc[p].changed # {} /\ index.present /\ ~Loadable ->
                  UNCHANGED lock /\ Exit(p)
             [] OTHER ->
                  lock' = {p} /\ Step(p, [then EXCEPT !.pc = "windex"])
    /\ UNCHANGED <<files, index, metaOk, catalog, upTo, faults>>

ReplaceIndex(p) ==
    /\ proc[p].pc = "windex"
    /\ index' = [present |-> TRUE, parts |-> proc[p].rec] /\ metaOk' = FALSE
    /\ Step(p, Goto(p, "wmeta"))
    /\ UNCHANGED <<files, catalog, upTo, lock, faults>>

\* close() ends here; publish() goes on to the catalog.
ReplaceMeta(p) ==
    /\ proc[p].pc = "wmeta"
    /\ metaOk' = TRUE
    /\ IF proc[p].tool = "none"
       THEN lock' = {} /\ Exit(p)
       ELSE UNCHANGED lock /\ Step(p, Goto(p, "catalog"))
    /\ UNCHANGED <<files, index, catalog, upTo, faults>>

\* _create_metrics_catalog, and _ensure_metrics_catalog: a catalog whose view
\* reads no file is written anew once the index names partitions.
CatalogAfter(full) ==
    IF full \/ catalog = "none" \/ ((index.parts # {}) # (catalog = "glob"))
    THEN IF files = {} THEN "empty" ELSE "glob"
    ELSE catalog

WriteCatalog(p) ==
    /\ proc[p].pc = "catalog"
    /\ IF ~proc[p].full /\ catalog # "none" /\ ~Loadable
       THEN UNCHANGED catalog
       ELSE catalog' = CatalogAfter(proc[p].full)
    /\ lock' = {} /\ Exit(p)
    /\ UNCHANGED <<files, index, metaOk, upTo, faults>>

Kill(p) ==
    /\ proc[p].pc # "idle" /\ faults < MaxFaults
    /\ faults' = faults + 1
    /\ lock' = lock \ {p}
    /\ Exit(p)
    /\ UNCHANGED <<files, index, metaOk, catalog, upTo>>

Work(p) ==
    \/ RequireIndex(p) \/ OpenArchive(p) \/ FinishJob(p) \/ EndJobs(p)
    \/ BeginPublication(p) \/ ReplaceIndex(p) \/ ReplaceMeta(p) \/ WriteCatalog(p)

Next ==
    \/ PublishDay
    \/ \E p \in Procs, tool \in Tools : StartCommand(p, tool)
    \/ \E p \in Procs : Work(p) \/ FailJob(p) \/ Kill(p)

Spec == Init /\ [][Next]_vars

Fairness ==
    /\ WF_vars(PublishDay)
    /\ \A p \in Procs :
         /\ WF_vars(Work(p))
         /\ \A tool \in Tools : SF_vars(StartCommand(p, tool))

-----------------------------------------------------------------------------
(* Properties *)

\* No publication takes a day from the index: neither an incremental one of a
\* process that started before another published, nor one after a kill.
IndexNeverShrinks == [][index.parts \subseteq index'.parts]_vars

\* Whatever failed or was killed, running both commands again ends with every
\* requested day on disk, in a complete index, and in the catalog's view.
EventuallyPublished ==
    []<>(Loadable /\ catalog = "glob" /\ files = Days /\ index.parts = Days)

=============================================================================
