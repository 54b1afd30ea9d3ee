----------------------------- MODULE ReportImport -----------------------------
(***************************************************************************)
(* Backtest researches in PostgreSQL: the report directory a sweep writes  *)
(* (backtest/sweep.py), its parser (backtest/report_import.py), the        *)
(* transactional import (backtest/report_store.py) that the sweep runs at  *)
(* its end and an operator runs as a command, and the two-query reads of   *)
(* the research API (ledger/db/backtest_repository.py).                    *)
(*                                                                         *)
(* A file is the number of the sweep that wrote it, 0 when it is missing.  *)
(* The directory has five: the records of the runs (orders, fills, audit   *)
(* events), comparison.csv, all_trades.csv, the other reports, and         *)
(* experiment.json.  Files of different sweeps differ, so what identifies  *)
(* a report is which sweep wrote each of its files; a copy of the          *)
(* directory has the same identity.                                        *)
(***************************************************************************)
EXTENDS Integers, Sequences, FiniteSets

CONSTANTS
  Dirs,         \* report directories
  Importers,    \* processes that import: the sweep and commands
  Sweeper,      \* the importer that is the sweep (one, by its process lock)
  MaxSweeps,    \* bound: sweeps
  MaxImports,   \* bound: imports of the commands
  MaxReads      \* bound: reads of the API

VARIABLES
  dir,          \* dir[d][f]: the sweep that wrote file f
  sweep,        \* the running sweep: its number, directory and next file
  imp,          \* imp[p]: the import of process p
  db,           \* committed rows of backtest_researches with what hangs on them
  reader,       \* a request of the API between its two queries
  count         \* [sweeps, imports, reads]

vars == <<dir, sweep, imp, db, reader, count>>

Files == <<"records", "comparison", "trades", "reports", "experiment">>

FileNames == {Files[i] : i \in 1 .. Len(Files)}

NoReport == [f \in FileNames |-> 0]

NoSweep == [on |-> FALSE, n |-> 0, d |-> CHOOSE d \in Dirs : TRUE, next |-> 0]

\* calm: nothing was written into the directory since the parser looked at it;
\* alone: no other import was under way at the same time.
NoImport == [pc |-> "idle", d |-> CHOOSE d \in Dirs : TRUE, key |-> NoReport,
             matched |-> {}, deleted |-> {}, rows |-> NoReport, trades |-> 0,
             calm |-> TRUE, alone |-> TRUE]

NoRead == [on |-> FALSE, row |-> NoReport, first |-> 0, second |-> 0, calm |-> TRUE]

Init ==
  /\ dir = [d \in Dirs |-> NoReport]
  /\ sweep = NoSweep
  /\ imp = [p \in Importers |-> NoImport]
  /\ db = {}
  /\ reader = NoRead
  /\ count = [sweeps |-> 0, imports |-> 0, reads |-> 0]

-----------------------------------------------------------------------------
(* The sweep writes its report, file by file.                               *)

\* The imports that have looked at directory d notice nothing, but are no longer
\* of a directory at rest.
Stir(d) == [p \in Importers |-> IF imp[p].pc # "idle" /\ imp[p].d = d
                                  THEN [imp[p] EXCEPT !.calm = FALSE] ELSE imp[p]]

\* The results of earlier runs go, the rest of an earlier report stays.
StartSweep(d) ==
  /\ ~sweep.on /\ imp[Sweeper].pc = "idle"
  /\ count.sweeps < MaxSweeps
  /\ count' = [count EXCEPT !.sweeps = @ + 1]
  /\ sweep' = [on |-> TRUE, n |-> count.sweeps + 1, d |-> d, next |-> 1]
  /\ dir' = [dir EXCEPT ![d]["records"] = 0]
  /\ imp' = Stir(d)
  /\ UNCHANGED <<db, reader>>

WriteFile ==
  /\ sweep.on /\ sweep.next <= Len(Files)
  /\ dir' = [dir EXCEPT ![sweep.d][Files[sweep.next]] = sweep.n]
  /\ sweep' = [sweep EXCEPT !.next = @ + 1]
  /\ imp' = Stir(sweep.d)
  /\ UNCHANGED <<db, reader, count>>

\* A run fails: comparison.csv lists it all the same, and the parser will not
\* find its files.
FailRun ==
  /\ sweep.on /\ sweep.next = 1
  /\ sweep' = [sweep EXCEPT !.next = 2]
  /\ UNCHANGED <<dir, imp, db, reader, count>>

\* Ctrl+C or a failure, also that of the parser on a report with failed runs.
StopSweep ==
  /\ sweep.on /\ imp[Sweeper].pc = "idle"
  /\ sweep' = [sweep EXCEPT !.on = FALSE]
  /\ UNCHANGED <<dir, imp, db, reader, count>>

\* _validate: every file must be there.
Valid(d) == \A f \in FileNames : dir[d][f] # 0

\* An operator copies a report to a directory of its own.
CopyReport(d, e) ==
  /\ dir[e] = NoReport /\ Valid(d)
  /\ ~sweep.on
  /\ dir' = [dir EXCEPT ![e] = dir[d]]
  /\ UNCHANGED <<sweep, imp, db, reader, count>>

-----------------------------------------------------------------------------
(* import_directory.                                                        *)

Busy == {p \in Importers : imp[p].pc # "idle"}

\* The parser of an import looks at the directory and takes its identity.
Parse(p, d) ==
  /\ imp[p].pc = "idle"
  /\ Valid(d)
  /\ imp' = [q \in Importers |->
               IF q = p THEN [NoImport EXCEPT !.pc = "delete", !.d = d, !.key = dir[d],
                                              !.alone = Busy = {}]
               ELSE IF q \in Busy THEN [imp[q] EXCEPT !.alone = FALSE] ELSE imp[q]]

SweepImports ==
  /\ sweep.on /\ sweep.next > Len(Files)
  /\ Parse(Sweeper, sweep.d)
  /\ UNCHANGED <<dir, sweep, db, reader, count>>

CommandImports(p, d) ==
  /\ p # Sweeper
  /\ count.imports < MaxImports
  /\ Parse(p, d)
  /\ count' = [count EXCEPT !.imports = @ + 1]
  /\ UNCHANGED <<dir, sweep, db, reader>>

\* WHERE source_key = %s OR report_path = %s
Replaces(r, key, d) == r.key = key \/ r.path = d

\* The snapshot of the DELETE: committed rows that match.  The statement then
\* waits for the transactions that have deleted one of them.
Match(p) ==
  /\ imp[p].pc = "delete"
  /\ imp' = [imp EXCEPT ![p].pc = "wait",
                        ![p].matched = {r \in db : Replaces(r, imp[p].key, imp[p].d)}]
  /\ UNCHANGED <<dir, sweep, db, reader, count>>

Locked(p) == UNION {imp[q].deleted : q \in Importers \ {p}}

Delete(p) ==
  /\ imp[p].pc = "wait"
  /\ imp[p].matched \cap Locked(p) = {}
  /\ imp' = [imp EXCEPT ![p].pc = "insert", ![p].deleted = imp[p].matched \cap db]
  /\ UNCHANGED <<dir, sweep, db, reader, count>>

\* A rolled back import leaves the tables as they were; the sweep ends with it.
Abort(p) ==
  /\ imp' = [imp EXCEPT ![p] = NoImport]
  /\ sweep' = IF p = Sweeper THEN [sweep EXCEPT !.on = FALSE] ELSE sweep

\* The unique source_key: the INSERT waits for a transaction that has inserted
\* or deleted the key, and fails when it is there after all.
InsertResearch(p) ==
  /\ imp[p].pc = "insert"
  /\ \A q \in Importers \ {p} :
       /\ imp[q].pc \in {"runs", "trades", "records", "reports", "commit"} => imp[q].key # imp[p].key
       /\ \A r \in imp[q].deleted : r.key # imp[p].key
  /\ IF \E r \in db \ imp[p].deleted : r.key = imp[p].key
       THEN Abort(p)
       ELSE imp' = [imp EXCEPT ![p].pc = "runs"] /\ UNCHANGED sweep
  /\ UNCHANGED <<dir, db, reader, count>>

\* Each part of the report is read when its turn comes.
Copy(p, pc, file, then) ==
  /\ imp[p].pc = pc
  /\ IF dir[imp[p].d][file] = 0
       THEN Abort(p)
       ELSE /\ imp' = [imp EXCEPT ![p].pc = then, ![p].rows[file] = dir[imp[p].d][file]]
            /\ UNCHANGED sweep
  /\ UNCHANGED <<dir, db, reader, count>>

InsertRuns(p) == Copy(p, "runs", "comparison", "trades")

\* The trades refer to runs of this import.
InsertTrades(p) ==
  /\ imp[p].pc = "trades"
  /\ imp' = [imp EXCEPT ![p].pc = "records",
                        ![p].rows["trades"] = dir[imp[p].d]["trades"],
                        ![p].trades = dir[imp[p].d]["trades"]]
  /\ UNCHANGED <<dir, sweep, db, reader, count>>

\* The files of the runs the parser found may be gone.
InsertExecutionRecords(p) == Copy(p, "records", "records", "reports")

InsertReports(p) == Copy(p, "reports", "reports", "commit")

Row(p) ==
  [key |-> imp[p].key, path |-> imp[p].d, trade_count |-> imp[p].trades,
   parts |-> [imp[p].rows EXCEPT !["experiment"] = imp[p].key["experiment"]],
   calm |-> imp[p].calm, alone |-> imp[p].alone, by |-> p]

\* The counts are written and the transaction commits.
Commit(p) ==
  /\ imp[p].pc = "commit"
  /\ db' = (db \ imp[p].deleted) \cup {Row(p)}
  /\ Abort(p)
  /\ UNCHANGED <<dir, reader, count>>

\* The process dies or the connection breaks.
Fail(p) ==
  /\ imp[p].pc # "idle"
  /\ Abort(p)
  /\ UNCHANGED <<dir, db, reader, count>>

-----------------------------------------------------------------------------
(* get_trade and get_report: a row by the research's id, which is its       *)
(* source key, and then what hangs on it, in another query.                 *)

Request(r) ==
  /\ ~reader.on /\ count.reads < MaxReads
  /\ count' = [count EXCEPT !.reads = @ + 1]
  /\ reader' = [on |-> TRUE, row |-> r.key, first |-> r.parts["trades"],
                second |-> 0, calm |-> r.calm]
  /\ UNCHANGED <<dir, sweep, imp, db>>

Respond ==
  /\ reader.on
  /\ LET found == {r \in db : r.key = reader.row}
     IN  reader' = [reader EXCEPT !.on = FALSE,
                      !.calm = @ /\ \A r \in found : r.calm,
                      !.second = IF found = {} THEN 0
                                 ELSE (CHOOSE r \in found : TRUE).parts["records"]]
  /\ UNCHANGED <<dir, sweep, imp, db, count>>

Next ==
  \/ \E d \in Dirs : StartSweep(d)
  \/ \E d, e \in Dirs : CopyReport(d, e)
  \/ WriteFile \/ FailRun \/ StopSweep \/ SweepImports
  \/ \E p \in Importers, d \in Dirs : CommandImports(p, d)
  \/ \E p \in Importers :
       \/ Match(p) \/ Delete(p) \/ InsertResearch(p) \/ InsertRuns(p) \/ InsertTrades(p)
       \/ InsertExecutionRecords(p) \/ InsertReports(p) \/ Commit(p) \/ Fail(p)
  \/ \E r \in db : Request(r)
  \/ Respond

Spec == Init /\ [][Next]_vars

-----------------------------------------------------------------------------
(* Properties.                                                              *)

Numbers == 0 .. MaxSweeps

Reports == [FileNames -> Numbers]

ConstantsOK ==
  /\ Dirs # {} /\ Sweeper \in Importers
  /\ {MaxSweeps, MaxImports, MaxReads} \subseteq Nat

\* Every variable stays in its set (the rows PostgreSQL holds, the parts of the
\* import that is under way).
TypeOK ==
  /\ dir \in [Dirs -> Reports]
  /\ sweep.next \in 0 .. Len(Files) + 1
  /\ \A p \in Importers :
       /\ imp[p].pc \in {"idle", "delete", "wait", "insert", "runs", "trades", "records",
                         "reports", "commit"}
       /\ imp[p].key \in Reports /\ imp[p].rows \in Reports
       /\ imp[p].deleted \subseteq imp[p].matched
  /\ \A r \in db : r.key \in Reports /\ r.path \in Dirs

\* A research is found under the identity of the report it was made from: no two
\* have the same, and what its rows hold is what was hashed, unless the
\* directory was rewritten during the import.  Researches a sweep imports at its
\* end are made of the files of that sweep only.
ResearchIsItsReport ==
  /\ \A r, s \in db : r.key = s.key => r = s
  /\ \A r \in db :
       /\ r.trade_count = r.parts["trades"]
       /\ r.calm => r.parts = r.key
       /\ r.by = Sweeper => \A f \in FileNames : r.key[f] = r.key["experiment"]

\* A directory has one research, the one imported last, as long as no two
\* imports overlap.
OneResearchPerDirectory ==
  \A r, s \in db : r.path = s.path /\ r.alone /\ s.alone => r = s

\* A request that reads a trade and then, in another query, its orders shows
\* orders of the report the trade is from, or none when the research was
\* replaced in between: the id of a research is made of its contents.
ReadsOneReport ==
  ~reader.on /\ reader.calm => /\ reader.first = reader.row["trades"]
                              /\ reader.second \in {0, reader.row["records"]}

\* The three together: a research is its report, a directory has one, and a
\* read is of one report.
ImportsAreSound ==
  TypeOK /\ ResearchIsItsReport /\ OneResearchPerDirectory /\ ReadsOneReport

\* A research goes away only when an import of the same report or of the same
\* directory commits (DELETE and INSERT are one transaction).
OnlyReplaced ==
  \A r \in db \ db' : \E s \in db' \ db : s.key = r.key \/ s.path = r.path

ReplacedOnly == [][OnlyReplaced]_vars
=============================================================================
