--------------------------- MODULE BacktestSweep ---------------------------
(***************************************************************************)
(* The parameter sweep of the backtester (backtest/sweep.py): one          *)
(* orchestrator at a time, a pool of worker threads with one child process *)
(* per symbol, the result directory of every run, and the report the       *)
(* orchestrator writes from them.                                          *)
(*                                                                         *)
(* A run (spec) is a symbol with a parameter set.  Its directory is named  *)
(* by a digest of everything the result depends on, and holds a marker     *)
(* with the same identity: a later sweep takes the result over (resume)    *)
(* when the marker equals the identity it computes itself.  Code, archive  *)
(* index and metrics index are one "generation" here; publishing a new     *)
(* one may happen at any moment of a sweep.                                *)
(***************************************************************************)
EXTENDS Naturals, FiniteSets, TLAPS

CONSTANTS
    Symbols,        \* the symbols resolve_universe selected
    SymbolOf,       \* the runs in the order of expand_specs, and their symbol
    Workers,        \* BACKTEST_WORKERS
    Resume,         \* execution.resume
    MaxGen,         \* bound: generations of code and archive
    MaxSweeps,      \* bound: sweeps that are started
    MaxFaults,      \* bound: runs, tasks and children that fail
    MaxCrashes      \* bound: how often the orchestrator is killed

Specs  == DOMAIN SymbolOf
Sweeps == 1 .. MaxSweeps
Gens   == 1 .. MaxGen

\* Every set of runs has a first one: they are numbered in the order of
\* expand_specs.
ConstantsOK ==
    /\ IsFiniteSet(Symbols) /\ Specs \subseteq Nat /\ IsFiniteSet(Specs)
    /\ \A S \in SUBSET Specs : S # {} => \E x \in S : \A y \in S : x <= y
    /\ SymbolOf \in [Specs -> Symbols]
    /\ Workers \in Nat \ {0} /\ MaxGen \in Nat \ {0}
    /\ Resume \in BOOLEAN
    /\ {MaxSweeps, MaxFaults, MaxCrashes} \subseteq Nat

VARIABLES
    gen,        \* the generation that code and archive have now
    phase,      \* where the orchestrator is; "idle": BacktestProcessLock is free
    sweep,      \* the number of sweeps started; the last one is the current one
    plan,       \* per sweep, the generation expand_specs put into the run ids
    stopping,   \* ChildProcessRegistry._stopping
    task,       \* per symbol, the future of its _run_symbol
    seen,       \* per symbol, the generation _run_symbol fingerprinted
    outcome,    \* per run, the row _run_symbol has for it
    rows,       \* per run, the status in the orchestrator's rows
    child,      \* per symbol and sweep, the child process
    dir,        \* per run and run id's generation, the result directory
    merged,     \* the runs whose trades.csv went into all_trades.csv
    faults, crashes

vars == <<gen, phase, sweep, plan, stopping, task, seen, outcome, rows, child, dir,
          merged, faults, crashes>>

SpecsOf(s) == {x \in Specs : SymbolOf[x] = s}
Open(s)    == {x \in SpecsOf(s) : outcome[x] = "active"}

\* The worker threads that are in a task.
InTask == {s \in Symbols : task[s] \in {"prepared", "child"}}
Busy   == Cardinality(InTask)

ChildStates ==
    [st : {"none", "loading", "saving", "dead"}, data : 0 .. MaxGen, left : SUBSET Specs,
     at : 1 .. 3, sig : BOOLEAN]
NoChild == [st |-> "none", data |-> 0, left |-> {}, at |-> 1, sig |-> FALSE]

\* A directory: the identity in its marker, and for each file the sweep whose
\* child wrote it.  "data" stands for the Parquet files and trades.csv.
DirStates ==
    [marker : 0 .. MaxGen, data : 0 .. MaxSweeps, summary : 0 .. MaxSweeps,
     meta : 0 .. MaxSweeps]
Empty == [marker |-> 0, data |-> 0, summary |-> 0, meta |-> 0]

TypeOK ==
    /\ gen \in Gens /\ sweep \in 0 .. MaxSweeps
    /\ phase \in {"idle", "running", "stopping", "draining", "report", "trades"}
    /\ plan \in [Sweeps -> 0 .. MaxGen]
    /\ stopping \in BOOLEAN
    /\ task \in [Symbols -> {"queued", "prepared", "child", "done", "raised",
                             "cancelled", "harvested"}]
    /\ seen \in [Symbols -> 0 .. MaxGen]
    /\ outcome \in [Specs -> {"none", "active", "resumed", "ok", "failed"}]
    /\ rows \in [Specs -> {"none", "resumed", "ok", "failed"}]
    /\ child \in [Symbols -> [Sweeps -> ChildStates]]
    /\ dir \in [Specs -> [Gens -> DirStates]]
    /\ merged \subseteq Specs
    /\ faults \in 0 .. MaxFaults /\ crashes \in 0 .. MaxCrashes

Init ==
    /\ gen = 1 /\ phase = "idle" /\ sweep = 0
    /\ plan = [k \in Sweeps |-> 0]
    /\ stopping = FALSE
    /\ task = [s \in Symbols |-> "harvested"]
    /\ seen = [s \in Symbols |-> 0]
    /\ outcome = [x \in Specs |-> "none"]
    /\ rows = [x \in Specs |-> "none"]
    /\ child = [s \in Symbols |-> [k \in Sweeps |-> NoChild]]
    /\ dir = [x \in Specs |-> [g \in Gens |-> Empty]]
    /\ merged = {} /\ faults = 0 /\ crashes = 0

\* New code is deployed, or the archive publishes a new index.
Publish ==
    /\ gen < MaxGen
    /\ gen' = gen + 1
    /\ UNCHANGED <<phase, sweep, plan, stopping, task, seen, outcome, rows, child, dir,
                   merged, faults, crashes>>

-----------------------------------------------------------------------------
(* The orchestrator starts: main takes BacktestProcessLock, which no other   *)
(* process may hold, and _main plans the runs.                              *)
Start ==
    /\ phase = "idle" /\ sweep < MaxSweeps
    /\ phase' = "running"
    /\ sweep' = sweep + 1
    /\ plan' = [plan EXCEPT ![sweep + 1] = gen]
    /\ stopping' = FALSE
    /\ task' = [s \in Symbols |-> "queued"]
    /\ outcome' = [x \in Specs |-> "none"]
    /\ rows' = [x \in Specs |-> "none"]
    /\ merged' = {}
    /\ UNCHANGED <<gen, seen, child, dir, faults, crashes>>

-----------------------------------------------------------------------------
(* A worker thread: _run_symbol *)

\* _resume_summary: summary.json, run_meta.json and the marker are there, and
\* the marker is the identity computed from the fingerprints of this moment.
Resumable(x, g) ==
    LET d == dir[x][plan[sweep]]
    IN d.summary # 0 /\ d.meta # 0 /\ d.marker = g

\* Mutant: the directory keeps the files of an earlier attempt.
Reset_keeps(d, g) == [d EXCEPT !.marker = g]

\* _reset_run_dir and _write_run_identity_marker.
Reset(d, g) == [Empty EXCEPT !.marker = g]

\* The task takes its fingerprints and looks at every run: resumed, or reset
\* for the child.  A task without active runs is done.
Prepare(s) ==
    /\ phase \in {"running", "stopping"}
    /\ task[s] = "queued" /\ Busy < Workers
    /\ LET resumed == {x \in SpecsOf(s) : Resume /\ Resumable(x, gen)}
           active  == SpecsOf(s) \ resumed
       IN /\ outcome' = [x \in Specs |->
                            IF x \in resumed THEN "resumed"
                            ELSE IF x \in active THEN "active" ELSE outcome[x]]
          /\ dir' = [x \in Specs |->
                        IF x \in active
                        THEN [dir[x] EXCEPT ![plan[sweep]] = Reset(@, gen)]
                        ELSE dir[x]]
          /\ task' = [task EXCEPT ![s] = IF active = {} THEN "done" ELSE "prepared"]
    /\ seen' = [seen EXCEPT ![s] = gen]
    /\ UNCHANGED <<gen, phase, sweep, plan, stopping, rows, child, merged, faults, crashes>>

\* ChildProcessRegistry.add: a child that starts after terminate_all is
\* terminated at once.
Signalled == stopping

\* Popen, and add to the registry.
Spawn(s) ==
    /\ phase \in {"running", "stopping", "draining"}
    /\ task[s] = "prepared"
    /\ task' = [task EXCEPT ![s] = "child"]
    /\ child' = [child EXCEPT ![s][sweep] =
                   [NoChild EXCEPT !.st = "loading", !.left = Open(s), !.sig = Signalled]]
    /\ UNCHANGED <<gen, phase, sweep, plan, stopping, seen, outcome, rows, dir, merged,
                   faults, crashes>>

\* _fresh_run_summary: all three files are there, with the identity this task
\* wrote.
Fresh(x) ==
    LET d == dir[x][plan[sweep]]
    IN d.summary # 0 /\ d.meta # 0 /\ d.marker = seen[SymbolOf[x]]

\* Mutant: the task waits for the results instead of the child's end.
Reap_polls(s) ==
    /\ phase \in {"running", "stopping", "draining"}
    /\ task[s] = "child" /\ \A x \in Open(s) : Fresh(x)
    /\ task' = [task EXCEPT ![s] = "done"]
    /\ outcome' = [x \in Specs |-> IF x \in Open(s) THEN "ok" ELSE outcome[x]]
    /\ UNCHANGED <<gen, phase, sweep, plan, stopping, seen, rows, child, dir, merged,
                   faults, crashes>>

\* The child has ended and the task reads what it left.
Reap(s) ==
    /\ phase \in {"running", "stopping", "draining"}
    /\ task[s] = "child" /\ child[s][sweep].st = "dead"
    /\ task' = [task EXCEPT ![s] = "done"]
    /\ outcome' = [x \in Specs |-> IF x \in Open(s)
                                   THEN IF Fresh(x) THEN "ok" ELSE "failed"
                                   ELSE outcome[x]]
    /\ UNCHANGED <<gen, phase, sweep, plan, stopping, seen, rows, child, dir, merged,
                   faults, crashes>>

\* _run_symbol raises (the file system, Popen): its rows are lost.
Raise(s) ==
    /\ faults < MaxFaults
    /\ phase \in {"running", "stopping", "draining"}
    /\ task[s] = "prepared"
    /\ task' = [task EXCEPT ![s] = "raised"]
    /\ faults' = faults + 1
    /\ UNCHANGED <<gen, phase, sweep, plan, stopping, seen, outcome, rows, child, dir,
                   merged, crashes>>

-----------------------------------------------------------------------------
(* A child process: run_spike_sweep_symbol *)

Alive(s, k) == child[s][k].st \in {"loading", "saving"}
Now(s, k)   == CHOOSE x \in child[s][k].left : \A y \in child[s][k].left : x <= y
Child(s, k, c) ==
    /\ child' = [child EXCEPT ![s][k] = c]
    /\ UNCHANGED <<gen, phase, sweep, plan, stopping, task, seen, outcome, rows, merged, crashes>>

\* _run_shift_group reads the market data, of the generation that is published
\* at that moment, and runs all engines over it.
ChildLoad(s, k) ==
    /\ child[s][k].st = "loading"
    /\ Child(s, k, [child[s][k] EXCEPT !.st = "saving", !.data = gen])
    /\ UNCHANGED <<dir, faults>>

\* The order of ResultAnalyzer.save_results: child k writes the next file.
Save(d, at, k) ==
    CASE at = 1 -> [d EXCEPT !.data = k]
      [] at = 2 -> [d EXCEPT !.summary = k]
      [] OTHER  -> [d EXCEPT !.meta = k]

\* save_results writes the next file of the next run.
ChildSave(s, k) ==
    /\ child[s][k].st = "saving" /\ child[s][k].left # {}
    /\ LET c == child[s][k]
           x == Now(s, k)
       IN /\ dir' = [dir EXCEPT ![x][plan[k]] = Save(@, c.at, k)]
          /\ Child(s, k, IF c.at < 3 THEN [c EXCEPT !.at = @ + 1]
                         ELSE [c EXCEPT !.at = 1, !.left = @ \ {x}])
    /\ UNCHANGED faults

\* A run's engine or its saving raised: the other runs go on.
ChildSkip(s, k) ==
    /\ faults < MaxFaults
    /\ child[s][k].st = "saving" /\ child[s][k].left # {}
    /\ Child(s, k, [child[s][k] EXCEPT !.at = 1, !.left = @ \ {Now(s, k)}])
    /\ faults' = faults + 1
    /\ UNCHANGED dir

\* The child ends: all runs saved, terminated, or failed.
ChildExit(s, k) ==
    /\ Alive(s, k)
    /\ LET done == child[s][k].st = "saving" /\ child[s][k].left = {}
       IN /\ done \/ child[s][k].sig \/ faults < MaxFaults
          /\ faults' = IF done \/ child[s][k].sig THEN faults ELSE faults + 1
    /\ Child(s, k, [NoChild EXCEPT !.st = "dead", !.data = child[s][k].data])
    /\ UNCHANGED dir

-----------------------------------------------------------------------------
(* The orchestrator's main thread *)

\* as_completed hands over a finished future; one that raised fails all runs
\* of its symbol.
Harvest(s) ==
    /\ phase = "running"
    /\ task[s] \in {"done", "raised"}
    /\ rows' = [x \in Specs |-> IF SymbolOf[x] # s THEN rows[x]
                                ELSE IF task[s] = "raised" THEN "failed" ELSE outcome[x]]
    /\ task' = [task EXCEPT ![s] = "harvested"]
    /\ UNCHANGED <<gen, phase, sweep, plan, stopping, seen, outcome, child, dir, merged,
                   faults, crashes>>

\* Ctrl+C, or an exception in the loop: terminate_all signals what is registered.
Interrupt ==
    /\ phase = "running"
    /\ phase' = "stopping" /\ stopping' = TRUE
    /\ child' = [s \in Symbols |->
                   [child[s] EXCEPT ![sweep] =
                      IF @.st \in {"loading", "saving"} THEN [@ EXCEPT !.sig = TRUE] ELSE @]]
    /\ UNCHANGED <<gen, sweep, plan, task, seen, outcome, rows, dir, merged, faults, crashes>>

\* Then the futures that no worker has taken are cancelled.
Cancel ==
    /\ phase = "stopping"
    /\ phase' = "draining"
    /\ task' = [s \in Symbols |-> IF task[s] = "queued" THEN "cancelled" ELSE task[s]]
    /\ UNCHANGED <<gen, sweep, plan, stopping, seen, outcome, rows, child, dir, merged,
                   faults, crashes>>

\* Mutant: the pool is left without waiting for its threads.
Drained_at_once == TRUE

\* pool.shutdown(wait=True): no thread is in a task any more.
Drained == InTask = {}

Leave ==
    /\ phase = "draining" /\ Drained
    /\ phase' = "idle"
    /\ UNCHANGED <<gen, sweep, plan, stopping, task, seen, outcome, rows, child, dir,
                   merged, faults, crashes>>

\* All rows are there: comparison.csv.
WriteComparison ==
    /\ phase = "running"
    /\ \A s \in Symbols : task[s] = "harvested"
    /\ phase' = "report"
    /\ UNCHANGED <<gen, sweep, plan, stopping, task, seen, outcome, rows, child, dir,
                   merged, faults, crashes>>

Counted == {x \in Specs : rows[x] \in {"ok", "resumed"}}

\* all_trades.csv from the trades.csv that exist, and the summaries from it.
WriteTrades ==
    /\ phase = "report"
    /\ phase' = "trades"
    /\ merged' = {x \in Counted : dir[x][plan[sweep]].data # 0}
    /\ UNCHANGED <<gen, sweep, plan, stopping, task, seen, outcome, rows, child, dir,
                   faults, crashes>>

\* The reports and, last, experiment.json; the sweep is over.
WriteExperiment ==
    /\ phase = "trades"
    /\ phase' = "idle"
    /\ UNCHANGED <<gen, sweep, plan, stopping, task, seen, outcome, rows, child, dir,
                   merged, faults, crashes>>

\* The process ends while it writes the report: an exception, or Ctrl+C.
Abandon ==
    /\ faults < MaxFaults
    /\ phase \in {"report", "trades"}
    /\ phase' = "idle"
    /\ faults' = faults + 1
    /\ UNCHANGED <<gen, sweep, plan, stopping, task, seen, outcome, rows, child, dir,
                   merged, crashes>>

\* The orchestrator is killed: its lock is free, its children live on.
Crash ==
    /\ crashes < MaxCrashes /\ phase # "idle"
    /\ phase' = "idle"
    /\ crashes' = crashes + 1
    /\ task' = [s \in Symbols |-> "cancelled"]
    /\ UNCHANGED <<gen, sweep, plan, stopping, seen, outcome, rows, child, dir, merged,
                   faults>>

ChildStep(s, k) ==
    \/ ChildLoad(s, k) \/ ChildSave(s, k) \/ ChildSkip(s, k) \/ ChildExit(s, k)

TaskStep(s) == Prepare(s) \/ Spawn(s) \/ Reap(s) \/ Raise(s) \/ Harvest(s)

MainStep ==
    \/ Cancel \/ Leave \/ WriteComparison \/ WriteTrades \/ WriteExperiment

Next ==
    \/ Publish \/ Start \/ Interrupt \/ Abandon \/ Crash \/ MainStep
    \/ \E s \in Symbols : TaskStep(s) \/ \E k \in Sweeps : ChildStep(s, k)

Spec == Init /\ [][Next]_vars

\* Threads and processes that can run do run; nothing starts a sweep or fails.
Fairness ==
    /\ WF_vars(MainStep)
    /\ \A s \in Symbols :
         /\ WF_vars(Prepare(s) \/ Spawn(s) \/ Reap(s) \/ Harvest(s))
         /\ \A k \in Sweeps : WF_vars(ChildStep(s, k))

-----------------------------------------------------------------------------
\* The report merges the trades of every run it counts as ok or resumed, and
\* those trades and the run's summary were written by the same child: no
\* result of a killed or failed child is taken for a whole one (_resume_summary,
\* _fresh_run_summary and the order of save_results).  Once an orchestrator was
\* killed, its children may still write into directories of a later sweep.
CountedIsWhole ==
    phase = "trades" /\ crashes = 0 =>
        /\ merged = Counted
        /\ \A x \in Counted : LET d == dir[x][plan[sweep]] IN d.data = d.summary

\* A result taken over by resume was computed from the generation that is
\* published when it is taken over, however often code or archive changed
\* between planning, fingerprinting and reading (_resume_summary: "only when
\* the complete sweep identity is verifiable").
ResumedIsCurrent ==
    \A x \in Specs :
        outcome[x] = "resumed" /\ crashes = 0 =>
            LET s == SymbolOf[x]
                d == dir[x][plan[sweep]]
            IN child[s][d.summary].data = seen[s]

\* When the orchestrator has handled Ctrl+C and leaves, none of its children
\* runs on, not even one a worker thread started after terminate_all.
InterruptLeavesNoChild ==
    [][phase = "draining" /\ phase' = "idle" /\ crashes' = crashes
         => \A s \in DOMAIN child : ~Alive(s, sweep)]_vars

\* A sweep that was started ends.
SweepEnds == phase = "running" ~> phase = "idle"

-----------------------------------------------------------------------------
(* The inductive invariant *)

\* What holds of a task, its rows and its children through any crash.
TaskSound(s) ==
    /\ task[s] \in {"prepared", "child"} => phase \in {"running", "stopping", "draining"}
    /\ task[s] \in {"queued", "prepared", "child"} => \A x \in SpecsOf(s) : rows[x] = "none"
    /\ task[s] \in {"prepared", "child"} =>
         \A x \in SpecsOf(s) : outcome[x] \in {"active", "resumed"}
    /\ task[s] = "done" => \A x \in SpecsOf(s) : outcome[x] \in {"resumed", "ok", "failed"}
    /\ \A x \in SpecsOf(s) : rows[x] \in {"ok", "resumed"} => outcome[x] = rows[x]
    /\ task[s] \in {"queued", "prepared"} => child[s][sweep].st = "none"
    /\ phase # "idle" /\ Alive(s, sweep) => task[s] = "child"
    /\ seen[s] <= gen
    /\ \A k \in Sweeps : /\ child[s][k].data <= gen
                         /\ k > sweep => child[s][k].st = "none"

Planned ==
    /\ \A k \in Sweeps : k <= sweep => plan[k] \in Gens
    /\ phase # "idle" => sweep \in Sweeps

\* As long as no orchestrator was killed: a child that runs is the current
\* task's, the directories it has still to fill are reset and marked with what
\* the task fingerprinted, and what it read is no older.
ChildSound(s, k) ==
    LET c == child[s][k]
    IN  Alive(s, k) =>
          /\ k = sweep /\ task[s] = "child" /\ c.left \subseteq Open(s)
          /\ IF c.st = "saving" THEN seen[s] <= c.data ELSE c.at = 1
          /\ \A x \in c.left : LET d == dir[x][plan[k]]
                               IN  /\ d.marker = seen[s]
                                   /\ x # Now(s, k) \/ c.at # 3 => d.summary = 0
                                   /\ x = Now(s, k) /\ c.at = 2 => d.data = k

\* The directories a prepared task hands to its child are reset.
PreparedSound(s) ==
    task[s] = "prepared" =>
        \A x \in Open(s) : LET d == dir[x][plan[sweep]]
                           IN  d.summary = 0 /\ d.marker = seen[s]

\* A summary stands beside the trades of the same child, which read market data
\* no older than the identity in the marker.
DirSound(x) ==
    \A g \in Gens :
        LET d == dir[x][g]
            c == child[SymbolOf[x]][d.summary]
        IN  d.summary # 0 =>
              d.data = d.summary /\ c.st \notin {"none", "loading"} /\ d.marker <= c.data

\* A run that counts has a summary; a resumed one of the fingerprinted data.
ResultSound(x) ==
    LET d == dir[x][plan[sweep]]
    IN  /\ outcome[x] \in {"ok", "resumed"} => d.summary # 0
        /\ outcome[x] = "resumed" => child[SymbolOf[x]][d.summary].data = seen[SymbolOf[x]]

\* All of it, for a symbol: its task, its children, its runs.
SymbolSound(s) ==
    /\ PreparedSound(s)
    /\ \A k \in Sweeps : ChildSound(s, k)
    /\ \A x \in SpecsOf(s) : DirSound(x) /\ ResultSound(x)

CleanSound ==
    /\ \A s \in Symbols : SymbolSound(s)
    /\ phase = "trades" => merged = Counted

SweepInv ==
    /\ TypeOK /\ Planned /\ \A s \in Symbols : TaskSound(s)
    /\ crashes = 0 => CleanSound

-----------------------------------------------------------------------------
(* Proofs *)

\* One child changes, the others stay.
LEMMA ChildUpdate ==
    ASSUME child \in [Symbols -> [Sweeps -> ChildStates]],
           NEW s \in Symbols, NEW k \in Sweeps, NEW c \in ChildStates,
           child' = [child EXCEPT ![s][k] = c]
    PROVE  /\ child' \in [Symbols -> [Sweeps -> ChildStates]]
           /\ child'[s][k] = c
           /\ \A t \in Symbols, j \in Sweeps :
                t # s \/ j # k => child'[t][j] = child[t][j]
OBVIOUS

\* What writing one file does to a directory (save_results).
LEMMA SaveFacts ==
    ASSUME NEW d \in DirStates, NEW at \in 1 .. 3, NEW k \in Sweeps
    PROVE  /\ Save(d, at, k) \in DirStates
           /\ Save(d, at, k).marker = d.marker
           /\ at = 1 => Save(d, at, k).data = k /\ Save(d, at, k).summary = d.summary
           /\ at = 2 => Save(d, at, k).summary = k /\ Save(d, at, k).data = d.data
           /\ at = 3 => /\ Save(d, at, k).summary = d.summary
                        /\ Save(d, at, k).data = d.data
BY DEF Save, DirStates, Sweeps

\* One directory changes, the others stay.
LEMMA DirUpdate ==
    ASSUME dir \in [Specs -> [Gens -> DirStates]],
           NEW x \in Specs, NEW g \in Gens, NEW d \in DirStates,
           dir' = [dir EXCEPT ![x][g] = d]
    PROVE  /\ dir' \in [Specs -> [Gens -> DirStates]]
           /\ dir'[x][g] = d
           /\ \A y \in Specs, h \in Gens : y # x \/ h # g => dir'[y][h] = dir[y][h]
OBVIOUS

\* The states a child is put into are child states.
LEMMA ChildTyped ==
    ASSUME ConstantsOK, TypeOK, NEW s \in Symbols, NEW k \in Sweeps, NEW l \in SUBSET Specs,
           NEW b \in BOOLEAN
    PROVE  /\ child[s][k] \in ChildStates
           /\ NoChild \in ChildStates
           /\ [NoChild EXCEPT !.st = "loading", !.left = l, !.sig = b] \in ChildStates
           /\ [child[s][k] EXCEPT !.st = "saving", !.data = gen] \in ChildStates
           /\ child[s][k].at < 3 =>
                [child[s][k] EXCEPT !.at = child[s][k].at + 1] \in ChildStates
           /\ [child[s][k] EXCEPT !.at = 1, !.left = l] \in ChildStates
           /\ [NoChild EXCEPT !.st = "dead", !.data = child[s][k].data] \in ChildStates
           /\ [child[s][k] EXCEPT !.sig = TRUE] \in ChildStates
<1>1. child[s][k] \in ChildStates
  BY Zenon DEF TypeOK
<1>2. NoChild \in ChildStates
  BY DEF NoChild, ChildStates, ConstantsOK
<1>3. gen \in 0 .. MaxGen
  BY DEF TypeOK, Gens, ConstantsOK
<1>4. [NoChild EXCEPT !.st = "loading", !.left = l, !.sig = b] \in ChildStates
  BY <1>2, Zenon DEF ChildStates
<1>5. [child[s][k] EXCEPT !.st = "saving", !.data = gen] \in ChildStates
  BY <1>1, <1>3, Zenon DEF ChildStates
<1>6. child[s][k].at < 3 => [child[s][k] EXCEPT !.at = child[s][k].at + 1] \in ChildStates
  <2>1. child[s][k].at < 3 => child[s][k].at + 1 \in 1 .. 3
    BY <1>1 DEF ChildStates
  <2> QED
    BY <1>1, <2>1, Zenon DEF ChildStates
<1>7. [child[s][k] EXCEPT !.at = 1, !.left = l] \in ChildStates
  <2>1. 1 \in 1 .. 3
    OBVIOUS
  <2>2. [child[s][k] EXCEPT !.at = 1] \in ChildStates
    BY <1>1, <2>1, Zenon DEF ChildStates
  <2> QED
    BY <2>2, Zenon DEF ChildStates
<1>8. [NoChild EXCEPT !.st = "dead", !.data = child[s][k].data] \in ChildStates
  BY <1>1, <1>2, Zenon DEF ChildStates
<1>9. [child[s][k] EXCEPT !.sig = TRUE] \in ChildStates
  BY <1>1, Zenon DEF ChildStates
<1> QED
  BY <1>1, <1>2, <1>4, <1>5, <1>6, <1>7, <1>8, <1>9, Zenon

\* A reset directory is a directory.
LEMMA ResetTyped ==
    ASSUME ConstantsOK, NEW d \in DirStates, NEW g \in Gens
    PROVE  /\ Empty \in DirStates
           /\ Reset(d, g) \in DirStates
           /\ Reset(d, g).marker = g /\ Reset(d, g).summary = 0 /\ Reset(d, g).data = 0
BY DEF ConstantsOK, Reset, Empty, DirStates, Gens

\* The steps of the orchestrator and of the world keep the types.
LEMMA MainTypes ==
    ASSUME ConstantsOK, TypeOK,
           Publish \/ Start \/ Interrupt \/ Abandon \/ Crash \/ MainStep
    PROVE  TypeOK'
<1>0. gen \in 0 .. MaxGen
  BY DEF TypeOK, Gens, ConstantsOK
<1>1. CASE Publish
  BY <1>1 DEF Publish, TypeOK, Gens, ConstantsOK
<1>2. CASE Start
  <2>1. sweep' \in 0 .. MaxSweeps
    BY <1>2 DEF Start, TypeOK, ConstantsOK
  <2> QED
    BY <1>0, <1>2, <2>1, Zenon DEF Start, TypeOK
<1>3. CASE Interrupt
  <2> DEFINE New(t, k) == IF child[t][k].st \in {"loading", "saving"}
                          THEN [child[t][k] EXCEPT !.sig = TRUE] ELSE child[t][k]
  <2>1. child' = [t \in Symbols |-> [child[t] EXCEPT ![sweep] = New(t, sweep)]]
    BY <1>3, Zenon DEF Interrupt
  <2>2. \A t \in Symbols, k \in Sweeps : New(t, k) \in ChildStates
    BY ChildTyped, Zenon
  <2> HIDE DEF New
  <2>5. \A t \in Symbols : child[t] \in [Sweeps -> ChildStates]
    BY Zenon DEF TypeOK
  <2>3. \A t \in Symbols : [child[t] EXCEPT ![sweep] = New(t, sweep)] \in [Sweeps -> ChildStates]
    BY <2>2, <2>5, Zenon
  <2>4. child' \in [Symbols -> [Sweeps -> ChildStates]]
    BY <2>1, <2>3, Zenon
  <2> QED
    BY <1>3, <2>4, Zenon DEF Interrupt, TypeOK
<1>4. CASE Abandon \/ Crash
  <2>1. faults' \in 0 .. MaxFaults /\ crashes' \in 0 .. MaxCrashes
    BY <1>4 DEF Abandon, Crash, TypeOK, ConstantsOK
  <2> QED
    BY <1>4, <2>1, Zenon DEF Abandon, Crash, TypeOK
<1>5. CASE MainStep
  BY <1>5, Zenon DEF MainStep, Cancel, Leave, WriteComparison, WriteTrades, WriteExperiment, TypeOK,
     Counted
<1> QED
  BY <1>1, <1>2, <1>3, <1>4, <1>5, Zenon

\* The directories after Prepare: those of the active runs are reset.
LEMMA PrepareDirs ==
    ASSUME ConstantsOK, TypeOK, plan[sweep] \in Gens, NEW s \in Symbols, Prepare(s)
    PROVE  /\ dir' \in [Specs -> [Gens -> DirStates]]
           /\ \A x \in Specs, g \in Gens :
                IF x \in SpecsOf(s) /\ outcome'[x] = "active" /\ g = plan[sweep]
                THEN dir'[x][g] = Reset(dir[x][g], gen)
                ELSE dir'[x][g] = dir[x][g]
           /\ \A x \in SpecsOf(s) :
                \/ outcome'[x] = "active"
                \/ outcome'[x] = "resumed" /\ Resumable(x, gen)
           /\ \A x \in Specs \ SpecsOf(s) : outcome'[x] = outcome[x]
<1> DEFINE resumed == {x \in SpecsOf(s) : Resume /\ Resumable(x, gen)}
           active  == SpecsOf(s) \ resumed
<1>1. outcome' = [x \in Specs |-> IF x \in resumed THEN "resumed"
                                  ELSE IF x \in active THEN "active" ELSE outcome[x]]
  BY Zenon DEF Prepare
<1>2. dir' = [x \in Specs |-> IF x \in active
                              THEN [dir[x] EXCEPT ![plan[sweep]] = Reset(dir[x][plan[sweep]], gen)]
                              ELSE dir[x]]
  BY Zenon DEF Prepare
<1>3. \A x \in resumed : x \in SpecsOf(s) /\ Resumable(x, gen)
  OBVIOUS
<1>4. SpecsOf(s) \subseteq Specs
  BY Zenon DEF SpecsOf
<1>5. \A x \in Specs : dir[x] \in [Gens -> DirStates]
  BY Zenon DEF TypeOK
<1>6. \A x \in Specs : Reset(dir[x][plan[sweep]], gen) \in DirStates
  BY <1>5, ResetTyped DEF TypeOK
<1> HIDE DEF resumed
<1>7. \A x \in SpecsOf(s) : \/ outcome'[x] = "active" /\ x \in active
                            \/ outcome'[x] = "resumed" /\ x \notin active /\ x \in resumed
  BY <1>1, <1>4, Zenon
<1>8. \A x \in Specs \ SpecsOf(s) : outcome'[x] = outcome[x] /\ x \notin active
  BY <1>1, <1>3, Zenon
<1>9. \A x \in Specs : /\ x \in active <=> x \in SpecsOf(s) /\ outcome'[x] = "active"
  BY <1>7, <1>8, Zenon
<1> HIDE DEF active
<1>10. \A x \in Specs, g \in Gens :
          dir'[x][g] = IF x \in active /\ g = plan[sweep]
                       THEN Reset(dir[x][g], gen) ELSE dir[x][g]
  BY <1>2, <1>5, Zenon
<1>11. dir' \in [Specs -> [Gens -> DirStates]]
  <2>1. \A x \in Specs :
          [dir[x] EXCEPT ![plan[sweep]] = Reset(dir[x][plan[sweep]], gen)] \in [Gens -> DirStates]
    BY <1>5, <1>6, Zenon
  <2> QED
    BY <1>2, <1>5, <2>1, Zenon
<1> QED
  BY <1>3, <1>7, <1>8, <1>9, <1>10, <1>11

\* The steps of a worker thread, and as_completed, keep the types.
LEMMA TaskTypes ==
    ASSUME ConstantsOK, TypeOK, Planned, NEW s \in Symbols, TaskSound(s), TaskStep(s)
    PROVE  TypeOK'
<1>1. CASE Prepare(s)
  <2>1. plan[sweep] \in Gens /\ gen \in 0 .. MaxGen
    BY <1>1 DEF Prepare, Planned, TypeOK, Gens, ConstantsOK
  <2>2. dir' \in [Specs -> [Gens -> DirStates]]
    BY <1>1, <2>1, PrepareDirs, Zenon
  <2>3. outcome' \in [Specs -> {"none", "active", "resumed", "ok", "failed"}]
    BY <1>1, Zenon DEF Prepare, TypeOK
  <2> QED
    BY <1>1, <2>1, <2>2, <2>3, Zenon DEF Prepare, TypeOK
<1>2. CASE Spawn(s)
  <2>1. sweep \in Sweeps /\ Open(s) \subseteq Specs /\ Signalled \in BOOLEAN
    BY <1>2, Zenon DEF Spawn, Planned, Open, SpecsOf, Signalled, TypeOK
  <2>2. child' \in [Symbols -> [Sweeps -> ChildStates]]
    BY <1>2, <2>1, ChildTyped, ChildUpdate, Zenon DEF Spawn, TypeOK
  <2> QED
    BY <1>2, <2>2, Zenon DEF Spawn, TypeOK
<1>3. CASE Reap(s)
  BY <1>3, Zenon DEF Reap, TypeOK
<1>4. CASE Raise(s)
  BY <1>4 DEF Raise, TypeOK, ConstantsOK
<1>5. CASE Harvest(s)
  <2>1. \A x \in SpecsOf(s) : task[s] = "done" => outcome[x] \in {"resumed", "ok", "failed"}
    BY Zenon DEF TaskSound
  <2>2. rows' \in [Specs -> {"none", "resumed", "ok", "failed"}]
    BY <1>5, <2>1, Zenon DEF Harvest, TypeOK, SpecsOf
  <2> QED
    BY <1>5, <2>2, Zenon DEF Harvest, TypeOK
<1> QED
  BY <1>1, <1>2, <1>3, <1>4, <1>5, Zenon DEF TaskStep

\* A child step is of a child that runs, of a sweep that was planned.
LEMMA ChildRuns ==
    ASSUME ConstantsOK, TypeOK, Planned, NEW s \in Symbols, TaskSound(s), NEW k \in Sweeps,
           ChildStep(s, k)
    PROVE  Alive(s, k) /\ k <= sweep /\ plan[k] \in Gens
<1>1. Alive(s, k)
  BY Zenon DEF ChildStep, ChildLoad, ChildSave, ChildSkip, ChildExit, Alive
<1>2. k <= sweep
  <2>1. ~(k > sweep)
    BY <1>1, Zenon DEF TaskSound, Alive
  <2>2. k \in Nat /\ sweep \in Nat
    BY DEF TypeOK, Sweeps, ConstantsOK
  <2> QED
    BY <2>1, <2>2
<1> QED
  BY <1>1, <1>2, Zenon DEF Planned

\* The run a child saves next is one it has left, and a run of the sweep.
LEMMA NowIsLeft ==
    ASSUME ConstantsOK, TypeOK, NEW s \in Symbols, NEW k \in Sweeps, child[s][k].left # {}
    PROVE  Now(s, k) \in child[s][k].left /\ Now(s, k) \in Specs
<1>1. child[s][k].left \in SUBSET Specs
  BY DEF TypeOK, ChildStates
<1>2. \E x \in child[s][k].left : \A y \in child[s][k].left : x <= y
  BY <1>1, Zenon DEF ConstantsOK
<1> QED
  BY <1>1, <1>2, Zenon DEF Now

\* The directories after a child wrote a file.
LEMMA SaveDirs ==
    ASSUME ConstantsOK, TypeOK, NEW s \in Symbols, NEW k \in Sweeps, plan[k] \in Gens,
           ChildSave(s, k)
    PROVE  LET x == Now(s, k)
           IN  /\ x \in Specs /\ dir' \in [Specs -> [Gens -> DirStates]]
               /\ dir'[x][plan[k]] = Save(dir[x][plan[k]], child[s][k].at, k)
               /\ \A y \in Specs, h \in Gens :
                    y # x \/ h # plan[k] => dir'[y][h] = dir[y][h]
<1> DEFINE x == Now(s, k)
<1>1. x \in Specs
  BY NowIsLeft, Zenon DEF ChildSave
<1>2. dir' = [dir EXCEPT ![x][plan[k]] = Save(dir[x][plan[k]], child[s][k].at, k)]
  BY Zenon DEF ChildSave
<1>3. dir[x][plan[k]] \in DirStates /\ child[s][k].at \in 1 .. 3
  BY <1>1, Zenon DEF TypeOK, ChildStates
<1>4. Save(dir[x][plan[k]], child[s][k].at, k) \in DirStates
  BY <1>3, SaveFacts, Zenon
<1>5. dir \in [Specs -> [Gens -> DirStates]]
  BY Zenon DEF TypeOK
<1> HIDE DEF x
<1>6. /\ dir' \in [Specs -> [Gens -> DirStates]]
      /\ dir'[x][plan[k]] = Save(dir[x][plan[k]], child[s][k].at, k)
      /\ \A y \in Specs, h \in Gens : y # x \/ h # plan[k] => dir'[y][h] = dir[y][h]
  BY <1>1, <1>2, <1>4, <1>5, DirUpdate
<1> QED
  BY <1>1, <1>6, Zenon DEF x

\* What a child step does to the child: it goes on with fewer runs left and the
\* same or newer market data, or it is dead.
LEMMA ChildChange ==
    ASSUME ConstantsOK, TypeOK, NEW s \in Symbols, NEW k \in Sweeps, ChildStep(s, k)
    PROVE  /\ child' \in [Symbols -> [Sweeps -> ChildStates]]
           /\ \A t \in Symbols, j \in Sweeps :
                t # s \/ j # k => child'[t][j] = child[t][j]
           /\ child'[s][k].st \in {"saving", "dead"}
           /\ child'[s][k].data = child[s][k].data \/ child'[s][k].data = gen
           /\ child[s][k].st = "saving" => child'[s][k].data = child[s][k].data
           /\ UNCHANGED <<gen, phase, sweep, plan, stopping, task, seen, outcome, rows,
                          merged, crashes>>
<1>0. child \in [Symbols -> [Sweeps -> ChildStates]] /\ child[s][k] \in ChildStates
  BY Zenon DEF TypeOK
<1>1. CASE ChildLoad(s, k)
  <2> DEFINE c == [child[s][k] EXCEPT !.st = "saving", !.data = gen]
  <2>1. c \in ChildStates /\ child' = [child EXCEPT ![s][k] = c]
    BY <1>1, ChildTyped, Zenon DEF ChildLoad, Child
  <2>2. c.st = "saving" /\ c.data = gen
    BY <1>0, Zenon DEF ChildStates
  <2> HIDE DEF c
  <2>3. /\ child' \in [Symbols -> [Sweeps -> ChildStates]] /\ child'[s][k] = c
        /\ \A t \in Symbols, j \in Sweeps : t # s \/ j # k => child'[t][j] = child[t][j]
    BY <1>0, <2>1, ChildUpdate
  <2> QED
    BY <1>1, <2>2, <2>3, Zenon DEF ChildLoad, Child
<1>2. CASE ChildSave(s, k)
  <2> DEFINE l == child[s][k].left \ {Now(s, k)}
             c == IF child[s][k].at < 3 THEN [child[s][k] EXCEPT !.at = child[s][k].at + 1]
                  ELSE [child[s][k] EXCEPT !.at = 1, !.left = l]
  <2>0. l \in SUBSET Specs
    BY <1>0, Zenon DEF ChildStates
  <2>1. c \in ChildStates
    <3> HIDE DEF l
    <3> QED
      BY <2>0, ChildTyped, Zenon
  <2>2. child' = [child EXCEPT ![s][k] = c]
    BY <1>2, Zenon DEF ChildSave, Child
  <2>3. c.st = "saving" /\ c.data = child[s][k].data
    BY <1>0, <1>2, Zenon DEF ChildStates, ChildSave
  <2> HIDE DEF c
  <2>4. /\ child' \in [Symbols -> [Sweeps -> ChildStates]] /\ child'[s][k] = c
        /\ \A t \in Symbols, j \in Sweeps : t # s \/ j # k => child'[t][j] = child[t][j]
    BY <1>0, <2>1, <2>2, ChildUpdate
  <2> QED
    BY <1>2, <2>3, <2>4, Zenon DEF ChildSave, Child
<1>3. CASE ChildSkip(s, k)
  <2> DEFINE l == child[s][k].left \ {Now(s, k)}
             c == [child[s][k] EXCEPT !.at = 1, !.left = l]
  <2>0. l \in SUBSET Specs
    BY <1>0, Zenon DEF ChildStates
  <2>1. c \in ChildStates
    <3> HIDE DEF l
    <3> QED
      BY <2>0, ChildTyped, Zenon
  <2>2. child' = [child EXCEPT ![s][k] = c]
    BY <1>3, Zenon DEF ChildSkip, Child
  <2>3. c.st = "saving" /\ c.data = child[s][k].data
    BY <1>0, <1>3, Zenon DEF ChildStates, ChildSkip
  <2> HIDE DEF c
  <2>4. /\ child' \in [Symbols -> [Sweeps -> ChildStates]] /\ child'[s][k] = c
        /\ \A t \in Symbols, j \in Sweeps : t # s \/ j # k => child'[t][j] = child[t][j]
    BY <1>0, <2>1, <2>2, ChildUpdate
  <2> QED
    BY <1>3, <2>3, <2>4, Zenon DEF ChildSkip, Child
<1>4. CASE ChildExit(s, k)
  <2> DEFINE c == [NoChild EXCEPT !.st = "dead", !.data = child[s][k].data]
  <2>1. c \in ChildStates /\ child' = [child EXCEPT ![s][k] = c]
    BY <1>4, ChildTyped, Zenon DEF ChildExit, Child
  <2>2. c.st = "dead" /\ c.data = child[s][k].data
    BY Zenon DEF NoChild
  <2> HIDE DEF c
  <2>3. /\ child' \in [Symbols -> [Sweeps -> ChildStates]] /\ child'[s][k] = c
        /\ \A t \in Symbols, j \in Sweeps : t # s \/ j # k => child'[t][j] = child[t][j]
    BY <1>0, <2>1, ChildUpdate
  <2> QED
    BY <1>4, <2>2, <2>3, Zenon DEF ChildExit, Child
<1> QED
  BY <1>1, <1>2, <1>3, <1>4, Zenon DEF ChildStep

\* The steps of a child process keep the types.
LEMMA ChildTypes ==
    ASSUME ConstantsOK, TypeOK, Planned, NEW s \in Symbols, TaskSound(s), NEW k \in Sweeps,
           ChildStep(s, k)
    PROVE  TypeOK'
<1>1. plan[k] \in Gens
  BY ChildRuns, Zenon
<1>2. dir' \in [Specs -> [Gens -> DirStates]]
  <2>1. CASE ChildSave(s, k)
    BY <1>1, <2>1, SaveDirs, Zenon
  <2>2. CASE ~ChildSave(s, k)
    BY <2>2, Zenon DEF ChildStep, ChildLoad, ChildSkip, ChildExit, TypeOK
  <2> QED
    BY <2>1, <2>2, Zenon
<1>3. faults' \in 0 .. MaxFaults
  BY DEF ChildStep, ChildLoad, ChildSave, ChildSkip, ChildExit, TypeOK, ConstantsOK
<1> QED
  BY <1>2, <1>3, ChildChange, Zenon DEF TypeOK

\* Every run id of a sweep that started is of a generation (expand_specs), and
\* an orchestrator at work is one of the started ones.
LEMMA PlannedStep ==
    ASSUME ConstantsOK, TypeOK, Planned, Next
    PROVE  Planned'
<1>1. CASE Start
  <2>1. sweep + 1 \in Sweeps /\ \A k \in Sweeps : k <= sweep + 1 => k <= sweep \/ k = sweep + 1
    BY <1>1 DEF Start, TypeOK, Sweeps, ConstantsOK
  <2> QED
    BY <1>1, <2>1, Zenon DEF Start, Planned, TypeOK
<1>2. CASE ~Start
  <2>1. UNCHANGED <<plan, sweep>> /\ (phase' # "idle" => phase # "idle")
    BY <1>2, ChildChange, Zenon DEF Next, Publish, Interrupt, Abandon, Crash, MainStep, Cancel, Leave,
       WriteComparison, WriteTrades, WriteExperiment, TaskStep, Prepare, Spawn, Reap, Raise,
       Harvest
  <2> QED
    BY <2>1, Zenon DEF Planned
<1> QED
  BY <1>1, <1>2, Zenon

\* Publishing, and the steps of the orchestrator's main thread, keep what holds
\* of a task.
LEMMA MainTask ==
    ASSUME ConstantsOK, TypeOK, TypeOK', Planned, NEW t \in Symbols, TaskSound(t),
           Publish \/ Start \/ Interrupt \/ Abandon \/ Crash \/ MainStep
    PROVE  TaskSound(t)'
<1>0. gen \in Nat /\ seen[t] \in Nat /\ sweep \in Nat /\ Sweeps \subseteq Nat
      /\ \A k \in Sweeps : child[t][k].data \in Nat
  <2>0. gen \in Gens /\ sweep \in 0 .. MaxSweeps
    BY Zenon DEF TypeOK
  <2>1. gen \in Nat /\ sweep \in Nat /\ Sweeps \subseteq Nat
    BY <2>0 DEF Gens, Sweeps
  <2>3. seen[t] \in 0 .. MaxGen
    BY DEF TypeOK
  <2>4. seen[t] \in Nat
    BY <2>3
  <2>2. ASSUME NEW k \in Sweeps PROVE child[t][k].data \in Nat
    <3>1. child[t][k] \in ChildStates
      BY DEF TypeOK
    <3>2. child[t][k].data \in 0 .. MaxGen
      BY <3>1, Zenon DEF ChildStates
    <3> QED
      BY <3>2
  <2> QED
    BY <2>1, <2>2, <2>4, Zenon
<1>1. CASE Publish
  BY <1>0, <1>1 DEF Publish, TaskSound, SpecsOf, Alive
<1>2. CASE Start
  <2>1. sweep + 1 \in Sweeps
    BY <1>0, <1>2 DEF Start, Sweeps, TypeOK, ConstantsOK
  <2>2. child[t][sweep + 1].st = "none"
    BY <1>0, <2>1 DEF TaskSound
  <2>3. \A k \in Sweeps : k > sweep + 1 => k > sweep
    BY <1>0
  <2>4. \A x \in SpecsOf(t) : x \in Specs
    BY Zenon DEF SpecsOf
  <2> QED
    BY <1>2, <2>2, <2>3, <2>4, Zenon DEF Start, TaskSound, SpecsOf, Alive
<1>3. CASE Interrupt
  <2>1. \A k \in Sweeps : child'[t][k].st = child[t][k].st /\ child'[t][k].data = child[t][k].data
    BY <1>3 DEF Interrupt, TypeOK, ChildStates
  <2>2. sweep \in Sweeps
    BY <1>3, Zenon DEF Interrupt, Planned
  <2> QED
    BY <1>3, <2>1, <2>2 DEF Interrupt, TaskSound, SpecsOf, Alive
<1>4. CASE Abandon
  BY <1>4, Zenon DEF Abandon, TaskSound, SpecsOf, Alive
<1>5. CASE Crash
  BY <1>5, Zenon DEF Crash, TaskSound, SpecsOf, Alive
<1>6. CASE Cancel
  BY <1>6, Zenon DEF Cancel, TaskSound, SpecsOf, Alive
<1>7. CASE Leave
  <2>1. task[t] \notin {"prepared", "child"}
    BY <1>7, Zenon DEF Leave, Drained, InTask
  <2> QED
    BY <1>7, <2>1, Zenon DEF Leave, TaskSound, SpecsOf, Alive
<1>8. CASE WriteComparison
  BY <1>8, Zenon DEF WriteComparison, TaskSound, SpecsOf, Alive
<1>9. CASE WriteTrades
  BY <1>9, Zenon DEF WriteTrades, TaskSound, SpecsOf, Alive
<1>10. CASE WriteExperiment
  BY <1>10, Zenon DEF WriteExperiment, TaskSound, SpecsOf, Alive
<1> QED
  BY <1>1, <1>2, <1>3, <1>4, <1>5, <1>6, <1>7, <1>8, <1>9, <1>10, Zenon DEF MainStep

\* The steps of a worker thread, and as_completed, keep what holds of a task.
LEMMA TaskTask ==
    ASSUME ConstantsOK, TypeOK, TypeOK', Planned, NEW t \in Symbols, TaskSound(t),
           NEW s \in Symbols, TaskSound(s), TaskStep(s)
    PROVE  TaskSound(t)'
<1>0. /\ phase # "idle" /\ sweep \in Sweeps /\ plan[sweep] \in Gens
      /\ UNCHANGED <<gen, phase, sweep, plan, stopping, merged, crashes>>
  <2>1. /\ phase # "idle"
        /\ UNCHANGED <<gen, phase, sweep, plan, stopping, merged, crashes>>
    BY Zenon DEF TaskStep, Prepare, Spawn, Reap, Raise, Harvest
  <2> QED
    BY <2>1 DEF Planned, Sweeps, ConstantsOK, TypeOK
<1>1. CASE t # s
  <2>1. \A x \in SpecsOf(t) : x \in Specs /\ x \notin SpecsOf(s) /\ SymbolOf[x] # s
    BY <1>1, Zenon DEF SpecsOf
  <2>2. \A x \in SpecsOf(t) : outcome'[x] = outcome[x] /\ rows'[x] = rows[x]
    BY <2>1, Zenon DEF TaskStep, Prepare, Spawn, Reap, Raise, Harvest, Open
  <2>3. task'[t] = task[t] /\ child'[t] = child[t] /\ seen'[t] = seen[t]
    BY <1>1 DEF TaskStep, Prepare, Spawn, Reap, Raise, Harvest, TypeOK
  <2> QED
    BY <1>0, <2>2, <2>3 DEF TaskSound, SpecsOf, Alive
<1>2. CASE t = s /\ Prepare(s)
  <2>1. \A x \in SpecsOf(s) : outcome'[x] \in {"active", "resumed"}
    BY <1>0, <1>2, PrepareDirs, Zenon
  <2>2. SpecsOf(s)' = SpecsOf(s)
    BY Zenon DEF SpecsOf
  <2>3. task'[s] = "prepared" \/ (task'[s] = "done" /\ \A x \in SpecsOf(s) : outcome'[x] = "resumed")
    <3>1. SpecsOf(s) \subseteq Specs
      BY Zenon DEF SpecsOf
    <3> QED
      BY <1>2, <3>1, Zenon DEF Prepare, TypeOK
  <2>4. seen'[s] = gen /\ gen <= gen
    BY <1>2 DEF Prepare, TypeOK, Gens
  <2>5. phase \in {"running", "stopping"} /\ task[s] = "queued" /\ UNCHANGED <<rows, child>>
    BY <1>2, Zenon DEF Prepare
  <2> QED
    BY <1>0, <1>2, <2>1, <2>2, <2>3, <2>4, <2>5, Zenon DEF TaskSound, Alive
<1>3. CASE t = s /\ Spawn(s)
  <2> DEFINE c == [NoChild EXCEPT !.st = "loading", !.left = Open(s), !.sig = Signalled]
  <2>1. c \in ChildStates /\ child' = [child EXCEPT ![s][sweep] = c]
    <3>1. Open(s) \in SUBSET Specs /\ Signalled \in BOOLEAN
      BY Zenon DEF Open, SpecsOf, Signalled, TypeOK
    <3> QED
      BY <1>0, <1>3, <3>1, ChildTyped, Zenon DEF Spawn
  <2>2. c.data = 0
    BY Zenon DEF NoChild
  <2> HIDE DEF c
  <2>3. /\ child'[s][sweep] = c
        /\ \A j \in Sweeps : j # sweep => child'[s][j] = child[s][j]
    BY <1>0, <2>1, ChildUpdate DEF TypeOK
  <2>4. \A k \in Sweeps : child'[s][k].data <= gen /\ (k > sweep => child'[s][k].st = "none")
    <3>1. 0 <= gen /\ ~(sweep > sweep)
      BY DEF TypeOK, Gens
    <3> SUFFICES ASSUME NEW k \in Sweeps
                 PROVE  child'[s][k].data <= gen /\ (k > sweep => child'[s][k].st = "none")
      OBVIOUS
    <3>2. CASE k = sweep
      BY <2>2, <2>3, <3>1, <3>2, Zenon
    <3>3. CASE k # sweep
      <4>1. child[s][k].data <= gen /\ (k > sweep => child[s][k].st = "none")
        BY Zenon DEF TaskSound
      <4> QED
        BY <2>3, <3>3, <4>1, Zenon
    <3> QED
      BY <3>2, <3>3, Zenon
  <2>5. /\ phase \in {"running", "stopping", "draining"} /\ task[s] = "prepared"
        /\ task'[s] = "child" /\ UNCHANGED <<rows, outcome, seen>>
    BY <1>3, Zenon DEF Spawn, TypeOK
  <2> QED
    BY <1>0, <1>3, <2>4, <2>5, Zenon DEF TaskSound, SpecsOf
<1>4. CASE t = s /\ Reap(s)
  <2>1. /\ task[s] = "child" /\ child[s][sweep].st = "dead" /\ task'[s] = "done"
        /\ UNCHANGED <<rows, seen, child>>
    BY <1>4, Zenon DEF Reap, TypeOK
  <2>2. \A x \in SpecsOf(s) : outcome'[x] \in {"resumed", "ok", "failed"} /\ rows[x] = "none"
    BY <1>4, <2>1, Zenon DEF Reap, TaskSound, Open, SpecsOf
  <2> QED
    BY <1>0, <1>4, <2>1, <2>2, Zenon DEF TaskSound, SpecsOf, Alive
<1>5. CASE t = s /\ Raise(s)
  <2>1. /\ task[s] = "prepared" /\ task'[s] = "raised" /\ child[s][sweep].st = "none"
        /\ UNCHANGED <<rows, outcome, seen, child>>
    BY <1>5 DEF Raise, TaskSound, TypeOK
  <2> QED
    BY <1>0, <1>5, <2>1, Zenon DEF TaskSound, SpecsOf, Alive
<1>6. CASE t = s /\ Harvest(s)
  <2>1. \A x \in SpecsOf(s) : rows'[x] \in {"ok", "resumed"} => outcome[x] = rows'[x]
    BY <1>6, Zenon DEF Harvest, SpecsOf
  <2>2. /\ task[s] \in {"done", "raised"} /\ task'[s] = "harvested"
        /\ UNCHANGED <<outcome, seen, child>>
    BY <1>6, Zenon DEF Harvest, TypeOK
  <2> QED
    BY <1>0, <1>6, <2>1, <2>2, Zenon DEF TaskSound, SpecsOf, Alive
<1> QED
  BY <1>1, <1>2, <1>3, <1>4, <1>5, <1>6, Zenon DEF TaskStep

\* The steps of a child process keep what holds of a task.
LEMMA ChildTask ==
    ASSUME ConstantsOK, TypeOK, TypeOK', Planned, NEW t \in Symbols, TaskSound(t),
           NEW s \in Symbols, TaskSound(s), NEW k \in Sweeps, ChildStep(s, k)
    PROVE  TaskSound(t)'
<1>1. Alive(s, k) /\ k <= sweep
  BY ChildRuns, Zenon
<1>2. \A j \in Sweeps :
        child'[t][j] = child[t][j]
        \/ (t = s /\ j = k /\ child'[t][j].st \in {"saving", "dead"}
             /\ (child'[t][j].data = child[t][j].data \/ child'[t][j].data = gen))
  BY ChildChange, ZenonT(60)
<1>3. \A j \in Sweeps : child'[t][j].data <= gen /\ (j > sweep => child'[t][j].st = "none")
  <2>1. gen <= gen /\ ~(k > sweep)
    BY <1>1 DEF TypeOK, Gens, Sweeps, ConstantsOK
  <2>2. \A j \in Sweeps : child[t][j].data <= gen /\ (j > sweep => child[t][j].st = "none")
    BY Zenon DEF TaskSound
  <2> QED
    BY <1>2, <2>1, <2>2, Zenon
<1>4. task[t] \in {"queued", "prepared"} => child'[t][sweep].st = "none"
  <2>1. task[t] \in {"queued", "prepared"} => sweep \in Sweeps /\ ~Alive(t, sweep)
    <3>1. sweep \in Sweeps
      BY <1>1 DEF TypeOK, Sweeps, ConstantsOK
    <3> QED
      BY <3>1, Zenon DEF TaskSound, Alive
  <2> QED
    BY <1>1, <1>2, <2>1, Zenon DEF TaskSound, Alive
<1>5. phase # "idle" /\ Alive(t, sweep)' => Alive(t, sweep)
  <2>1. sweep \in Sweeps
    BY <1>1 DEF TypeOK, Sweeps, ConstantsOK
  <2> QED
    BY <1>1, <1>2, <2>1, ChildChange DEF Alive
<1>6. UNCHANGED <<gen, phase, sweep, task, seen, outcome, rows>>
  BY ChildChange, Zenon
<1> QED
  BY <1>3, <1>4, <1>5, <1>6, Zenon DEF TaskSound, SpecsOf

\* A file's writer is a sweep.
LEMMA WriterIsSweep ==
    ASSUME ConstantsOK, TypeOK, NEW x \in Specs, NEW g \in Gens, dir[x][g].summary # 0
    PROVE  dir[x][g].summary \in Sweeps
<1>1. dir[x][g] \in DirStates
  BY Zenon DEF TypeOK
<1>2. dir[x][g].summary \in 0 .. MaxSweeps
  BY <1>1, Zenon DEF DirStates
<1> QED
  BY <1>2 DEF Sweeps, ConstantsOK

\* A directory stays sound when a step keeps its files and the market data of
\* the child that wrote its summary.
LEMMA DirKept ==
    ASSUME NEW s \in Symbols, NEW x \in SpecsOf(s), DirSound(x),
           \A g \in Gens : dir'[x][g].summary # 0 =>
             LET d == dir[x][g]
                 f == dir'[x][g]
             IN  /\ f.summary = d.summary /\ f.data = d.data /\ f.marker = d.marker
                 /\ child'[s][d.summary].st \notin {"none", "loading"}
                 /\ child'[s][d.summary].data = child[s][d.summary].data
    PROVE  DirSound(x)'
<1>1. SymbolOf[x] = s
  BY Zenon DEF SpecsOf
<1> SUFFICES ASSUME NEW g \in Gens, dir'[x][g].summary # 0
             PROVE  LET i == child'[s][dir'[x][g].summary]
                    IN  /\ dir'[x][g].data = dir'[x][g].summary
                        /\ i.st \notin {"none", "loading"} /\ dir'[x][g].marker <= i.data
  BY <1>1, Zenon DEF DirSound
<1>2. LET i == child[s][dir[x][g].summary]
      IN  dir[x][g].summary # 0 =>
            dir[x][g].data = dir[x][g].summary /\ dir[x][g].marker <= i.data
  BY <1>1, Zenon DEF DirSound
<1> QED
  BY <1>2, Zenon

\* A run that counts stays sound in the same way.
LEMMA ResultKept ==
    ASSUME NEW s \in Symbols, NEW x \in SpecsOf(s), ResultSound(x),
           UNCHANGED <<plan, sweep>>, outcome'[x] = outcome[x], seen'[s] = seen[s],
           LET d == dir[x][plan[sweep]]
           IN  outcome[x] \in {"ok", "resumed"} =>
                 /\ dir'[x][plan[sweep]].summary = d.summary
                 /\ d.summary # 0 => child'[s][d.summary].data = child[s][d.summary].data
    PROVE  ResultSound(x)'
<1>1. SymbolOf[x] = s
  BY Zenon DEF SpecsOf
<1> QED
  BY <1>1, ZenonT(40) DEF ResultSound

\* A symbol whose directories, children and outcomes a step leaves alone stays
\* sound.
LEMMA SymbolFrame ==
    ASSUME NEW s \in Symbols, SymbolSound(s), UNCHANGED <<plan, sweep>>,
           seen'[s] = seen[s], child'[s] = child[s],
           task'[s] = "prepared" => task[s] = "prepared",
           task[s] = "child" => task'[s] = "child",
           \A x \in SpecsOf(s) : outcome'[x] = outcome[x] /\ dir'[x] = dir[x]
    PROVE  SymbolSound(s)'
<1>1. SpecsOf(s)' = SpecsOf(s) /\ \A x \in SpecsOf(s) : SymbolOf[x] = s
  BY Zenon DEF SpecsOf
<1>2. Open(s)' = Open(s) /\ Open(s) \subseteq SpecsOf(s)
  BY <1>1, Zenon DEF Open
<1>3. PreparedSound(s)'
  BY <1>2, Zenon DEF SymbolSound, PreparedSound
<1>4. ASSUME NEW k \in Sweeps PROVE ChildSound(s, k)'
  <2>1. ChildSound(s, k)
    BY Zenon DEF SymbolSound
  <2>2. Alive(s, k)' = Alive(s, k) /\ Now(s, k)' = Now(s, k)
    BY Zenon DEF Alive, Now
  <2> QED
    BY <1>2, <2>1, <2>2, ZenonT(40) DEF ChildSound
<1>5. ASSUME NEW x \in SpecsOf(s) PROVE DirSound(x)' /\ ResultSound(x)'
  <2>1. DirSound(x) /\ ResultSound(x) /\ dir'[x] = dir[x]
    BY Zenon DEF SymbolSound
  <2>2. DirSound(x)'
    BY <1>1, <2>1, Zenon DEF DirSound
  <2>3. ResultSound(x)'
    BY <2>1, ResultKept, Zenon
  <2> QED
    BY <2>2, <2>3, Zenon
<1> QED
  BY <1>1, <1>3, <1>4, <1>5, Zenon DEF SymbolSound

\* While no orchestrator is at work and none was killed, no child runs.
LEMMA IdleIsQuiet ==
    ASSUME NEW s \in Symbols, SymbolSound(s), TaskSound(s), phase = "idle", NEW k \in Sweeps
    PROVE  ~Alive(s, k)
BY Zenon DEF SymbolSound, ChildSound, TaskSound

\* Starting a sweep keeps a symbol sound.
LEMMA StartSymbol ==
    ASSUME NEW s \in Symbols, SymbolSound(s), TaskSound(s), Start
    PROVE  SymbolSound(s)'
<1>1. SpecsOf(s)' = SpecsOf(s) /\ \A x \in SpecsOf(s) : x \in Specs /\ SymbolOf[x] = s
  BY Zenon DEF SpecsOf
<1>2. PreparedSound(s)'
  BY Zenon DEF Start, PreparedSound
<1>3. ASSUME NEW k \in Sweeps PROVE ChildSound(s, k)'
  <2>1. ~Alive(s, k)'
    BY IdleIsQuiet, Zenon DEF Start, Alive
  <2> QED
    BY <2>1, Zenon DEF ChildSound
<1>4. ASSUME NEW x \in SpecsOf(s) PROVE DirSound(x)' /\ ResultSound(x)'
  <2>1. outcome'[x] = "none" /\ UNCHANGED <<dir, child>>
    BY <1>1, Zenon DEF Start
  <2> QED
    BY <2>1, Zenon DEF SymbolSound, DirSound, ResultSound
<1> QED
  BY <1>1, <1>2, <1>3, <1>4, Zenon DEF SymbolSound

\* terminate_all only signals: a symbol stays sound.
LEMMA InterruptSymbol ==
    ASSUME ConstantsOK, TypeOK, Planned, NEW s \in Symbols, SymbolSound(s), Interrupt
    PROVE  SymbolSound(s)'
<1>1. SpecsOf(s)' = SpecsOf(s) /\ \A x \in SpecsOf(s) : x \in Specs /\ SymbolOf[x] = s
  BY Zenon DEF SpecsOf
<1>2. UNCHANGED <<sweep, plan, task, seen, outcome, dir>> /\ sweep \in Sweeps
  BY Zenon DEF Interrupt, Planned
<1>3. Open(s)' = Open(s)
  BY <1>1, <1>2, Zenon DEF Open
<1>4. \A k \in Sweeps : /\ child'[s][k].st = child[s][k].st
                        /\ child'[s][k].data = child[s][k].data
                        /\ child'[s][k].left = child[s][k].left
                        /\ child'[s][k].at = child[s][k].at
  BY DEF Interrupt, TypeOK, ChildStates
<1>5. PreparedSound(s)'
  BY <1>2, <1>3, Zenon DEF SymbolSound, PreparedSound
<1>6. ASSUME NEW k \in Sweeps PROVE ChildSound(s, k)'
  <2>1. ChildSound(s, k)
    BY Zenon DEF SymbolSound
  <2>2. Alive(s, k)' = Alive(s, k) /\ Now(s, k)' = Now(s, k)
    BY <1>4, Zenon DEF Alive, Now
  <2> QED
    BY <1>2, <1>3, <1>4, <2>1, <2>2, Zenon DEF ChildSound
<1>7. ASSUME NEW x \in SpecsOf(s) PROVE DirSound(x)' /\ ResultSound(x)'
  <2>0. DirSound(x) /\ ResultSound(x) /\ x \in Specs /\ SymbolOf[x] = s
    BY <1>1, Zenon DEF SymbolSound
  <2>1. \A g \in Gens : dir[x][g].summary # 0 =>
          /\ child'[s][dir[x][g].summary].st = child[s][dir[x][g].summary].st
          /\ child'[s][dir[x][g].summary].data = child[s][dir[x][g].summary].data
    BY <1>4, <2>0, WriterIsSweep, Zenon
  <2>2. \A g \in Gens : dir[x][g].summary # 0 =>
          child[s][dir[x][g].summary].st \notin {"none", "loading"}
    BY <2>0, Zenon DEF DirSound
  <2>3. DirSound(x)'
    BY <1>2, <2>0, <2>1, <2>2, DirKept, Zenon
  <2>4. plan[sweep] \in Gens
    <3>1. sweep <= sweep
      BY DEF TypeOK
    <3> QED
      BY <1>2, <3>1, Zenon DEF Planned
  <2>5. ResultSound(x)'
    BY <1>2, <2>0, <2>1, <2>4, ResultKept, Zenon
  <2> QED
    BY <2>3, <2>5, Zenon
<1> QED
  BY <1>1, <1>5, <1>6, <1>7, Zenon DEF SymbolSound

\* A task that takes its fingerprints keeps its symbol sound: what it resumes
\* was computed from the generation it fingerprints, what it does not is reset.
LEMMA PrepareSymbol ==
    ASSUME ConstantsOK, TypeOK, Planned, NEW s \in Symbols, SymbolSound(s), TaskSound(s),
           Prepare(s)
    PROVE  SymbolSound(s)'
<1>0. /\ sweep \in Sweeps /\ plan[sweep] \in Gens /\ gen \in Gens
      /\ task[s] = "queued" /\ task'[s] # "child" /\ seen'[s] = gen
      /\ UNCHANGED <<gen, sweep, plan, child>>
  BY DEF Prepare, Planned, TypeOK
<1>1. SpecsOf(s)' = SpecsOf(s) /\ \A x \in SpecsOf(s) : x \in Specs /\ SymbolOf[x] = s
  BY Zenon DEF SpecsOf
<1>2. Open(s)' = {x \in SpecsOf(s) : outcome'[x] = "active"}
  BY <1>1, Zenon DEF Open
<1>3. \A x \in Specs, g \in Gens : dir[x][g] \in DirStates
  BY ZenonT(40) DEF TypeOK
<1>4. \A x \in SpecsOf(s), g \in Gens :
        IF outcome'[x] = "active" /\ g = plan[sweep]
        THEN dir'[x][g].marker = gen /\ dir'[x][g].summary = 0
        ELSE dir'[x][g] = dir[x][g]
  <2>1. \A x \in Specs, g \in Gens :
          Reset(dir[x][g], gen).marker = gen /\ Reset(dir[x][g], gen).summary = 0
    BY <1>0, <1>3, ResetTyped, Zenon
  <2>2. ASSUME NEW x \in SpecsOf(s), NEW g \in Gens
        PROVE  IF outcome'[x] = "active" /\ g = plan[sweep]
               THEN dir'[x][g] = Reset(dir[x][g], gen) ELSE dir'[x][g] = dir[x][g]
    BY <1>0, <1>1, PrepareDirs, Zenon
  <2> QED
    BY <1>1, <2>1, <2>2
<1>5. PreparedSound(s)'
  BY <1>0, <1>1, <1>2, <1>4, Zenon DEF PreparedSound
<1>6. ASSUME NEW k \in Sweeps PROVE ChildSound(s, k)'
  <2>1. ~Alive(s, k)'
    BY <1>0, Zenon DEF SymbolSound, ChildSound, Alive
  <2> QED
    BY <2>1, Zenon DEF ChildSound
<1>7. ASSUME NEW x \in SpecsOf(s) PROVE DirSound(x)'
  <2>1. DirSound(x) /\ SymbolOf[x] = s
    BY <1>1, Zenon DEF SymbolSound
  <2>2. \A g \in Gens : dir'[x][g].summary # 0 => dir'[x][g] = dir[x][g]
    BY <1>4
  <2>3. \A g \in Gens : dir'[x][g].summary # 0 =>
          child'[s][dir[x][g].summary].st \notin {"none", "loading"}
    BY <1>0, <2>1, <2>2, Zenon DEF DirSound
  <2> QED
    BY <1>0, <2>1, <2>2, <2>3, DirKept, ZenonT(40)
<1>8. ASSUME NEW x \in SpecsOf(s) PROVE ResultSound(x)'
  <2>1. CASE outcome'[x] = "active"
    BY <2>1, Zenon DEF ResultSound
  <2>2. CASE outcome'[x] = "resumed" /\ Resumable(x, gen)
    <3> DEFINE d == dir[x][plan[sweep]]
               c == child[s][d.summary]
    <3>1. d.summary # 0 /\ d.marker = gen /\ dir'[x][plan[sweep]] = d
      BY <1>0, <1>4, <2>2, Zenon DEF Resumable
    <3>2. d.marker <= c.data
      BY <1>0, <1>1, <3>1, Zenon DEF SymbolSound, DirSound
    <3>3. d.summary \in Sweeps
      BY <1>0, <1>1, <3>1, WriterIsSweep, Zenon
    <3>4. c.data <= gen /\ c.data \in 0 .. MaxGen
      <4>1. child[s][d.summary] \in ChildStates
        BY <3>3, Zenon DEF TypeOK
      <4> QED
        BY <3>3, <4>1, Zenon DEF TaskSound, ChildStates
    <3>5. c.data = gen
      <4> HIDE DEF c, d
      <4>1. gen <= c.data
        BY <3>1, <3>2, Zenon
      <4>2. gen \in Nat
        BY <1>0 DEF Gens
      <4>3. c.data \in Nat
        BY <3>4
      <4> QED
        BY <3>4, <4>1, <4>2, <4>3
    <3> QED
      BY <1>0, <1>1, <2>2, <3>1, <3>5, Zenon DEF ResultSound
  <2> QED
    BY <1>0, <2>1, <2>2, PrepareDirs, Zenon
<1> QED
  BY <1>1, <1>5, <1>6, <1>7, <1>8, Zenon DEF SymbolSound

\* A child that has not run has no results: none of the summaries is its own.
LEMMA NoResultsYet ==
    ASSUME TypeOK, NEW s \in Symbols, SymbolSound(s), NEW k \in Sweeps,
           child[s][k].st \in {"none", "loading"}
    PROVE  \A x \in SpecsOf(s), g \in Gens : dir[x][g].summary # k
<1>1. 0 \notin Sweeps
  BY DEF Sweeps
<1>2. \A x \in SpecsOf(s) : SymbolOf[x] = s
  BY Zenon DEF SpecsOf
<1> QED
  BY <1>1, <1>2, Zenon DEF SymbolSound, DirSound

\* A child that is started finds its directories reset.
LEMMA SpawnSymbol ==
    ASSUME ConstantsOK, TypeOK, Planned, NEW s \in Symbols, SymbolSound(s), TaskSound(s),
           Spawn(s)
    PROVE  SymbolSound(s)'
<1>0. /\ sweep \in Sweeps /\ plan[sweep] \in Gens /\ task[s] = "prepared" /\ task'[s] = "child"
      /\ UNCHANGED <<sweep, plan, seen, outcome, dir>> /\ child[s][sweep].st = "none"
  BY DEF Spawn, Planned, TypeOK, TaskSound, Sweeps
<1>1. SpecsOf(s)' = SpecsOf(s) /\ \A x \in SpecsOf(s) : x \in Specs /\ SymbolOf[x] = s
  BY Zenon DEF SpecsOf
<1>2. Open(s)' = Open(s) /\ Open(s) \subseteq Specs
  BY <1>0, <1>1, Zenon DEF Open
<1> DEFINE c == [NoChild EXCEPT !.st = "loading", !.left = Open(s), !.sig = Signalled]
<1>3. c \in ChildStates /\ child' = [child EXCEPT ![s][sweep] = c]
  BY <1>0, <1>2, ChildTyped, Zenon DEF Spawn, Signalled, TypeOK
<1>4. c.st = "loading" /\ c.at = 1 /\ c.at # 2 /\ c.left = Open(s)
  BY DEF NoChild
<1> HIDE DEF c
<1>5. /\ child'[s][sweep] = c
      /\ \A j \in Sweeps : j # sweep => child'[s][j] = child[s][j]
  BY <1>0, <1>3, ChildUpdate DEF TypeOK
<1>6. PreparedSound(s)'
  BY <1>0, Zenon DEF PreparedSound
<1>7. ASSUME NEW k \in Sweeps PROVE ChildSound(s, k)'
  <2>1. CASE k = sweep
    <3>1. \A x \in Open(s) : dir[x][plan[k]].marker = seen[s] /\ dir[x][plan[k]].summary = 0
      BY <1>0, <2>1, Zenon DEF SymbolSound, PreparedSound
    <3>2. child'[s][k] = c /\ UNCHANGED <<plan, sweep, dir>> /\ seen'[s] = seen[s]
      BY <1>0, <1>5, <2>1, Zenon
    <3> QED
      BY <1>0, <1>2, <1>4, <2>1, <3>1, <3>2, Zenon DEF ChildSound
  <2>2. CASE k # sweep
    <3>1. ~Alive(s, k)'
      BY <1>5, <2>2, Zenon DEF SymbolSound, ChildSound, Alive
    <3> QED
      BY <3>1, Zenon DEF ChildSound
  <2> QED
    BY <2>1, <2>2, Zenon
<1>8. ASSUME NEW x \in SpecsOf(s) PROVE DirSound(x)' /\ ResultSound(x)'
  <2>1. \A g \in Gens : dir[x][g].summary # 0 =>
          child'[s][dir[x][g].summary] = child[s][dir[x][g].summary]
    <3>1. \A g \in Gens : dir[x][g].summary # 0 =>
            dir[x][g].summary \in Sweeps /\ dir[x][g].summary # sweep
      BY <1>0, <1>1, NoResultsYet, WriterIsSweep, Zenon
    <3> QED
      BY <1>5, <3>1, Zenon
  <2>2. DirSound(x)'
    BY <1>0, <1>1, <2>1, ZenonT(40) DEF SymbolSound, DirSound
  <2>3. ResultSound(x)'
    BY <1>0, <1>1, <2>1, Zenon DEF SymbolSound, ResultSound
  <2> QED
    BY <2>2, <2>3, Zenon
<1> QED
  BY <1>1, <1>6, <1>7, <1>8, Zenon DEF SymbolSound

\* A task that reads what its dead child left keeps its symbol sound: what it
\* counts as ok has a summary.
LEMMA ReapSymbol ==
    ASSUME TypeOK, NEW s \in Symbols, SymbolSound(s), Reap(s)
    PROVE  SymbolSound(s)'
<1>0. /\ task'[s] = "done" /\ child[s][sweep].st = "dead"
      /\ UNCHANGED <<sweep, plan, seen, child, dir>>
  BY Zenon DEF Reap, TypeOK
<1>1. SpecsOf(s)' = SpecsOf(s) /\ \A x \in SpecsOf(s) : x \in Specs /\ SymbolOf[x] = s
  BY Zenon DEF SpecsOf
<1>2. PreparedSound(s)'
  BY <1>0, Zenon DEF PreparedSound
<1>3. ASSUME NEW k \in Sweeps PROVE ChildSound(s, k)'
  <2>1. ~Alive(s, k)'
    BY <1>0, Zenon DEF SymbolSound, ChildSound, Alive
  <2> QED
    BY <2>1, Zenon DEF ChildSound
<1>4. ASSUME NEW x \in SpecsOf(s) PROVE DirSound(x)' /\ ResultSound(x)'
  <2>1. \/ outcome'[x] = outcome[x] \/ outcome'[x] = "failed"
        \/ outcome'[x] = "ok" /\ dir[x][plan[sweep]].summary # 0
    BY <1>1, Zenon DEF Reap, Fresh
  <2> QED
    BY <1>0, <2>1, Zenon DEF SymbolSound, DirSound, ResultSound
<1> QED
  BY <1>1, <1>2, <1>3, <1>4, Zenon DEF SymbolSound

\* A child step does not touch the market data a summary was computed from.
LEMMA ResultsKept ==
    ASSUME ConstantsOK, TypeOK, NEW s \in Symbols, SymbolSound(s), NEW k \in Sweeps,
           ChildStep(s, k), NEW x \in SpecsOf(s), NEW g \in Gens, dir[x][g].summary # 0
    PROVE  LET j == dir[x][g].summary
           IN  /\ j \in Sweeps /\ child'[s][j].data = child[s][j].data
               /\ child'[s][j].st \notin {"none", "loading"}
<1> DEFINE j == dir[x][g].summary
<1>1. x \in Specs /\ SymbolOf[x] = s
  BY Zenon DEF SpecsOf
<1>2. j \in Sweeps
  BY <1>1, WriterIsSweep, Zenon
<1>3. child[s][j].st \notin {"none", "loading"}
  BY <1>1, ZenonT(40) DEF SymbolSound, DirSound
<1>4. CASE j = k
  <2>1. child[s][k].st = "saving"
    BY <1>3, <1>4, Zenon DEF ChildStep, ChildLoad, ChildSave, ChildSkip, ChildExit, Alive
  <2> QED
    BY <1>2, <1>4, <2>1, ChildChange, Zenon
<1>5. CASE j # k
  <2>1. child'[s][j] = child[s][j]
    BY <1>2, <1>5, ChildChange, Zenon
  <2> QED
    BY <1>2, <1>3, <2>1, Zenon
<1> QED
  BY <1>4, <1>5, Zenon

\* A symbol stays sound when one of its children steps without writing a file
\* and stays sound itself.
LEMMA QuietChild ==
    ASSUME ConstantsOK, TypeOK, Planned, NEW s \in Symbols, SymbolSound(s), TaskSound(s),
           NEW k \in Sweeps, ChildStep(s, k), dir' = dir, ChildSound(s, k)'
    PROVE  SymbolSound(s)'
<1>0. /\ UNCHANGED <<gen, sweep, plan, task, seen, outcome>> /\ Alive(s, k) /\ k = sweep
      /\ task[s] = "child" /\ plan[sweep] \in Gens
  BY ChildChange, ChildRuns, Zenon DEF SymbolSound, ChildSound
<1>1. SpecsOf(s)' = SpecsOf(s) /\ \A x \in SpecsOf(s) : x \in Specs /\ SymbolOf[x] = s
  BY Zenon DEF SpecsOf
<1>2. PreparedSound(s)'
  BY <1>0, Zenon DEF PreparedSound
<1>3. ASSUME NEW j \in Sweeps, j # k PROVE ChildSound(s, j)'
  <2>1. ~Alive(s, j)'
    BY <1>0, <1>3, ChildChange, ZenonT(40) DEF SymbolSound, ChildSound, Alive
  <2> QED
    BY <2>1, Zenon DEF ChildSound
<1>4. ASSUME NEW x \in SpecsOf(s) PROVE DirSound(x)' /\ ResultSound(x)'
  <2>0. DirSound(x) /\ ResultSound(x) /\ SymbolOf[x] = s
    BY <1>1, Zenon DEF SymbolSound
  <2>1. DirSound(x)'
    <3> SUFFICES ASSUME NEW g \in Gens, dir[x][g].summary # 0
                 PROVE  LET c == child'[s][dir[x][g].summary]
                        IN  /\ dir[x][g].data = dir[x][g].summary
                            /\ c.st \notin {"none", "loading"} /\ dir[x][g].marker <= c.data
      BY <2>0, Zenon DEF DirSound
    <3> QED
      BY <2>0, ResultsKept, Zenon DEF DirSound
  <2>2. ResultSound(x)'
    BY <1>0, <2>0, ResultsKept, Zenon DEF ResultSound
  <2> QED
    BY <2>1, <2>2, Zenon
<1> QED
  BY <1>1, <1>2, <1>3, <1>4, Zenon DEF SymbolSound

\* A child reads market data no older than what its task fingerprinted.
LEMMA LoadSymbol ==
    ASSUME ConstantsOK, TypeOK, Planned, NEW s \in Symbols, SymbolSound(s), TaskSound(s),
           NEW k \in Sweeps, ChildLoad(s, k)
    PROVE  SymbolSound(s)'
<1>1. ChildStep(s, k) /\ dir' = dir
  BY Zenon DEF ChildStep, ChildLoad
<1>2. UNCHANGED <<gen, sweep, plan, task, seen, outcome>>
  BY <1>1, ChildChange, Zenon
<1>3. Open(s)' = Open(s)
  BY <1>2, Zenon DEF Open, SpecsOf
<1> DEFINE c == child[s][k]
           d == [c EXCEPT !.st = "saving", !.data = gen]
<1>4. d \in ChildStates /\ child' = [child EXCEPT ![s][k] = d] /\ c \in ChildStates
  BY ChildTyped, Zenon DEF ChildLoad, Child
<1>5. d.st = "saving" /\ d.data = gen /\ d.left = c.left /\ d.at = c.at /\ c.st = "loading"
  BY <1>4, Zenon DEF ChildStates, ChildLoad
<1> HIDE DEF d
<1>6. child'[s][k] = d
  BY <1>4, ChildUpdate DEF TypeOK
<1>7. ChildSound(s, k)'
  <2>1. Now(s, k)' = Now(s, k)
    BY <1>5, <1>6, Zenon DEF Now
  <2>2. ChildSound(s, k) /\ Alive(s, k) /\ seen[s] <= gen
    BY <1>5, Zenon DEF SymbolSound, TaskSound, Alive
  <2> QED
    BY <1>1, <1>2, <1>3, <1>5, <1>6, <2>1, <2>2, Zenon DEF ChildSound
<1> QED
  BY <1>1, <1>7, QuietChild, Zenon

\* A run the child skips leaves the others as they were.
LEMMA SkipSymbol ==
    ASSUME ConstantsOK, TypeOK, Planned, NEW s \in Symbols, SymbolSound(s), TaskSound(s),
           NEW k \in Sweeps, ChildSkip(s, k)
    PROVE  SymbolSound(s)'
<1>1. ChildStep(s, k) /\ dir' = dir
  BY Zenon DEF ChildStep, ChildSkip
<1>2. UNCHANGED <<gen, sweep, plan, task, seen, outcome>>
  BY <1>1, ChildChange, Zenon
<1>3. Open(s)' = Open(s)
  BY <1>2, Zenon DEF Open, SpecsOf
<1> DEFINE c == child[s][k]
           l == c.left \ {Now(s, k)}
           d == [c EXCEPT !.at = 1, !.left = l]
<1>4. d \in ChildStates /\ child' = [child EXCEPT ![s][k] = d] /\ c \in ChildStates
  <2>1. c \in ChildStates /\ l \in SUBSET Specs
    BY DEF TypeOK, ChildStates
  <2>2. child' = [child EXCEPT ![s][k] = d]
    BY Zenon DEF ChildSkip, Child
  <2> HIDE DEF l
  <2> QED
    BY <2>1, <2>2, ChildTyped, Zenon
<1>5. d.st = "saving" /\ d.data = c.data /\ d.left = l /\ d.at = 1 /\ c.st = "saving"
  <2>1. c.st = "saving"
    BY DEF ChildSkip
  <2>2. d = [c EXCEPT !.at = 1, !.left = l]
    OBVIOUS
  <2> HIDE DEF c, d, l
  <2> QED
    BY <1>4, <2>1, <2>2 DEF ChildStates
<1> HIDE DEF d
<1>6. child'[s][k] = d
  <2>1. child \in [Symbols -> [Sweeps -> ChildStates]]
    BY Zenon DEF TypeOK
  <2> QED
    BY <1>4, <2>1, ChildUpdate, Zenon
<1>7. ChildSound(s, k)'
  <2>1. ChildSound(s, k) /\ Alive(s, k)
    BY <1>5, Zenon DEF SymbolSound, Alive
  <2>2. \A x \in l : x \in c.left /\ x # Now(s, k)
    OBVIOUS
  <2>3. \A x \in l : dir[x][plan[k]].marker = seen[s] /\ dir[x][plan[k]].summary = 0
    BY <2>1, <2>2, Zenon DEF ChildSound
  <2>4. k = sweep /\ task[s] = "child" /\ l \subseteq Open(s) /\ seen[s] <= c.data
    BY <1>5, <2>1, <2>2, Zenon DEF ChildSound
  <2> HIDE DEF l
  <2> QED
    BY <1>1, <1>2, <1>3, <1>5, <1>6, <2>3, <2>4 DEF ChildSound
<1> QED
  BY <1>1, <1>7, QuietChild, Zenon

\* A child that ends leaves its results.
LEMMA ExitSymbol ==
    ASSUME ConstantsOK, TypeOK, Planned, NEW s \in Symbols, SymbolSound(s), TaskSound(s),
           NEW k \in Sweeps, ChildExit(s, k)
    PROVE  SymbolSound(s)'
<1>1. ChildStep(s, k) /\ dir' = dir
  BY Zenon DEF ChildStep, ChildExit
<1> DEFINE d == [NoChild EXCEPT !.st = "dead", !.data = child[s][k].data]
<1>2. d \in ChildStates /\ child' = [child EXCEPT ![s][k] = d] /\ d.st = "dead"
  BY ChildTyped, Zenon DEF ChildExit, Child, NoChild
<1> HIDE DEF d
<1>3. child'[s][k] = d
  BY <1>2, ChildUpdate DEF TypeOK
<1>4. ChildSound(s, k)'
  BY <1>2, <1>3, Zenon DEF ChildSound, Alive
<1> QED
  BY <1>1, <1>4, QuietChild, Zenon

\* A child writes data, then the summary, then the meta file of one run after
\* the other (save_results): no summary stands beside other data than its own.
LEMMA SaveSymbol ==
    ASSUME ConstantsOK, TypeOK, Planned, NEW s \in Symbols, SymbolSound(s), TaskSound(s),
           NEW k \in Sweeps, ChildSave(s, k)
    PROVE  SymbolSound(s)'
<1> DEFINE c == child[s][k]
           x == Now(s, k)
           p == plan[k]
           l == c.left \ {x}
           e == IF c.at < 3 THEN [c EXCEPT !.at = c.at + 1] ELSE [c EXCEPT !.at = 1, !.left = l]
<1>1. ChildStep(s, k) /\ Alive(s, k) /\ p \in Gens
  BY ChildRuns, Zenon DEF ChildStep
<1>2. UNCHANGED <<gen, sweep, plan, task, seen, outcome>>
  BY <1>1, ChildChange, Zenon
<1>3. SpecsOf(s)' = SpecsOf(s) /\ \A y \in SpecsOf(s) : y \in Specs /\ SymbolOf[y] = s
  BY Zenon DEF SpecsOf
<1>4. Open(s)' = Open(s) /\ Open(s) \subseteq SpecsOf(s)
       /\ \A y \in Open(s) : outcome[y] = "active"
  BY <1>2, <1>3, Zenon DEF Open
<1>5. /\ k = sweep /\ task[s] = "child" /\ c.left \subseteq Open(s) /\ c.st = "saving"
      /\ seen[s] <= c.data
      /\ \A y \in c.left : /\ dir[y][p].marker = seen[s]
                           /\ y # x \/ c.at # 3 => dir[y][p].summary = 0
                           /\ y = x /\ c.at = 2 => dir[y][p].data = k
  <2>1. ChildSound(s, k)
    BY Zenon DEF SymbolSound
  <2>2. c.st = "saving"
    BY Zenon DEF ChildSave
  <2> QED
    BY <1>1, <2>1, <2>2, Zenon DEF ChildSound
<1>6. x \in c.left /\ x \in Specs /\ x \in Open(s) /\ x \in SpecsOf(s)
  BY <1>4, <1>5, NowIsLeft, Zenon DEF ChildSave
<1>7. c \in ChildStates /\ c.at \in 1 .. 3 /\ dir[x][p] \in DirStates
  BY <1>1, <1>6 DEF TypeOK, ChildStates
<1>8. child' \in [Symbols -> [Sweeps -> ChildStates]] /\ child'[s][k] = e
  <2>1. l \in SUBSET Specs
    BY <1>7, Zenon DEF ChildStates
  <2>2. child' = [child EXCEPT ![s][k] = e]
    BY Zenon DEF ChildSave, Child
  <2>3. e \in ChildStates
    <3> HIDE DEF l
    <3> QED
      BY <2>1, ChildTyped, Zenon
  <2> HIDE DEF e
  <2> QED
    BY <2>2, <2>3, ChildUpdate DEF TypeOK
<1>9. /\ e.st = "saving" /\ e.data = c.data
      /\ c.at < 3 => e.at = c.at + 1 /\ e.left = c.left
      /\ c.at = 3 => e.at = 1 /\ e.left = l
  <2>1. CASE c.at < 3
    <3>1. e = [c EXCEPT !.at = c.at + 1]
      BY <2>1, Zenon
    <3> HIDE DEF e
    <3> QED
      BY <1>5, <1>7, <2>1, <3>1 DEF ChildStates
  <2>2. CASE c.at = 3
    <3> HIDE DEF c, l
    <3>0. ~(c.at < 3)
      BY <2>2
    <3>1. e = [c EXCEPT !.at = 1, !.left = l]
      BY <3>0, ZenonT(40)
    <3> HIDE DEF e
    <3> QED
      BY <1>5, <1>7, <2>2, <3>1 DEF ChildStates
  <2> HIDE DEF c, e, l
  <2> QED
    BY <1>7, <2>1, <2>2
<1>10. \A y \in Specs, h \in Gens : y # x \/ h # p => dir'[y][h] = dir[y][h]
  BY <1>1, SaveDirs, Zenon
<1>11. LET d == dir[x][p]
           f == dir'[x][p]
       IN  /\ f.marker = d.marker
           /\ c.at = 1 => f.data = k /\ f.summary = d.summary
           /\ c.at = 2 => f.summary = k /\ f.data = d.data
           /\ c.at = 3 => f.summary = d.summary /\ f.data = d.data
  <2>1. dir'[x][p] = Save(dir[x][p], c.at, k)
    BY <1>1, SaveDirs, Zenon
  <2>2. LET d == dir[x][p]
            f == Save(dir[x][p], c.at, k)
        IN  /\ f.marker = d.marker
            /\ c.at = 1 => f.data = k /\ f.summary = d.summary
            /\ c.at = 2 => f.summary = k /\ f.data = d.data
            /\ c.at = 3 => f.summary = d.summary /\ f.data = d.data
    <3> HIDE DEF c, x, p
    <3>1. dir[x][p] \in DirStates /\ c.at \in 1 .. 3
      BY <1>7, Zenon
    <3> QED
      BY <3>1, SaveFacts, ZenonT(40)
  <2> QED
    BY <2>1, <2>2, Zenon
<1>12. PreparedSound(s)'
  BY <1>2, <1>5, Zenon DEF PreparedSound
<1> HIDE DEF c, x, p, l, e
<1>13. ASSUME NEW j \in Sweeps PROVE ChildSound(s, j)'
  <2>1. CASE j # k
    <3>1. ~Alive(s, j)'
      <4>1. ~Alive(s, j)
        BY <1>5, <2>1, Zenon DEF SymbolSound, ChildSound
      <4>2. child'[s][j] = child[s][j]
        BY <1>1, <2>1, ChildChange, Zenon
      <4> QED
        BY <4>1, <4>2, Zenon DEF Alive
    <3> QED
      BY <3>1, Zenon DEF ChildSound
  <2>2. CASE j = k
    <3>0. c.at < 3 \/ c.at = 3
      BY <1>7
    <3>1. e.left \subseteq c.left /\ (c.at = 3 => x \notin e.left)
      BY <1>9, <3>0, Zenon DEF l
    <3>3. c.at < 3 => Now(s, k)' = x
      BY <1>8, <1>9, Zenon DEF Now, c, x
    <3>4. ASSUME NEW y \in e.left
          PROVE  /\ dir'[y][p].marker = seen[s]
                 /\ y # Now(s, k)' \/ e.at # 3 => dir'[y][p].summary = 0
                 /\ y = Now(s, k)' /\ e.at = 2 => dir'[y][p].data = k
      <4>1. y \in c.left /\ y \in Specs
        BY <1>3, <1>4, <1>5, <3>1, Zenon
      <4>2. CASE y # x
        <5>1. dir'[y][p] = dir[y][p] /\ dir[y][p].marker = seen[s] /\ dir[y][p].summary = 0
          BY <1>1, <1>5, <1>10, <4>1, <4>2, Zenon
        <5>2. e.at = 2 => y # Now(s, k)'
          <6>1. e.at = 2 => c.at < 3
            BY <1>9, <3>0
          <6> QED
            BY <3>3, <4>2, <6>1, Zenon
        <5> QED
          BY <5>1, <5>2, Zenon
      <4>3. CASE y = x
        <5>1. c.at < 3 /\ Now(s, k)' = x /\ e.at = c.at + 1
          BY <1>9, <3>0, <3>1, <3>3, <4>3, Zenon
        <5>2. dir[x][p].marker = seen[s] /\ dir'[x][p].marker = dir[x][p].marker
          BY <1>5, <1>6, <1>11, Zenon
        <5>3. CASE c.at = 1
          <6>1. dir'[x][p].data = k /\ dir'[x][p].summary = dir[x][p].summary
            BY <1>11, <5>3, Zenon
          <6>2. dir[x][p].summary = 0
            <7>1. c.at # 3
              BY <5>3
            <7> QED
              BY <1>5, <1>6, <7>1, Zenon
          <6> QED
            BY <4>3, <5>2, <6>1, <6>2, Zenon
        <5>4. CASE c.at = 2
          <6>1. e.at = 3 /\ e.at # 2
            BY <5>1, <5>4
          <6> QED
            BY <4>3, <5>1, <5>2, <6>1, Zenon
        <5>5. c.at = 1 \/ c.at = 2
          BY <1>7, <5>1
        <5> QED
          BY <5>3, <5>4, <5>5, ZenonT(40)
      <4> QED
        BY <4>2, <4>3, Zenon
    <3>5. e.left \subseteq Open(s)
      BY <1>5, <3>1, Zenon
    <3> QED
      BY <1>2, <1>4, <1>5, <1>8, <1>9, <2>2, <3>4, <3>5, Zenon DEF ChildSound, p
  <2> QED
    BY <2>1, <2>2, Zenon
<1>14. ASSUME NEW y \in SpecsOf(s) PROVE DirSound(y)'
  <2>0. DirSound(y) /\ y \in Specs /\ SymbolOf[y] = s
    BY <1>3, Zenon DEF SymbolSound
  <2> SUFFICES ASSUME NEW g \in Gens, dir'[y][g].summary # 0
               PROVE  LET i == child'[s][dir'[y][g].summary]
                      IN  /\ dir'[y][g].data = dir'[y][g].summary
                          /\ i.st \notin {"none", "loading"} /\ dir'[y][g].marker <= i.data
    BY <2>0, Zenon DEF DirSound
  <2>1. CASE \/ y # x \/ g # p \/ c.at = 3
    <3>1. /\ dir'[y][g].summary = dir[y][g].summary /\ dir'[y][g].data = dir[y][g].data
          /\ dir'[y][g].marker = dir[y][g].marker
      BY <1>10, <1>11, <2>0, <2>1, Zenon
    <3>2. dir[y][g].summary # 0
      BY <3>1, Zenon
    <3>3. LET j == dir[y][g].summary
          IN  child'[s][j].data = child[s][j].data /\ child'[s][j].st \notin {"none", "loading"}
      BY <1>1, <3>2, ResultsKept, Zenon
    <3>4. LET j == dir[y][g].summary
          IN  dir[y][g].data = j /\ dir[y][g].marker <= child[s][j].data
      BY <2>0, <3>2, Zenon DEF DirSound
    <3> QED
      BY <3>1, <3>3, <3>4, Zenon
  <2>2. CASE y = x /\ g = p /\ c.at = 1
    <3>1. dir[x][p].summary = 0
      BY <1>5, <1>6, <2>2
    <3> QED
      BY <1>11, <2>2, <3>1, ZenonT(40)
  <2>3. CASE y = x /\ g = p /\ c.at = 2
    BY <1>5, <1>6, <1>8, <1>9, <1>11, <2>3, ZenonT(40)
  <2>4. c.at = 1 \/ c.at = 2 \/ c.at = 3
    BY <1>7
  <2> QED
    BY <2>1, <2>2, <2>3, <2>4, Zenon
<1>15. ASSUME NEW y \in SpecsOf(s) PROVE ResultSound(y)'
  <2>0. ResultSound(y) /\ y \in Specs
    BY <1>3, Zenon DEF SymbolSound
  <2>1. CASE y = x
    BY <1>2, <1>4, <1>6, <2>1, Zenon DEF ResultSound
  <2>2. CASE y # x
    <3>1. plan[sweep] \in Gens
      BY <1>1, <1>5, Zenon DEF p
    <3>2. dir'[y][plan[sweep]] = dir[y][plan[sweep]]
      BY <1>10, <2>0, <2>2, <3>1, Zenon
    <3>3. dir[y][plan[sweep]].summary # 0 =>
            child'[s][dir[y][plan[sweep]].summary].data
              = child[s][dir[y][plan[sweep]].summary].data
      BY <1>1, <3>1, ResultsKept, Zenon
    <3> QED
      BY <1>2, <2>0, <3>2, <3>3, ResultKept, Zenon
  <2> QED
    BY <2>1, <2>2, Zenon
<1> QED
  BY <1>3, <1>12, <1>13, <1>14, <1>15, Zenon DEF SymbolSound

\* Only the end of an orchestrator that was killed counts as a crash.
LEMMA CrashCounts ==
    ASSUME ConstantsOK, TypeOK, Next
    PROVE  IF Crash THEN crashes' # crashes /\ crashes' # 0 ELSE crashes' = crashes
<1>1. CASE Crash
  BY <1>1 DEF Crash, TypeOK, ConstantsOK
<1>2. CASE ~Crash
  <2>1. crashes' = crashes
    BY <1>2, ChildChange, Zenon DEF Next, Publish, Start, Interrupt, Abandon, MainStep, Cancel, Leave,
       WriteComparison, WriteTrades, WriteExperiment, TaskStep, Prepare, Spawn, Reap, Raise,
       Harvest
  <2> QED
    BY <1>2, <2>1, Zenon
<1> QED
  BY <1>1, <1>2, Zenon

\* Every step keeps a symbol sound, until an orchestrator is killed.
LEMMA SymbolStep ==
    ASSUME ConstantsOK, SweepInv, Next, CleanSound, crashes' = crashes, NEW t \in Symbols
    PROVE  SymbolSound(t)'
<1>0. TypeOK /\ Planned /\ SymbolSound(t) /\ TaskSound(t)
  BY Zenon DEF SweepInv, CleanSound
<1>1. CASE Start
  BY <1>0, <1>1, StartSymbol, Zenon
<1>2. CASE Interrupt
  BY <1>0, <1>2, InterruptSymbol, Zenon
<1>3. CASE Crash
  BY <1>0, <1>3, CrashCounts, Zenon
<1>4. CASE Publish \/ Abandon \/ MainStep
  <2>1. UNCHANGED <<plan, sweep, seen, child, outcome, dir>>
    BY <1>4, Zenon DEF Publish, Abandon, MainStep, Cancel, Leave, WriteComparison, WriteTrades,
       WriteExperiment
  <2>2. (task'[t] = "prepared" => task[t] = "prepared") /\ (task[t] = "child" => task'[t] = "child")
    BY <1>4, Zenon DEF Publish, Abandon, MainStep, Cancel, Leave, WriteComparison, WriteTrades,
       WriteExperiment
  <2> QED
    BY <1>0, <2>1, <2>2, SymbolFrame, Zenon
<1>5. ASSUME NEW s \in Symbols, TaskStep(s) PROVE SymbolSound(t)'
  <2>1. UNCHANGED <<plan, sweep>>
    BY <1>5, Zenon DEF TaskStep, Prepare, Spawn, Reap, Raise, Harvest
  <2>2. CASE t # s
    <3>1. \A x \in SpecsOf(t) : x \in Specs /\ x \notin SpecsOf(s)
      BY <2>2, Zenon DEF SpecsOf
    <3>2. \A x \in SpecsOf(t) : outcome'[x] = outcome[x] /\ dir'[x] = dir[x]
      BY <1>5, <3>1 DEF TaskStep, Prepare, Spawn, Reap, Raise, Harvest, Open
    <3>3. task'[t] = task[t] /\ child'[t] = child[t] /\ seen'[t] = seen[t]
      BY <1>0, <1>5, <2>2, ZenonT(40) DEF TaskStep, Prepare, Spawn, Reap, Raise, Harvest, TypeOK
    <3> QED
      BY <1>0, <2>1, <3>2, <3>3, SymbolFrame, Zenon
  <2>3. CASE t = s /\ (Raise(s) \/ Harvest(s))
    <3>1. /\ UNCHANGED <<child, seen, outcome, dir>>
          /\ task[t] # "child" /\ task'[t] # "prepared"
      BY <1>0, <2>3, Zenon DEF Raise, Harvest, TypeOK
    <3> QED
      BY <1>0, <2>1, <3>1, SymbolFrame, Zenon
  <2> QED
    BY <1>0, <1>5, <2>2, <2>3, PrepareSymbol, SpawnSymbol, ReapSymbol, Zenon DEF TaskStep
<1>6. ASSUME NEW s \in Symbols, NEW k \in Sweeps, ChildStep(s, k) PROVE SymbolSound(t)'
  <2>1. CASE t = s
    BY <1>0, <1>6, <2>1, LoadSymbol, SaveSymbol, SkipSymbol, ExitSymbol, Zenon DEF ChildStep
  <2>2. CASE t # s
    <3>1. UNCHANGED <<plan, sweep, task, seen, outcome>>
      BY <1>0, <1>6, ChildChange, Zenon
    <3>2. child'[t] = child[t]
      BY <1>0, <1>6, <2>2, Zenon DEF ChildStep, ChildLoad, ChildSave, ChildSkip, ChildExit, Child, TypeOK
    <3>3. \A x \in SpecsOf(t) : dir'[x] = dir[x]
      <4>1. CASE ~ChildSave(s, k)
        BY <1>6, <4>1, Zenon DEF ChildStep, ChildLoad, ChildSkip, ChildExit
      <4>2. CASE ChildSave(s, k)
        <5>1. Alive(s, k) /\ ChildSound(s, k)
          BY <1>0, <1>6, <4>2, Zenon DEF Alive, ChildSave, CleanSound, SymbolSound
        <5>2. Now(s, k) \in Open(s)
          BY <1>0, <4>2, <5>1, NowIsLeft, Zenon DEF ChildSound, ChildSave
        <5>3. \A x \in SpecsOf(t) : x \in Specs /\ x # Now(s, k)
          BY <2>2, <5>2, Zenon DEF Open, SpecsOf
        <5> QED
          BY <1>0, <4>2, <5>3, Zenon DEF ChildSave, TypeOK
      <4> QED
        BY <4>1, <4>2, Zenon
    <3> QED
      BY <1>0, <3>1, <3>2, <3>3, SymbolFrame, ZenonT(40)
  <2> QED
    BY <2>1, <2>2, Zenon
<1> QED
  BY <1>1, <1>2, <1>3, <1>4, <1>5, <1>6, Zenon DEF Next

\* What all_trades.csv is merged from is what the report counts: a run that
\* counts has a summary, and with it its trades.
LEMMA MergedStep ==
    ASSUME ConstantsOK, SweepInv, Next, CleanSound, crashes' = crashes, phase' = "trades"
    PROVE  (merged = Counted)'
<1>0. TypeOK /\ Planned /\ \A s \in Symbols : SymbolSound(s) /\ TaskSound(s)
  BY Zenon DEF SweepInv, CleanSound
<1>1. CASE phase = "trades"
  <2>1. UNCHANGED <<rows, merged>>
    BY <1>0, <1>1, ChildChange, Zenon DEF Next, Publish, Start, Interrupt, Abandon, Crash, MainStep,
       Cancel, Leave, WriteComparison, WriteTrades, WriteExperiment, TaskStep, Prepare, Spawn,
       Reap, Raise, Harvest
  <2> QED
    BY <1>1, <2>1, Zenon DEF Counted, CleanSound
<1>2. CASE phase # "trades"
  <2>1. WriteTrades
    BY <1>0, <1>2, ChildChange, Zenon DEF Next, Publish, Start, Interrupt, Abandon, Crash, MainStep,
       Cancel, Leave, WriteComparison, WriteExperiment, TaskStep, Prepare, Spawn, Reap, Raise,
       Harvest
  <2>2. plan[sweep] \in Gens
    BY <1>0, <2>1 DEF WriteTrades, Planned, TypeOK, Sweeps
  <2>3. ASSUME NEW x \in Counted PROVE dir[x][plan[sweep]].data # 0
    <3>1. x \in Specs /\ rows[x] \in {"ok", "resumed"}
      BY Zenon DEF Counted
    <3>2. SymbolOf[x] \in Symbols /\ x \in SpecsOf(SymbolOf[x])
      BY <3>1, ZenonT(40) DEF ConstantsOK, SpecsOf
    <3>3. outcome[x] \in {"ok", "resumed"}
      BY <1>0, <3>1, <3>2 DEF TaskSound
    <3>4. DirSound(x) /\ ResultSound(x)
      BY <1>0, <3>2, Zenon DEF SymbolSound
    <3> QED
      BY <2>2, <3>3, <3>4, Zenon DEF DirSound, ResultSound
  <2> QED
    BY <2>1, <2>3, Zenon DEF WriteTrades, Counted
<1> QED
  BY <1>1, <1>2, Zenon

\* The initial state: nothing was started, all directories are empty.
LEMMA InitSweep ==
    ASSUME ConstantsOK, Init
    PROVE  SweepInv
<1>2. NoChild \in ChildStates /\ NoChild.st = "none" /\ NoChild.data = 0
  BY DEF NoChild, ChildStates, ConstantsOK
<1>3. Empty \in DirStates /\ Empty.summary = 0
  BY DEF Empty, DirStates, ConstantsOK
<1>4. TypeOK
  <2>1. 1 \in Gens /\ 0 \in 0 .. MaxGen /\ 0 \in 0 .. MaxSweeps /\ 0 \in 0 .. MaxFaults
        /\ 0 \in 0 .. MaxCrashes
    BY DEF Gens, ConstantsOK
  <2>2. child \in [Symbols -> [Sweeps -> ChildStates]] /\ dir \in [Specs -> [Gens -> DirStates]]
    BY <1>2, <1>3, Zenon DEF Init
  <2> QED
    BY <2>1, <2>2, Zenon DEF Init, TypeOK
<1>5. Planned
  BY DEF Init, Planned, Sweeps
<1>6. \A s \in Symbols, k \in Sweeps : child[s][k].st = "none" /\ child[s][k].data = 0
  BY <1>2, Zenon DEF Init
<1>7. \A s \in Symbols : TaskSound(s)
  BY <1>6 DEF Init, TaskSound, SpecsOf, Alive
<1>8. ASSUME NEW s \in Symbols PROVE SymbolSound(s)
  <2>1. \A k \in Sweeps : ChildSound(s, k)
    BY <1>6, Zenon DEF ChildSound, Alive
  <2>2. PreparedSound(s)
    BY Zenon DEF Init, PreparedSound
  <2>3. ASSUME NEW x \in SpecsOf(s) PROVE DirSound(x) /\ ResultSound(x)
    <3>1. x \in Specs
      BY Zenon DEF SpecsOf
    <3>2. outcome[x] = "none" /\ \A g \in Gens : dir[x][g].summary = 0
      BY <1>3, <3>1, Zenon DEF Init
    <3> QED
      BY <3>2, Zenon DEF DirSound, ResultSound
  <2> QED
    BY <2>1, <2>2, <2>3, ZenonT(40) DEF SymbolSound
<1>9. CleanSound
  BY <1>8, Zenon DEF CleanSound, Init
<1> QED
  BY <1>4, <1>5, <1>7, <1>9, Zenon DEF SweepInv

\* Every step keeps the invariant.
LEMMA SweepStep ==
    ASSUME ConstantsOK, SweepInv, [Next]_vars
    PROVE  SweepInv'
<1>0. TypeOK /\ Planned /\ \A s \in Symbols : TaskSound(s)
  BY Zenon DEF SweepInv
<1>1. CASE Next
  <2>1. TypeOK'
    BY <1>0, <1>1, MainTypes, TaskTypes, ChildTypes, Zenon DEF Next
  <2>2. Planned'
    BY <1>0, <1>1, PlannedStep, Zenon
  <2>3. \A t \in Symbols : TaskSound(t)'
    BY <1>0, <1>1, <2>1, MainTask, TaskTask, ChildTask, Zenon DEF Next
  <2>4. ASSUME crashes' = 0 PROVE CleanSound'
    <3>1. crashes' = crashes
      BY <1>0, <1>1, <2>4, CrashCounts, Zenon
    <3>2. CleanSound
      BY <2>4, <3>1, Zenon DEF SweepInv
    <3> QED
      BY <1>1, <3>1, <3>2, SymbolStep, MergedStep, Zenon DEF CleanSound
  <2> QED
    BY <2>1, <2>2, <2>3, <2>4, Zenon DEF SweepInv
<1>2. CASE UNCHANGED vars
  <2>1. TypeOK' /\ Planned'
    BY <1>0, <1>2, ZenonT(40) DEF vars, TypeOK, Planned
  <2>2. \A s \in Symbols : TaskSound(s)'
    <3>1. UNCHANGED <<gen, phase, sweep, task, seen, outcome, rows, child>>
      BY <1>2, Zenon DEF vars
    <3> QED
      BY <1>0, <3>1 DEF TaskSound, SpecsOf, Alive
  <2>3. ASSUME crashes' = 0 PROVE CleanSound'
    <3>1. CleanSound
      BY <1>2, <2>3, Zenon DEF vars, SweepInv
    <3>2. \A s \in Symbols : SymbolSound(s)'
      BY <1>2, <3>1, SymbolFrame, Zenon DEF vars, CleanSound
    <3> QED
      BY <1>2, <3>1, <3>2, Zenon DEF vars, CleanSound, Counted
  <2> QED
    BY <2>1, <2>2, <2>3, Zenon DEF SweepInv
<1> QED
  BY <1>1, <1>2, Zenon

\* The invariant of the sweep holds in every reachable state, for any symbols,
\* runs, workers, sweeps and faults.
THEOREM SweepInvariant ==
    ASSUME ConstantsOK
    PROVE  Spec => []SweepInv
<1>1. Init => SweepInv
  BY InitSweep, Zenon
<1>2. SweepInv /\ [Next]_vars => SweepInv'
  BY SweepStep, Zenon
<1> QED
  BY <1>1, <1>2, PTL DEF Spec

\* As long as no orchestrator was killed, all_trades.csv is merged from exactly
\* the runs the report counts, and the trades and the summary of each of them
\* are of one child (save_results, _resume_summary, _fresh_run_summary).
THEOREM ReportIsWhole ==
    ASSUME ConstantsOK
    PROVE  Spec => []CountedIsWhole
<1>1. ASSUME SweepInv PROVE CountedIsWhole
  <2> SUFFICES ASSUME phase = "trades", crashes = 0
               PROVE  /\ merged = Counted
                      /\ \A x \in Counted :
                           dir[x][plan[sweep]].data = dir[x][plan[sweep]].summary
    BY Zenon DEF CountedIsWhole
  <2>1. merged = Counted /\ \A s \in Symbols : SymbolSound(s) /\ TaskSound(s)
    BY <1>1, Zenon DEF SweepInv, CleanSound
  <2>2. plan[sweep] \in Gens
    BY <1>1 DEF SweepInv, Planned, TypeOK, Sweeps
  <2>3. ASSUME NEW x \in Counted
        PROVE  dir[x][plan[sweep]].data = dir[x][plan[sweep]].summary
    <3>1. x \in Specs /\ rows[x] \in {"ok", "resumed"}
      BY Zenon DEF Counted
    <3>2. SymbolOf[x] \in Symbols /\ x \in SpecsOf(SymbolOf[x])
      BY <3>1, Zenon DEF ConstantsOK, SpecsOf
    <3>3. outcome[x] \in {"ok", "resumed"}
      BY <2>1, <3>1, <3>2, Zenon DEF TaskSound
    <3>4. DirSound(x) /\ ResultSound(x)
      BY <2>1, <3>2, ZenonT(40) DEF SymbolSound
    <3> QED
      BY <2>2, <3>3, <3>4, Zenon DEF DirSound, ResultSound
  <2> QED
    BY <2>1, <2>3, Zenon
<1> QED
  BY <1>1, SweepInvariant, PTL

\* As long as no orchestrator was killed, what resume takes over was computed
\* from the generation the task fingerprinted, however code and archive moved
\* while the earlier sweep ran (_resume_summary).
THEOREM ResumeIsCurrent ==
    ASSUME ConstantsOK
    PROVE  Spec => []ResumedIsCurrent
<1>1. ASSUME SweepInv PROVE ResumedIsCurrent
  <2> SUFFICES ASSUME NEW x \in Specs, outcome[x] = "resumed", crashes = 0
               PROVE  child[SymbolOf[x]][dir[x][plan[sweep]].summary].data = seen[SymbolOf[x]]
    BY Zenon DEF ResumedIsCurrent
  <2>1. SymbolOf[x] \in Symbols /\ x \in SpecsOf(SymbolOf[x])
    BY Zenon DEF ConstantsOK, SpecsOf
  <2>2. ResultSound(x)
    BY <1>1, <2>1, Zenon DEF SweepInv, CleanSound, SymbolSound
  <2> QED
    BY <2>2, Zenon DEF ResultSound
<1> QED
  BY <1>1, SweepInvariant, PTL

\* An orchestrator that handled Ctrl+C leaves none of its children running,
\* whatever crashed before it (terminate_all, add, pool.shutdown(wait=True)).
THEOREM NoChildIsLeft ==
    ASSUME ConstantsOK
    PROVE  Spec => InterruptLeavesNoChild
<1> DEFINE Left == phase = "draining" /\ phase' = "idle" /\ crashes' = crashes
                     => \A s \in DOMAIN child : ~Alive(s, sweep)
<1>1. ASSUME SweepInv, [Next]_vars PROVE Left
  <2> SUFFICES ASSUME phase = "draining", phase' = "idle", crashes' = crashes,
                      NEW s \in DOMAIN child, Alive(s, sweep)
               PROVE  FALSE
    OBVIOUS
  <2>0. TypeOK /\ s \in Symbols /\ TaskSound(s)
    BY <1>1, Zenon DEF SweepInv, TypeOK
  <2>1. Leave
    <3>1. Next
      BY <1>1, Zenon DEF vars
    <3>2. ~Crash
      BY <2>0, <3>1, CrashCounts, Zenon
    <3> QED
      BY <2>0, <3>1, <3>2, ChildChange, Zenon DEF Next, Publish, Start, Interrupt, Abandon, MainStep,
         Cancel, WriteComparison, WriteTrades, WriteExperiment, TaskStep, Prepare, Spawn, Reap,
         Raise, Harvest
  <2>2. InTask = {}
    BY <2>1, ZenonT(40) DEF Leave, Drained
  <2>3. task[s] = "child"
    BY <2>0, Zenon DEF TaskSound
  <2> QED
    BY <2>0, <2>2, <2>3, Zenon DEF InTask
<1>2. SweepInv /\ [Next]_vars => [Left]_vars
  BY <1>1, Zenon
<1> QED
  BY <1>2, SweepInvariant, PTL DEF Spec, InterruptLeavesNoChild
=============================================================================
