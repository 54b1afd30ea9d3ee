---------------------------- MODULE EventJournal ----------------------------
(***************************************************************************)
(* DurableExecutionEventJournal as the live processes run it (mirror_async *)
(* is True): append writes a local JSONL file under _lock, the mirror task *)
(* copies the pending prefix to PostgreSQL and then rewrites the file with *)
(* the rest.  File operations run in threads (asyncio.to_thread): when the *)
(* task that waits for one is cancelled, the thread goes on by itself.     *)
(* An event is its run, sequence and event_id; the other fields, redaction *)
(* and the idempotency keys of snapshot events are left out.               *)
(***************************************************************************)
EXTENDS Naturals, Sequences, FiniteSets, FiniteSetsExt, Functions

CONSTANTS
  MaxEvents, MaxRuns,   \* events appended, processes started
  MaxErrors,            \* failing writes
  MaxOutages,           \* transactions that fail
  MaxCrashes, MaxStops,
  StopWhileBusy         \* whether stop() may cancel a file operation

ConstantsOK ==
  /\ {MaxEvents, MaxRuns, MaxErrors, MaxOutages, MaxCrashes, MaxStops} \subseteq Nat
  /\ StopWhileBusy \in BOOLEAN

VARIABLES
  file, torn,            \* the records of the file; whether its last line is cut
  db,                    \* execution_event_journal
  phase, run, ids,       \* life of the process; runs and event ids used so far
  loaded, nextSeq, pending, lock,
  app,                   \* the event append() is writing
  mir, batch, wake,      \* mirror task
  orphans,               \* threads nobody waits for
  acked,                 \* the events append() returned
  errors, outages, crashes, stops

disk == <<file, torn>>
mem == <<loaded, nextSeq, pending>>
mirror == <<mir, batch, wake>>
budget == <<errors, outages, crashes, stops>>
vars == <<disk, db, phase, run, ids, mem, lock, app, mirror, orphans, acked, budget>>

Event == [run : 1..MaxRuns, seq : 1..MaxEvents, id : 1..MaxEvents]
None == [run |-> 0, seq |-> 0, id |-> 0]

TypeOK ==
  /\ file \in Seq(Event) /\ pending \in Seq(Event) /\ batch \in Seq(Event)
  /\ db \subseteq Event /\ acked \subseteq Event /\ app \in Event \cup {None}
  /\ phase \in {"down", "booting", "starting", "up", "stopping", "closing"}
  /\ mir \in {"idle", "persist", "compact", "replace", "off"}
  /\ lock \in {"none", "append", "mirror"}
  /\ nextSeq \in 0..MaxEvents /\ {torn, loaded, wake} \subseteq BOOLEAN

Init ==
  /\ file = <<>> /\ torn = FALSE /\ db = {} /\ phase = "down" /\ run = 0 /\ ids = 0
  /\ loaded = FALSE /\ nextSeq = 0 /\ pending = <<>> /\ lock = "none" /\ app = None
  /\ mir = "off" /\ batch = <<>> /\ wake = FALSE /\ orphans = {} /\ acked = {}
  /\ errors = 0 /\ outages = 0 /\ crashes = 0 /\ stops = 0

-----------------------------------------------------------------------------
(* The file and the table *)

\* _read_events_sync: complete lines, contiguous sequences for every run.
Readable ==
  /\ ~torn
  /\ \A i, j \in DOMAIN file :
       i < j /\ file[i].run = file[j].run
         /\ (\A k \in (i + 1)..(j - 1) : file[k].run # file[i].run)
       => file[j].seq = file[i].seq + 1

CanLoad == loaded \/ Readable
Sequences(f) == {f[i].seq : i \in {i \in DOMAIN f : f[i].run = run}}

\* _ensure_local_loaded_locked
LoadedSeq == IF loaded THEN nextSeq ELSE Max(Sequences(file) \cup {0})
LoadedPending == IF loaded THEN pending ELSE file

\* The comparison with pending_events[:len(batch)].
IsPrefix(s, t) == Len(s) <= Len(t) /\ s = SubSeq(t, 1, Len(s))

\* insert_execution_events: a known event_id is skipped, a second event with
\* the same run and sequence violates the unique constraint.
Accepts(events) ==
  \A e \in Range(events), d \in db : e.run = d.run /\ e.seq = d.seq => e.id = d.id

\* Mutant: the batch is stored up to its last event.
Stored_last(events) == {events[Len(events)]}

Stored(events) == Range(events)

-----------------------------------------------------------------------------
(* append *)

Running == phase \in {"booting", "up", "stopping"}

NextSequence(n) == n + 1

StartAppend ==
  /\ Running /\ lock = "none" /\ CanLoad /\ ids < MaxEvents
  /\ ids' = ids + 1 /\ lock' = "append" /\ loaded' = TRUE
  /\ nextSeq' = LoadedSeq /\ pending' = LoadedPending
  /\ app' = [run |-> run, seq |-> NextSequence(LoadedSeq), id |-> ids + 1]
  /\ UNCHANGED <<disk, db, phase, run, mirror, orphans, acked, budget>>

\* Mutant: the mirror task is not woken.
Written_silent ==
  /\ app # None
  /\ file' = Append(file, app) /\ nextSeq' = app.seq /\ pending' = Append(pending, app)
  /\ acked' = acked \cup {app} /\ app' = None /\ lock' = "none"
  /\ UNCHANGED <<torn, db, phase, run, ids, loaded, mirror, orphans, budget>>

Written ==
  /\ app # None
  /\ file' = Append(file, app) /\ nextSeq' = app.seq /\ pending' = Append(pending, app)
  /\ acked' = acked \cup {app} /\ wake' = TRUE /\ app' = None /\ lock' = "none"
  /\ UNCHANGED <<torn, db, phase, run, ids, loaded, mir, batch, orphans, budget>>

\* What a write leaves behind when it fails or the process dies in it.
Partly(e) ==
  \/ UNCHANGED disk
  \/ torn' = TRUE /\ UNCHANGED file
  \/ file' = Append(file, e) /\ UNCHANGED torn

\* An OSError: the next operation must parse the file again.
WriteError ==
  /\ app # None /\ errors < MaxErrors /\ errors' = errors + 1
  /\ Partly(app) /\ loaded' = FALSE /\ app' = None /\ lock' = "none"
  /\ UNCHANGED <<db, phase, run, ids, nextSeq, pending, mirror, orphans, acked, outages,
                 crashes, stops>>

-----------------------------------------------------------------------------
(* flush, by the mirror task, by start() and by close() *)

Mirroring == phase \in {"starting", "up", "closing"}

\* An unreadable file ends the mirror task, and with it the process.
MirrorFails == phase' = IF phase = "up" THEN "stopping" ELSE "down"

Take ==
  /\ Mirroring /\ mir = "idle" /\ wake /\ lock = "none" /\ wake' = FALSE
  /\ \/ /\ CanLoad /\ loaded' = TRUE
        /\ nextSeq' = LoadedSeq /\ pending' = LoadedPending
        /\ batch' = LoadedPending
        /\ mir' = IF LoadedPending = <<>> THEN "idle" ELSE "persist"
        /\ phase' = IF LoadedPending # <<>> THEN phase
                    ELSE IF phase = "closing" THEN "down" ELSE "up"
     \/ ~CanLoad /\ mir' = "off" /\ MirrorFails /\ UNCHANGED <<mem, batch>>
  /\ UNCHANGED <<disk, db, run, ids, lock, app, orphans, acked, budget>>

\* _persist_events; after an error the loop sleeps and tries again, start()
\* and close() give up.
Persist ==
  /\ Mirroring /\ mir = "persist"
  /\ \/ /\ Accepts(batch) /\ db' = db \cup Stored(batch) /\ mir' = "compact"
        /\ UNCHANGED <<wake, phase, outages>>
     \/ /\ \/ ~Accepts(batch) /\ UNCHANGED outages
           \/ outages < MaxOutages /\ outages' = outages + 1
        /\ UNCHANGED db
        /\ IF phase = "up" THEN mir' = "idle" /\ wake' = TRUE /\ UNCHANGED phase
           ELSE mir' = "off" /\ phase' = "down" /\ UNCHANGED wake
  /\ UNCHANGED <<disk, run, ids, mem, lock, app, batch, orphans, acked, errors, crashes,
                 stops>>

Rest == SubSeq(pending, Len(batch) + 1, Len(pending))

\* The second part of flush: the batch must still be the prefix.
StartReplace ==
  /\ Mirroring /\ mir = "compact" /\ lock = "none"
  /\ \/ /\ CanLoad /\ IsPrefix(batch, LoadedPending)
        /\ loaded' = TRUE /\ nextSeq' = LoadedSeq /\ pending' = LoadedPending
        /\ lock' = "mirror" /\ mir' = "replace"
        /\ UNCHANGED phase
     \/ /\ ~(CanLoad /\ IsPrefix(batch, LoadedPending))
        /\ mir' = "off" /\ MirrorFails /\ UNCHANGED <<mem, lock>>
  /\ UNCHANGED <<disk, db, run, ids, app, batch, wake, orphans, acked, budget>>

\* _compact_local_sync: write a new file, fsync, os.replace.
Replaced ==
  /\ Mirroring /\ mir = "replace"
  /\ file' = Rest /\ torn' = FALSE /\ pending' = Rest
  /\ lock' = "none" /\ mir' = "idle"
  /\ phase' = IF phase = "closing" THEN "down" ELSE "up"
  /\ UNCHANGED <<db, run, ids, loaded, nextSeq, app, batch, wake, orphans, acked, budget>>

-----------------------------------------------------------------------------
(* The process *)

Boot ==
  /\ phase = "down" /\ orphans = {} /\ run < MaxRuns
  /\ run' = run + 1 /\ phase' = "booting"
  /\ loaded' = FALSE /\ nextSeq' = 0 /\ pending' = <<>> /\ lock' = "none" /\ app' = None
  /\ mir' = "off" /\ batch' = <<>> /\ wake' = FALSE
  /\ UNCHANGED <<disk, db, ids, orphans, acked, budget>>

\* start(), once the database and the account lease are there: the whole file
\* is replayed before anything else runs.
Start ==
  /\ phase = "booting" /\ lock = "none"
  /\ phase' = "starting" /\ mir' = "idle" /\ wake' = TRUE
  /\ UNCHANGED <<disk, db, run, ids, mem, lock, app, batch, orphans, acked, budget>>

\* SpikeLiveProcess.stop cancels its tasks: an append or a compaction that
\* is under way goes on as a thread, without its lock.
Stop ==
  /\ phase = "up" /\ phase' = "stopping" /\ mir' = "off"
  /\ stops < MaxStops /\ stops' = stops + 1
  /\ StopWhileBusy \/ (app = None /\ mir # "replace")
  /\ orphans' = orphans
       \cup (IF app = None THEN {} ELSE {[kind |-> "write", records |-> <<app>>]})
       \cup (IF mir # "replace" THEN {} ELSE {[kind |-> "replace", records |-> Rest]})
  /\ loaded' = (loaded /\ app = None) /\ app' = None /\ lock' = "none"
  /\ UNCHANGED <<disk, db, run, ids, nextSeq, pending, batch, wake, acked, errors, outages,
                 crashes>>

Orphan(o) ==
  /\ o \in orphans /\ orphans' = orphans \ {o}
  /\ \/ o.kind = "write" /\ file' = file \o o.records /\ UNCHANGED torn
     \/ o.kind = "replace" /\ file' = o.records /\ torn' = FALSE
  /\ UNCHANGED <<db, phase, run, ids, mem, lock, app, mirror, acked, budget>>

\* close(): a last flush; then the process ends, its threads first.
Close ==
  /\ phase = "stopping" /\ lock = "none"
  /\ phase' = "closing" /\ mir' = "idle" /\ wake' = TRUE
  /\ UNCHANGED <<disk, db, run, ids, mem, lock, app, batch, orphans, acked, budget>>

Crash ==
  /\ phase # "down" /\ crashes < MaxCrashes /\ crashes' = crashes + 1
  /\ phase' = "down" /\ app' = None /\ orphans' = {} /\ mir' = "off" /\ lock' = "none"
  /\ IF app = None THEN UNCHANGED disk ELSE Partly(app)
  /\ UNCHANGED <<db, run, ids, mem, batch, wake, acked, errors, outages, stops>>

Mirror == Take \/ Persist \/ StartReplace \/ Replaced
Life == Boot \/ Start \/ Close

Next ==
  \/ StartAppend \/ Written \/ WriteError
  \/ Mirror \/ Life \/ Stop \/ Crash
  \/ \E o \in orphans : Orphan(o)

Spec == Init /\ [][Next]_vars

\* The tasks run, threads end, and the supervisor starts the process again.
Fairness ==
  /\ WF_vars(Written) /\ WF_vars(Mirror) /\ WF_vars(Life)
  /\ WF_vars(\E o \in orphans : Orphan(o))

-----------------------------------------------------------------------------
(* Properties *)

OnDisk == Range(file) \cup db

\* append() returns only what survives a crash: an event it returned is in
\* the file or in PostgreSQL from then on, through every compaction.
NoEventLost == acked \subseteq OnDisk

\* The mirror copies prefixes: whatever PostgreSQL has of a run, it has
\* everything before it.
DbHasNoGaps ==
  \A e \in db : \A n \in 1..(e.seq - 1) : \E d \in db : d.run = e.run /\ d.seq = n

\* A close that gets through has mirrored every event of this and of earlier
\* runs, also those appended while the tasks were being cancelled.
CleanCloseMirrorsAll ==
  phase = "closing" /\ mir \in {"compact", "replace"} => acked \subseteq db

\* What DurableExecutionEventJournal promises its callers: what append()
\* returned is durable, flush() mirrors every run in order, and close() leaves
\* nothing behind.
JournalKeepsEvents == NoEventLost /\ DbHasNoGaps /\ CleanCloseMirrorsAll

\* Why they hold while no file operation outlives its task, as an inductive
\* invariant: memory mirrors the file, the batch is a prefix of the file that is
\* dropped only once the table has it, and every event is numbered after
\* events that are in the table or before it in the file.
Numbered(e) == e.seq <= e.id /\ e.id <= ids

Follows(e, known) == \A n \in 1..(e.seq - 1) : \E d \in known : d.run = e.run /\ d.seq = n

Tasks ==
  /\ run \in 0..MaxRuns /\ ids \in 0..MaxEvents /\ orphans = {}
  /\ phase # "down" => run > 0
  /\ app # None <=> lock = "append"
  /\ app # None => Running /\ loaded /\ nextSeq < ids
                     /\ app = [run |-> run, seq |-> nextSeq + 1, id |-> ids]
  /\ mir = "replace" <=> lock = "mirror"
  /\ mir = "replace" => loaded
  /\ mir \in {"persist", "compact", "replace"} =>
       /\ Mirroring /\ IsPrefix(batch, file)
       /\ phase = "closing" => batch = file
  /\ mir \in {"compact", "replace"} => Range(batch) \subseteq db

Contents ==
  /\ loaded /\ phase # "down" => pending = file
  /\ loaded => /\ nextSeq <= ids
               /\ \A n \in 1..nextSeq : \E d \in OnDisk : d.run = run /\ d.seq = n
  /\ \A e \in OnDisk : Numbered(e)
  /\ \A i \in DOMAIN file : Follows(file[i], db \cup {file[j] : j \in 1..(i - 1)})

JournalInv == Tasks /\ Contents /\ NoEventLost /\ DbHasNoGaps

\* Every event that append() returned reaches PostgreSQL, through outages,
\* stops and crashes; only a file whose last line a crash has cut is left to
\* the operator.
EventIsMirrored ==
  \A i \in 1..MaxEvents :
    (\E e \in acked : e.id = i) ~> ((\E d \in db : d.id = i) \/ torn)

=============================================================================
