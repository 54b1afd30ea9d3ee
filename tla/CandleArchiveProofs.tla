------------------------ MODULE CandleArchiveProofs ------------------------
(***************************************************************************)
(* Safety of CandleArchive for a month of any length, any content of       *)
(* Binance's monthly file and any number of failures and kills.  With one  *)
(* command at a time, or any number of them on the 1s timeframe, a         *)
(* complete index is served and the readers lose no day.  With any number  *)
(* of commands on any timeframe, a day is lost from the disk only when     *)
(* another command has removed the file that was to hold it.               *)
(*                                                                         *)
(* Every action is shown to be StepSound for the process that takes it;    *)
(* OthersSound carries the invariant of the other processes over.          *)
(***************************************************************************)
EXTENDS CandleArchive, TLAPS

\* A process that only goes on to another step has a state of its type.
LEMMA GotoTyped ==
    ASSUME NEW p \in Procs, proc \in [Procs -> ProcStates], NEW c \in PCs
    PROVE  /\ Goto(p, c) \in ProcStates
           /\ Goto(p, c).pc = c
           /\ Goto(p, c).tool = proc[p].tool
           /\ Goto(p, c).layout = proc[p].layout
           /\ Goto(p, c).cover = proc[p].cover
           /\ Goto(p, c).drop = proc[p].drop
           /\ Goto(p, c).removed = proc[p].removed
           /\ Goto(p, c).indexed = proc[p].indexed
           /\ Goto(p, c).known = proc[p].known
           /\ Goto(p, c).todo = proc[p].todo
           /\ Goto(p, c).changed = proc[p].changed
           /\ Goto(p, c).retired = proc[p].retired
           /\ Goto(p, c).rec = proc[p].rec
  BY DEF Goto, ProcStates

\* What the steps write into a process's memory keeps it of its type.
LEMMA MemoryTyped ==
    ASSUME NEW s \in ProcStates, NEW a \in SUBSET Parts, NEW b \in SUBSET Parts,
           NEW c \in SUBSET Parts, NEW d \in BOOLEAN
    PROVE  /\ [s EXCEPT !.layout = a] \in ProcStates
           /\ [s EXCEPT !.cover = a, !.drop = b] \in ProcStates
           /\ [s EXCEPT !.drop = a, !.removed = d] \in ProcStates
           /\ [s EXCEPT !.indexed = d, !.known = a, !.todo = b] \in ProcStates
           /\ [s EXCEPT !.todo = a] \in ProcStates
           /\ [s EXCEPT !.changed = a, !.retired = b, !.known = c] \in ProcStates
           /\ [s EXCEPT !.retired = a] \in ProcStates
           /\ [s EXCEPT !.rec = a] \in ProcStates
           /\ [s EXCEPT !.rec = a, !.removed = d] \in ProcStates
<1>1. /\ [s EXCEPT !.layout = a] \in ProcStates
      /\ [s EXCEPT !.todo = a] \in ProcStates
      /\ [s EXCEPT !.retired = a] \in ProcStates
      /\ [s EXCEPT !.rec = a] \in ProcStates
  BY DEF ProcStates
<1>2. /\ [s EXCEPT !.cover = a, !.drop = b] \in ProcStates
      /\ [s EXCEPT !.drop = a, !.removed = d] \in ProcStates
  BY Zenon DEF ProcStates
<1>3. /\ [s EXCEPT !.indexed = d, !.known = a, !.todo = b] \in ProcStates
      /\ [s EXCEPT !.rec = a, !.removed = d] \in ProcStates
  BY Zenon DEF ProcStates
<1>4. [s EXCEPT !.changed = a, !.retired = b, !.known = c] \in ProcStates
  BY Zenon DEF ProcStates
<1> QED
  BY <1>1, <1>2, <1>3, <1>4

\* The memory of a command that has just started or ended.
LEMMA IdleTyped == Idle \in ProcStates
  BY DEF Idle, ProcStates, PCs

\* The steps of a command write values of the variables' types.
LEMMA WorkTyped ==
    ASSUME ConstantsOK, TypeOK, NEW p \in Procs, Work(p)
    PROVE  TypeOK'
<1> USE DEF Step, Exit
<1>0. /\ proc[p] \in ProcStates /\ proc \in [Procs -> ProcStates]
      /\ files \subseteq Parts /\ index.parts \subseteq Parts /\ index.present \in BOOLEAN
      /\ index \in [present : BOOLEAN, parts : SUBSET Parts]
      /\ indexLock \in LockStates /\ monthLock \in LockStates
      /\ {} \in LockStates /\ {p} \in LockStates
  BY DEF TypeOK, LockStates
<1>f. /\ proc[p].pc \in PCs /\ proc[p].tool \in {"none", "download", "index"}
      /\ proc[p].todo \subseteq Parts /\ proc[p].changed \subseteq Parts
      /\ proc[p].retired \subseteq Parts /\ proc[p].known \subseteq Parts
      /\ proc[p].drop \subseteq Parts /\ proc[p].rec \subseteq Parts
  BY <1>0 DEF ProcStates
<1>g. \A c \in PCs : Goto(p, c) \in ProcStates
  BY <1>0, GotoTyped
<1>1. ASSUME proc' \in [Procs -> ProcStates], files' \subseteq Parts,
             index' \in [present : BOOLEAN, parts : SUBSET Parts],
             metaOk' \in BOOLEAN, dirs' \in BOOLEAN, indexLock' \in LockStates,
             monthLock' \in LockStates, UNCHANGED <<world, faults>>
      PROVE  TypeOK'
  BY <1>1 DEF TypeOK, world
<1>2. ASSUME NEW t \in ProcStates, proc' = [proc EXCEPT ![p] = t], UNCHANGED <<archive, world, locks, faults>>
      PROVE  TypeOK'
  <2>1. proc' \in [Procs -> ProcStates]
    BY <1>2 DEF TypeOK
  <2>2. UNCHANGED <<files, index, metaOk, dirs, indexLock, monthLock, world, faults>>
    BY <1>2 DEF archive, locks
  <2> QED
    BY <1>1, <2>1, <2>2 DEF TypeOK
<1>3. CASE ReadLayout(p)
  <2> DEFINE l == IF index.present THEN index.parts ELSE {}
  <2>1. l \in SUBSET Parts /\ "scan" \in PCs
    BY <1>0 DEF PCs
  <2>2. proc' = [proc EXCEPT ![p] = [Goto(p, "scan") EXCEPT !.layout = l]]
    BY <1>3, Zenon DEF ReadLayout
  <2> HIDE DEF l
  <2>3. [Goto(p, "scan") EXCEPT !.layout = l] \in ProcStates
    BY <1>g, <2>1, MemoryTyped, Zenon
  <2> QED
    BY <1>2, <1>3, <2>2, <2>3, Zenon DEF ReadLayout
<1>4. CASE ScanMonth(p)
  <2> DEFINE keep == KeptSide(proc[p].layout, files)
  <2>1. AfterRepair(p) \in PCs /\ "recheck" \in PCs
    BY DEF AfterRepair, PCs
  <2>2. keep \in SUBSET Parts /\ files \ keep \in SUBSET Parts
    <3>1. 0 \in Parts
      BY DEF Parts, ConstantsOK
    <3> QED BY <1>0, <3>1 DEF KeptSide
  <2>3. [Goto(p, "recheck") EXCEPT !.cover = keep, !.drop = files \ keep] \in ProcStates
    <3> HIDE DEF keep
    <3> QED BY <1>g, <2>1, <2>2, MemoryTyped, Zenon
  <2>4. UNCHANGED <<archive, world, locks, faults>>
    BY <1>4 DEF ScanMonth
  <2>5. \/ proc' = [proc EXCEPT ![p] = Goto(p, AfterRepair(p))]
        \/ proc' = [proc EXCEPT ![p] = [Goto(p, "recheck") EXCEPT !.cover = keep,
                                                             !.drop = files \ keep]]
        \/ proc' = [proc EXCEPT ![p] = Idle]
    BY <1>4, Zenon DEF ScanMonth
  <2>6. \E t \in ProcStates : proc' = [proc EXCEPT ![p] = t]
    BY <1>g, <2>1, <2>3, <2>5, IdleTyped
  <2> QED
    BY <1>2, <2>4, <2>6, Zenon
<1>5. CASE RecheckMonth(p)
  BY <1>0, <1>1, <1>5, <1>g, IdleTyped, Zenon DEF RecheckMonth, TypeOK, archive, PCs
<1>6. CASE RemoveInactive(p)
  <2>1. AfterRepair(p) \in PCs /\ "build" \in PCs
    BY DEF AfterRepair, PCs
  <2>2. ASSUME NEW f PROVE [proc[p] EXCEPT !.drop = @ \ {f}, !.removed = TRUE] \in ProcStates
    BY <1>0, <1>f, MemoryTyped, Zenon
  <2>3. proc' \in [Procs -> ProcStates]
    <3>1. \E t \in ProcStates : proc' = [proc EXCEPT ![p] = t]
      BY <1>6, <1>g, <2>1, <2>2, Zenon DEF RemoveInactive
    <3> QED BY <1>0, <3>1
  <2>4. files' \subseteq Parts /\ monthLock' \in LockStates
    BY <1>0, <1>6, Zenon DEF RemoveInactive
  <2> QED
    BY <1>0, <1>1, <1>6, <2>3, <2>4, Zenon DEF RemoveInactive, TypeOK
<1>7. CASE RequireIndex(p)
  BY <1>2, <1>7, <1>g, IdleTyped DEF RequireIndex, PCs
<1>8. CASE OpenArchive(p)
  <2>1. Jobs \subseteq Parts /\ "jobs" \in PCs
    BY DEF Jobs, Days, Parts, ConstantsOK, PCs
  <2>2. [Goto(p, "jobs") EXCEPT !.indexed = index.present, !.known = index.parts,
                                !.todo = Jobs] \in ProcStates
    BY <1>0, <1>g, <2>1, MemoryTyped, Zenon
  <2> QED
    BY <1>2, <1>8, <2>2, IdleTyped DEF OpenArchive
<1>9. CASE FinishJob(p)
  <2> PICK part \in proc[p].todo :
        LET rest == [proc[p] EXCEPT !.todo = @ \ {part}]
            gone == IF part = 0 THEN files \cap Days ELSE {}
        IN  \/ Step(p, rest) /\ UNCHANGED <<files, dirs>>
            \/ /\ files' = files \cup {part} /\ dirs' = TRUE
               /\ Step(p, [rest EXCEPT
                              !.changed = @ \cup {part},
                              !.retired = @ \cup gone,
                              !.known = IF proc[p].indexed
                                        THEN (@ \cup {part}) \ gone ELSE @])
    BY <1>9, Zenon DEF FinishJob
  <2> DEFINE rest == [proc[p] EXCEPT !.todo = @ \ {part}]
             gone == IF part = 0 THEN files \cap Days ELSE {}
             known == IF proc[p].indexed THEN (proc[p].known \cup {part}) \ gone
                                         ELSE proc[p].known
  <2>1. part \in Parts /\ gone \in SUBSET Parts /\ known \in SUBSET Parts
        /\ proc[p].changed \cup {part} \in SUBSET Parts
        /\ proc[p].retired \cup gone \in SUBSET Parts
    BY <1>0, <1>f
  <2>2. rest \in ProcStates /\ rest.known = proc[p].known
        /\ rest.changed = proc[p].changed /\ rest.retired = proc[p].retired
    BY <1>0, <1>f DEF ProcStates
  <2>3. [rest EXCEPT !.changed = proc[p].changed \cup {part},
                     !.retired = proc[p].retired \cup gone, !.known = known] \in ProcStates
    <3> HIDE DEF rest, gone, known
    <3> QED BY <2>1, <2>2, MemoryTyped, Zenon
  <2>4. proc' \in [Procs -> ProcStates]
    BY <1>0, <2>2, <2>3
  <2>5. files' \subseteq Parts /\ dirs' \in BOOLEAN
    BY <1>0, <2>1, Zenon DEF TypeOK
  <2> QED
    BY <1>0, <1>1, <1>9, <2>4, <2>5 DEF FinishJob, TypeOK, locks
<1>10. CASE RefuseJob(p)
  <2>1. [Goto(p, "close") EXCEPT !.todo = {}] \in ProcStates
    BY <1>g, MemoryTyped, Zenon DEF PCs
  <2>2. proc' \in [Procs -> ProcStates]
    BY <1>0, <1>10, <2>1 DEF RefuseJob
  <2> QED
    BY <1>0, <1>1, <1>10, <2>2 DEF RefuseJob, TypeOK, locks
<1>11. CASE EndJobs(p)
  BY <1>2, <1>11, <1>g, Zenon DEF EndJobs, PCs
<1>12. CASE CloseArchive(p)
  <2>1. "update" \in PCs /\ "retire" \in PCs
    BY DEF PCs
  <2>2. \E t \in ProcStates : proc' = [proc EXCEPT ![p] = t]
    BY <1>12, <1>g, <2>1, IdleTyped, Zenon DEF CloseArchive
  <2> QED
    BY <1>2, <1>12, <2>2, Zenon DEF CloseArchive
<1>13. CASE RetireFiles(p)
  <2>1. ASSUME NEW f PROVE [proc[p] EXCEPT !.retired = @ \ {f}] \in ProcStates
    BY <1>0, <1>f, MemoryTyped, Zenon
  <2>2. "build" \in PCs
    BY DEF PCs
  <2>3. proc' \in [Procs -> ProcStates] /\ files' \subseteq Parts
    BY <1>0, <1>13, <1>g, <2>1, <2>2, IdleTyped DEF RetireFiles
  <2> QED
    BY <1>0, <1>1, <1>13, <2>3 DEF RetireFiles, TypeOK, locks
<1>14. ASSUME NEW rec \in SUBSET Parts
       PROVE  [Goto(p, "windex") EXCEPT !.rec = rec] \in ProcStates
  BY <1>g, MemoryTyped, Zenon DEF PCs
<1>15. CASE ScanForIndex(p)
  <2>1. proc' \in [Procs -> ProcStates] /\ indexLock' \in LockStates
    <3>1. \E t \in ProcStates : proc' = [proc EXCEPT ![p] = t]
      BY <1>0, <1>14, <1>15, IdleTyped DEF ScanForIndex
    <3> QED BY <1>0, <1>15, <3>1, Zenon DEF ScanForIndex
  <2> QED
    BY <1>0, <1>1, <1>15, <2>1 DEF ScanForIndex, TypeOK, archive
<1>16. CASE MergeIndex(p)
  <2>1. Merged(p) \subseteq Parts
    BY <1>0, <1>f DEF Merged
  <2>2. proc' \in [Procs -> ProcStates] /\ indexLock' \in LockStates
    <3>1. \E t \in ProcStates : proc' = [proc EXCEPT ![p] = t]
      BY <1>14, <1>16, <2>1, IdleTyped DEF MergeIndex
    <3> QED BY <1>0, <1>16, <3>1 DEF MergeIndex
  <2> QED
    BY <1>0, <1>1, <1>16, <2>2 DEF MergeIndex, TypeOK, archive
<1>17. CASE ReplaceIndex(p)
  <2>1. proc' \in [Procs -> ProcStates]
    BY <1>0, <1>17, <1>g DEF ReplaceIndex, PCs
  <2>2. index' \in [present : BOOLEAN, parts : SUBSET Parts] /\ metaOk' \in BOOLEAN
    BY <1>17, <1>f, Zenon DEF ReplaceIndex
  <2> QED
    BY <1>0, <1>1, <1>17, <2>1, <2>2 DEF ReplaceIndex, TypeOK, locks
<1>18. CASE ReplaceMeta(p)
  <2>1. AfterIndex(p) \in PCs
    BY DEF AfterIndex, PCs
  <2>2. [Goto(p, AfterIndex(p)) EXCEPT !.rec = {}, !.removed = FALSE] \in ProcStates
    BY <1>g, <2>1, MemoryTyped, Zenon
  <2>3. proc' \in [Procs -> ProcStates]
    BY <1>0, <1>18, <2>2 DEF ReplaceMeta
  <2> QED
    BY <1>0, <1>1, <1>18, <2>3 DEF ReplaceMeta, TypeOK
<1>19. CASE Finish(p)
  BY <1>2, <1>19, IdleTyped, Zenon DEF Finish
<1> QED
  BY <1>3, <1>4, <1>5, <1>6, <1>7, <1>8, <1>9, <1>10, <1>11, <1>12, <1>13, <1>15,
     <1>16, <1>17, <1>18, <1>19 DEF Work

\* Every step of the archive's commands and of Binance keeps the types.
LEMMA TypesKept ==
    ASSUME ConstantsOK, TypeOK, [Next]_vars
    PROVE  TypeOK'
<1> USE DEF Step, Exit
<1>1. CASE UNCHANGED vars
  BY <1>1 DEF vars, TypeOK
<1>2. CASE PublishDay
  BY <1>2 DEF PublishDay, TypeOK, ConstantsOK, archive, locks
<1>3. CASE PassMonth
  BY <1>3 DEF PassMonth, TypeOK, archive, locks
<1>4. ASSUME NEW p \in Procs, NEW tool \in {"download", "index"}, StartCommand(p, tool)
      PROVE  TypeOK'
  <2>1. [Idle EXCEPT !.pc = "layout", !.tool = tool] \in ProcStates
    BY <1>4, Zenon DEF Idle, ProcStates, PCs
  <2>2. proc' \in [Procs -> ProcStates]
    BY <1>4, <2>1 DEF StartCommand, TypeOK
  <2> QED
    BY <1>4, <2>2 DEF StartCommand, TypeOK, archive, world, locks
<1>5. ASSUME NEW p \in Procs, Work(p) PROVE TypeOK'
  BY <1>5, WorkTyped
<1>6. ASSUME NEW p \in Procs, FailJob(p) PROVE TypeOK'
  <2>1. "close" \in PCs
    BY DEF PCs
  <2>2. [Goto(p, "close") EXCEPT !.todo = {}] \in ProcStates
    BY <2>1, GotoTyped, MemoryTyped, Zenon DEF TypeOK
  <2>3. proc' \in [Procs -> ProcStates]
    BY <1>6, <2>2 DEF FailJob, TypeOK
  <2>4. faults' \in 0 .. MaxFaults
    BY <1>6 DEF FailJob, TypeOK, ConstantsOK
  <2> QED
    BY <1>6, <2>3, <2>4 DEF FailJob, TypeOK, archive, world, locks
<1>7. ASSUME NEW p \in Procs, Kill(p) PROVE TypeOK'
  <2>1. proc' \in [Procs -> ProcStates]
    BY <1>7, IdleTyped DEF Kill, TypeOK
  <2>2. faults' \in 0 .. MaxFaults
    BY <1>7 DEF Kill, TypeOK, ConstantsOK
  <2>3. indexLock' \in LockStates /\ monthLock' \in LockStates
    BY <1>7 DEF Kill, TypeOK, LockStates
  <2> QED
    BY <1>7, <2>1, <2>2, <2>3 DEF Kill, TypeOK, archive, world
<1> QED
  BY <1>1, <1>2, <1>3, <1>4, <1>5, <1>6, <1>7 DEF Next

\* What the other processes see of a step of p: on the 1s timeframe files only
\* appear, and the index changes under its lock.
Calm(p) ==
    /\ vision' = vision
    /\ \A q \in Procs : q # p => proc'[q] = proc[q] /\ (q \in indexLock' <=> q \in indexLock)
    /\ Seconds => files \subseteq files'
    /\ index' = index \/ p \in indexLock

\* A step of one process does not disturb another: only on the 1s timeframe are
\* there two, and there no file is retired or repaired.
LEMMA OthersSound ==
    ASSUME ConstantsOK, Undisturbed, ArchiveInv, IndexSound', NEW p \in Procs, Calm(p),
           NEW q \in Procs, q # p
    PROVE  ProcSound(q)'
<1>1. Seconds /\ 0 \notin files /\ 0 \notin files' /\ files \subseteq files'
  BY DEF Undisturbed, ArchiveInv, IndexSound, Calm
<1>2. proc'[q] = proc[q] /\ (q \in indexLock' <=> q \in indexLock) /\ vision' = vision
  BY DEF Calm
<1>3. ProcSound(q) /\ proc[q].retired = {}
  BY <1>1 DEF ArchiveInv, ProcSound, RetiredSound
<1>4. index' = index \/ q \notin indexLock
  BY DEF Calm, ArchiveInv, TypeOK, LockStates
<1>5. RunSound(q)'
  BY <1>2, <1>3 DEF ProcSound, RunSound
<1>6. RetiredSound(q)'
  BY <1>1, <1>2, <1>3 DEF RetiredSound
<1>7. RepairSound(q)'
  BY <1>1, <1>2, <1>3 DEF ProcSound, RepairSound
<1>8. WriterSound(q)'
  BY <1>1, <1>2, <1>3, <1>4 DEF ProcSound, WriterSound, LayoutValid, Mixed, RowsOf, RowsIn
<1> QED
  BY <1>5, <1>6, <1>7, <1>8 DEF ProcSound

\* A process that is idle or has ended promises nothing.
LEMMA IdleSound ==
    ASSUME NEW p \in Procs, proc'[p] = Idle, p \notin indexLock'
    PROVE  ProcSound(p)'
<1>1. /\ proc'[p].pc = "idle" /\ proc'[p].changed = {} /\ proc'[p].retired = {}
      /\ proc'[p].removed = FALSE /\ proc'[p].todo = {}
  BY DEF Idle
<1> QED
  BY <1>1 DEF ProcSound, RunSound, RetiredSound, RepairSound, WriterSound

\* What is shown of every step of a process: the invariant for the archive and
\* the process itself, what the others see, and that no row is lost.
StepSound(p) ==
    /\ IndexSound' /\ ProcSound(p)' /\ Calm(p)
    /\ RowsOf(files) \subseteq RowsOf(files')
    /\ Visible \subseteq RowsOf(index'.parts \cap files')

\* More files hold more rows.
LEMMA RowsGrow ==
    ASSUME NEW S, NEW T, S \subseteq T
    PROVE  RowsOf(S) \subseteq RowsOf(T)
  BY DEF RowsOf

\* A step that leaves archive and index lock alone is sound when the process is.
LEMMA QuietStep ==
    ASSUME ArchiveInv, NEW p \in Procs, NEW t, Step(p, t),
           UNCHANGED <<files, index, vision, indexLock>>, ProcSound(p)'
    PROVE  StepSound(p)
<1>1. IndexSound'
  BY DEF ArchiveInv, IndexSound, LayoutValid, Mixed
<1>2. Calm(p)
  BY DEF Calm, Step, ArchiveInv, TypeOK
<1>3. /\ RowsOf(files) \subseteq RowsOf(files')
      /\ Visible \subseteq RowsOf(index'.parts \cap files')
  BY DEF Visible
<1> QED
  BY <1>1, <1>2, <1>3 DEF StepSound

\* A command that ends outside of the index lock, by itself or with an error.
LEMMA ExitSound ==
    ASSUME ArchiveInv, NEW p \in Procs, Exit(p), proc[p].pc \notin {"windex", "wmeta"},
           UNCHANGED <<files, index, vision, indexLock>>
    PROVE  StepSound(p)
<1>1. proc'[p] = Idle
  BY DEF Exit, Step, ArchiveInv, TypeOK
<1>2. p \notin indexLock'
  BY DEF ArchiveInv, ProcSound, WriterSound
<1> QED
  BY <1>1, <1>2, IdleSound, QuietStep DEF Exit

\* The steps of a command up to the repair.
LEMMA RepairSteps ==
    ASSUME ConstantsOK, Undisturbed, ArchiveInv, NEW p \in Procs,
           \/ \E tool \in {"download", "index"} : StartCommand(p, tool)
           \/ ReadLayout(p) \/ ScanMonth(p) \/ RecheckMonth(p) \/ RequireIndex(p)
    PROVE  StepSound(p)
<1>0. /\ proc \in [Procs -> ProcStates] /\ proc[p] \in ProcStates
      /\ ProcSound(p) /\ IndexSound
  BY DEF ArchiveInv, TypeOK
<1>s. RunSound(p) /\ RetiredSound(p) /\ RepairSound(p) /\ WriterSound(p)
  BY <1>0 DEF ProcSound
<1>q. ASSUME NEW t, Step(p, t) PROVE proc'[p] = t
  BY <1>0, <1>q DEF Step
<1>1. ASSUME NEW tool \in {"download", "index"}, StartCommand(p, tool) PROVE StepSound(p)
  <2>1. proc'[p] = [Idle EXCEPT !.pc = "layout", !.tool = tool]
    BY <1>1, <1>q DEF StartCommand
  <2>2. /\ proc'[p].pc = "layout" /\ proc'[p].changed = {} /\ proc'[p].retired = {}
        /\ proc'[p].removed = FALSE /\ proc'[p].todo = {}
    BY <2>1 DEF Idle
  <2>3. UNCHANGED <<files, index, vision, indexLock>> /\ p \notin indexLock'
    BY <1>0, <1>1 DEF StartCommand, archive, world, locks, ProcSound, WriterSound
  <2>4. ProcSound(p)'
    BY <2>2, <2>3 DEF ProcSound, RunSound, RetiredSound, RepairSound, WriterSound
  <2> QED
    BY <1>1, <2>3, <2>4, QuietStep DEF StartCommand
<1>2. CASE ReadLayout(p)
  <2>1. proc'[p] = [Goto(p, "scan") EXCEPT !.layout = IF index.present THEN index.parts ELSE {}]
    BY <1>2, <1>q DEF ReadLayout
  <2>2. /\ proc'[p].pc = "scan" /\ proc'[p].changed = proc[p].changed
        /\ proc'[p].retired = proc[p].retired /\ proc'[p].removed = proc[p].removed
        /\ proc'[p].todo = proc[p].todo /\ proc'[p].layout = index.parts
    BY <1>0, <2>1, Zenon DEF Goto, ProcStates, IndexSound
  <2>3. UNCHANGED <<files, index, vision, indexLock>> /\ proc[p].pc = "layout"
    BY <1>2 DEF ReadLayout, archive, world, locks
  <2>4. ProcSound(p)'
    BY <1>s, <2>2, <2>3 DEF ProcSound, RunSound, RetiredSound, RepairSound, WriterSound
  <2> QED
    BY <1>2, <2>3, <2>4, QuietStep DEF ReadLayout
<1>3. CASE ScanMonth(p)
  <2> DEFINE keep == KeptSide(proc[p].layout, files)
             drop == files \ keep
  <2>0. UNCHANGED <<files, index, vision, indexLock>> /\ proc[p].pc = "scan"
    BY <1>3 DEF ScanMonth, archive, world, locks
  <2>1. \/ Step(p, Goto(p, AfterRepair(p)))
        \/ Mixed(files) /\ Step(p, [Goto(p, "recheck") EXCEPT !.cover = keep, !.drop = drop])
        \/ Exit(p)
    BY <1>3, Zenon DEF ScanMonth
  <2>2. CASE Step(p, Goto(p, AfterRepair(p)))
    <3>1. proc'[p] = Goto(p, AfterRepair(p))
      BY <1>q, <2>2
    <3>2. AfterRepair(p) \in {"build", "gate"}
      BY DEF AfterRepair
    <3>3. /\ proc'[p].pc \in {"build", "gate"} /\ proc'[p].changed = proc[p].changed
          /\ proc'[p].retired = proc[p].retired /\ proc'[p].removed = proc[p].removed
          /\ proc'[p].todo = proc[p].todo
      <4>1. {"build", "gate"} \subseteq PCs
        BY DEF PCs
      <4> QED BY <1>0, <3>1, <3>2, <4>1, GotoTyped
    <3>4. ProcSound(p)'
      BY <1>s, <2>0, <3>3, Zenon DEF ProcSound, RunSound, RetiredSound, RepairSound, WriterSound
    <3> QED
      BY <2>0, <2>2, <3>4, QuietStep
  <2>3. CASE Mixed(files) /\ Step(p, [Goto(p, "recheck") EXCEPT !.cover = keep, !.drop = drop])
    <3>1. proc'[p] = [Goto(p, "recheck") EXCEPT !.cover = keep, !.drop = drop]
      BY <1>q, <2>3
    <3>2. /\ proc'[p].pc = "recheck" /\ proc'[p].changed = proc[p].changed
          /\ proc'[p].retired = proc[p].retired /\ proc'[p].removed = proc[p].removed
          /\ proc'[p].todo = proc[p].todo /\ proc'[p].layout = proc[p].layout
          /\ proc'[p].cover = keep /\ proc'[p].drop = drop
      <4> HIDE DEF keep, drop
      <4> QED BY <1>0, <3>1 DEF Goto, ProcStates
    <3>3. ~Seconds /\ proc[p].layout = index.parts
      BY <1>0, <2>0, <2>3 DEF IndexSound, Mixed, ProcSound, RepairSound
    <3>4. keep \cap drop = {} /\ drop \cap index.parts = {}
      <4>1. index.parts \subseteq {0} \cup Days /\ index.parts \subseteq files /\ 0 \notin Days
        BY DEF ArchiveInv, TypeOK, IndexSound, Parts, Days, ConstantsOK
      <4>2. ~(0 \in index.parts /\ index.parts \cap Days # {})
        BY <1>0 DEF IndexSound, LayoutValid, Mixed
      <4> QED
        BY <3>3, <4>1, <4>2 DEF KeptSide
    <3> HIDE DEF keep, drop
    <3>5. RunSound(p)' /\ RetiredSound(p)'
      BY <1>s, <2>0, <3>2 DEF RunSound, RetiredSound
    <3>6. RepairSound(p)' /\ WriterSound(p)'
      BY <1>s, <2>0, <3>2, <3>3, <3>4 DEF RepairSound, WriterSound
    <3> QED
      BY <2>0, <2>3, <3>5, <3>6, QuietStep DEF ProcSound
  <2>4. CASE Exit(p)
    BY <2>0, <2>4, ExitSound
  <2> QED
    BY <2>1, <2>2, <2>3, <2>4
<1>4. CASE RecheckMonth(p)
  <2>0. UNCHANGED <<files, index, vision, indexLock>> /\ proc[p].pc = "recheck"
    BY <1>4 DEF RecheckMonth, archive, world
  <2>1. CASE Covered(proc[p].drop, proc[p].cover) /\ Step(p, Goto(p, "remove"))
    <3>1. proc'[p] = Goto(p, "remove")
      BY <1>q, <2>1
    <3>2. /\ proc'[p].pc = "remove" /\ proc'[p].changed = proc[p].changed
          /\ proc'[p].retired = proc[p].retired /\ proc'[p].removed = proc[p].removed
          /\ proc'[p].todo = proc[p].todo /\ proc'[p].layout = proc[p].layout
          /\ proc'[p].cover = proc[p].cover /\ proc'[p].drop = proc[p].drop
      BY <1>0, <3>1 DEF Goto, ProcStates
    <3>3. RunSound(p)' /\ RetiredSound(p)'
      BY <1>s, <2>0, <3>2, Zenon DEF RunSound, RetiredSound
    <3>4. RepairSound(p)' /\ WriterSound(p)'
      BY <1>s, <2>0, <2>1, <3>2 DEF RepairSound, WriterSound, Covered, RowsOf, RowsIn
    <3> QED
      BY <2>0, <2>1, <3>3, <3>4, QuietStep DEF ProcSound
  <2>2. CASE Exit(p)
    BY <2>0, <2>2, ExitSound
  <2> QED
    BY <1>4, <2>1, <2>2 DEF RecheckMonth
<1>5. CASE RequireIndex(p)
  <2>0. UNCHANGED <<files, index, vision, indexLock>> /\ proc[p].pc = "gate"
    BY <1>5 DEF RequireIndex, archive, world, locks
  <2>1. CASE Step(p, Goto(p, "open"))
    <3>1. proc'[p] = Goto(p, "open")
      BY <1>q, <2>1
    <3>2. /\ proc'[p].pc = "open" /\ proc'[p].changed = proc[p].changed
          /\ proc'[p].retired = proc[p].retired /\ proc'[p].removed = proc[p].removed
          /\ proc'[p].todo = proc[p].todo
      BY <1>0, <3>1 DEF Goto, ProcStates
    <3>3. ProcSound(p)'
      BY <1>s, <2>0, <3>2 DEF ProcSound, RunSound, RetiredSound, RepairSound, WriterSound
    <3> QED
      BY <2>0, <2>1, <3>3, QuietStep
  <2>2. CASE Exit(p)
    BY <2>0, <2>2, ExitSound
  <2> QED
    BY <1>5, <2>1, <2>2 DEF RequireIndex
<1> QED
  BY <1>1, <1>2, <1>3, <1>4, <1>5

\* The repair removes a file whose rows the other side holds, and which the
\* index does not name.
LEMMA RemoveStep ==
    ASSUME ConstantsOK, Undisturbed, ArchiveInv, NEW p \in Procs, RemoveInactive(p)
    PROVE  StepSound(p)
<1>0. /\ proc \in [Procs -> ProcStates] /\ proc[p] \in ProcStates
      /\ ProcSound(p) /\ IndexSound
      /\ proc[p].pc = "remove" /\ index' = index /\ vision' = vision /\ indexLock' = indexLock
  BY Zenon DEF ArchiveInv, TypeOK, RemoveInactive, world
<1>u. proc[p].pc = "remove" /\ index' = index /\ vision' = vision /\ indexLock' = indexLock
  BY <1>0
<1>s. RunSound(p) /\ RetiredSound(p) /\ RepairSound(p) /\ WriterSound(p)
  BY <1>0 DEF ProcSound
<1>q. ASSUME NEW t, Step(p, t)
      PROVE  proc'[p] = t /\ \A q \in Procs : q # p => proc'[q] = proc[q]
  BY <1>0, <1>q DEF Step
<1>1. CASE /\ UNCHANGED files
           /\ Step(p, Goto(p, IF proc[p].removed THEN "build" ELSE AfterRepair(p)))
  <2>1. proc'[p] = Goto(p, IF proc[p].removed THEN "build" ELSE AfterRepair(p))
    BY <1>1, <1>q
  <2>2. /\ proc'[p].pc \in {"build", "gate"} /\ proc'[p].changed = proc[p].changed
        /\ proc'[p].retired = proc[p].retired /\ proc'[p].removed = proc[p].removed
        /\ proc'[p].todo = proc[p].todo /\ (proc'[p].removed => proc'[p].pc = "build")
    BY <1>0, <2>1 DEF Goto, ProcStates, AfterRepair
  <2>3. ProcSound(p)'
    BY <1>s, <1>u, <1>1, <2>2 DEF ProcSound, RunSound, RetiredSound, RepairSound, WriterSound
  <2>4. UNCHANGED <<files, index, vision, indexLock>>
    BY <1>0, <1>1
  <2> QED
    BY <1>1, <2>3, <2>4, QuietStep
<1>2. ASSUME NEW f \in proc[p].drop \cap files, files' = files \ {f},
             Step(p, [proc[p] EXCEPT !.drop = @ \ {f}, !.removed = TRUE])
      PROVE  StepSound(p)
  <2>1. proc'[p] = [proc[p] EXCEPT !.drop = @ \ {f}, !.removed = TRUE]
    BY <1>2, <1>q
  <2>2. /\ proc'[p].pc = "remove" /\ proc'[p].changed = proc[p].changed
        /\ proc'[p].retired = proc[p].retired /\ proc'[p].removed = TRUE
        /\ proc'[p].todo = proc[p].todo /\ proc'[p].layout = proc[p].layout
        /\ proc'[p].cover = proc[p].cover /\ proc'[p].drop = proc[p].drop \ {f}
    BY <1>0, <2>1 DEF ProcStates
  <2>3. /\ ~Seconds /\ proc[p].cover \cap proc[p].drop = {}
        /\ proc[p].drop \cap index.parts = {} /\ Covered(proc[p].drop, proc[p].cover)
    BY <1>0 DEF ProcSound, RepairSound
  <2>4. IndexSound'
    BY <1>0, <1>2, <2>3 DEF IndexSound, LayoutValid, Mixed
  <2>5. RunSound(p)' /\ RetiredSound(p)'
    BY <1>s, <1>u, <2>2 DEF RunSound, RetiredSound
  <2>6. Covered(proc[p].drop, proc[p].cover)'
    BY <1>0, <1>2, <2>2, <2>3 DEF Covered, RowsOf, RowsIn
  <2>7. RepairSound(p)' /\ WriterSound(p)'
    BY <1>s, <1>u, <2>2, <2>3, <2>6 DEF RepairSound, WriterSound
  <2>8. Calm(p)
    BY <1>0, <1>2, <1>q, <2>3 DEF Calm
  <2>9. RowsOf(files) \subseteq RowsOf(files')
    BY <1>2, <2>3 DEF Covered, RowsOf
  <2>10. Visible \subseteq RowsOf(index'.parts \cap files')
    BY <1>0, <1>2, <2>3 DEF Visible, RowsOf
  <2> QED
    BY <2>4, <2>5, <2>7, <2>8, <2>9, <2>10 DEF StepSound, ProcSound
<1> QED
  BY <1>1, <1>2, Zenon DEF RemoveInactive

\* The closing download removes a daily file whose rows the monthly file holds,
\* and which the index does not name (any more, or yet).
LEMMA RetireStep ==
    ASSUME ConstantsOK, Undisturbed, ArchiveInv, NEW p \in Procs, RetireFiles(p)
    PROVE  StepSound(p)
<1>0. /\ proc \in [Procs -> ProcStates] /\ proc[p] \in ProcStates
      /\ ProcSound(p) /\ IndexSound
      /\ proc[p].pc = "retire" /\ index' = index /\ vision' = vision /\ indexLock' = indexLock
  BY DEF ArchiveInv, TypeOK, RetireFiles, world, locks
<1>u. proc[p].pc = "retire" /\ index' = index /\ vision' = vision /\ indexLock' = indexLock
  BY <1>0
<1>s. RunSound(p) /\ RetiredSound(p) /\ RepairSound(p) /\ WriterSound(p)
  BY <1>0 DEF ProcSound
<1>q. ASSUME NEW t, Step(p, t)
      PROVE  proc'[p] = t /\ \A q \in Procs : q # p => proc'[q] = proc[q]
  BY <1>0, <1>q DEF Step
<1>1. CASE /\ UNCHANGED files /\ proc[p].retired \cap files = {}
           /\ Step(p, Goto(p, "build"))
  <2>1. proc'[p] = Goto(p, "build")
    BY <1>1, <1>q
  <2>2. /\ proc'[p].pc = "build" /\ proc'[p].changed = proc[p].changed
        /\ proc'[p].retired = proc[p].retired /\ proc'[p].removed = proc[p].removed
        /\ proc'[p].todo = proc[p].todo
    BY <1>0, <2>1 DEF Goto, ProcStates
  <2>3. ProcSound(p)'
    BY <1>s, <1>u, <1>1, <2>2 DEF ProcSound, RunSound, RetiredSound, RepairSound, WriterSound, RowsOf, RowsIn
  <2>4. UNCHANGED <<files, index, vision, indexLock>>
    BY <1>0, <1>1
  <2> QED
    BY <1>1, <2>3, <2>4, QuietStep
<1>2. CASE UNCHANGED files /\ Exit(p)
  <2>1. UNCHANGED <<files, index, vision, indexLock>>
    BY <1>0, <1>2
  <2> QED
    BY <1>0, <1>2, <2>1, ExitSound
<1>3. ASSUME NEW f \in proc[p].retired \cap files, files' = files \ {f},
             Step(p, [proc[p] EXCEPT !.retired = @ \ {f}])
      PROVE  StepSound(p)
  <2>1. proc'[p] = [proc[p] EXCEPT !.retired = @ \ {f}]
    BY <1>3, <1>q
  <2>2. /\ proc'[p].pc = "retire" /\ proc'[p].changed = proc[p].changed
        /\ proc'[p].retired = proc[p].retired \ {f} /\ proc'[p].removed = proc[p].removed
        /\ proc'[p].todo = proc[p].todo
    BY <1>0, <2>1 DEF ProcStates
  <2>3. /\ 0 \in files /\ proc[p].changed = {0} /\ RowsOf(proc[p].retired) \subseteq vision
        /\ proc[p].retired \subseteq Days /\ proc[p].retired \cap index.parts = {}
    BY <1>0 , <1>3 DEF ProcSound, RetiredSound
  <2>4. ~Seconds /\ f # 0 /\ 0 \in files' /\ ~proc[p].removed
    BY <1>0, <1>3, <2>3 DEF IndexSound, Days, ProcSound, RunSound, ConstantsOK
  <2>5. IndexSound'
    BY <1>0, <1>3, <2>3, <2>4 DEF IndexSound, LayoutValid, Mixed
  <2>6. RowsOf(proc'[p].retired) \subseteq vision
    BY <2>2, <2>3 DEF RowsOf
  <2>7. RunSound(p)'
    BY <1>s, <1>u, <2>2, <2>3, <2>4 DEF RunSound
  <2>8. RetiredSound(p)'
    BY <1>0, <2>2, <2>3, <2>4, <2>6 DEF RetiredSound, RowsOf, RowsIn
  <2>9. RepairSound(p)' /\ WriterSound(p)'
    BY <1>s, <1>u, <2>2 DEF RepairSound, WriterSound
  <2>10. Calm(p)
    BY <1>0, <1>3, <1>q, <2>4 DEF Calm
  <2>11. RowsOf(files) \subseteq RowsOf(files')
    BY <1>3, <2>3, <2>4 DEF RowsOf, RowsIn
  <2>12. Visible \subseteq RowsOf(index'.parts \cap files')
    BY <1>0, <1>3, <2>3 DEF Visible, RowsOf
  <2> QED
    BY <2>5, <2>7, <2>8, <2>9, <2>10, <2>11, <2>12 DEF StepSound, ProcSound
<1> QED
  BY <1>1, <1>2, <1>3, Zenon DEF RetireFiles

\* Opening the archive, the jobs and the end of the jobs: files only appear, and
\* the monthly file only where it holds the rows of the daily ones.
LEMMA JobSteps ==
    ASSUME ConstantsOK, Undisturbed, ArchiveInv, NEW p \in Procs,
           \/ OpenArchive(p) \/ FinishJob(p) \/ RefuseJob(p) \/ FailJob(p) \/ EndJobs(p)
           \/ CloseArchive(p)
    PROVE  StepSound(p)
<1>0. /\ proc \in [Procs -> ProcStates] /\ proc[p] \in ProcStates
      /\ ProcSound(p) /\ IndexSound
      /\ files \subseteq Parts /\ Parts = {0} \cup Days /\ 0 \notin Days
      /\ proc[p].todo \subseteq Parts
  BY DEF ArchiveInv, TypeOK, ConstantsOK, Parts, Days, ProcStates
<1>s. RunSound(p) /\ RetiredSound(p) /\ RepairSound(p) /\ WriterSound(p)
  BY <1>0 DEF ProcSound
<1>q. ASSUME NEW t, Step(p, t)
      PROVE  proc'[p] = t /\ \A q \in Procs : q # p => proc'[q] = proc[q]
  BY <1>0, <1>q DEF Step
<1>1. CASE OpenArchive(p)
  <2>0. UNCHANGED <<files, index, vision, indexLock>> /\ proc[p].pc = "open"
    BY <1>1 DEF OpenArchive, archive, world, locks
  <2>1. CASE Step(p, [Goto(p, "jobs") EXCEPT !.indexed = index.present,
                       !.known = index.parts, !.todo = Jobs])
    <3>1. proc'[p] = [Goto(p, "jobs") EXCEPT !.indexed = index.present,
                       !.known = index.parts, !.todo = Jobs]
      BY <1>q, <2>1
    <3>2. /\ proc'[p].pc = "jobs" /\ proc'[p].changed = proc[p].changed
          /\ proc'[p].retired = proc[p].retired /\ proc'[p].removed = proc[p].removed
          /\ proc'[p].todo = Jobs /\ proc'[p].indexed = index.present
      BY <1>0, <3>1 DEF Goto, ProcStates
    <3>3. 0 \in Jobs => Jobs = {0} /\ ~Seconds
      BY <1>0 DEF Jobs
    <3>4. RunSound(p)' /\ RetiredSound(p)'
      BY <1>s, <2>0, <3>2, <3>3 DEF RunSound, RetiredSound
    <3>5. RepairSound(p)' /\ WriterSound(p)'
      BY <1>s, <2>0, <3>2, Zenon DEF RepairSound, WriterSound
    <3> QED
      BY <2>0, <2>1, <3>4, <3>5, QuietStep DEF ProcSound
  <2>2. CASE Exit(p)
    BY <2>0, <2>2, ExitSound
  <2> QED
    BY <1>1, <2>1, <2>2 DEF OpenArchive
<1>2. CASE FinishJob(p)
  <2>0. /\ proc[p].pc = "jobs" /\ index' = index /\ vision' = vision /\ indexLock' = indexLock
    BY <1>2, Zenon DEF FinishJob, world, locks
  <2>1. PICK part \in proc[p].todo :
        LET rest == [proc[p] EXCEPT !.todo = @ \ {part}]
            gone == IF part = 0 THEN files \cap Days ELSE {}
        IN  \/ Step(p, rest) /\ UNCHANGED <<files, dirs>>
            \/ /\ Accepts(part) /\ files' = files \cup {part}
               /\ Step(p, [rest EXCEPT
                              !.changed = @ \cup {part},
                              !.retired = @ \cup gone,
                              !.known = IF proc[p].indexed
                                        THEN (@ \cup {part}) \ gone ELSE @])
    BY <1>2, Zenon DEF FinishJob
  <2> DEFINE rest == [proc[p] EXCEPT !.todo = @ \ {part}]
             gone == IF part = 0 THEN files \cap Days ELSE {}
  <2>2. CASE Step(p, rest) /\ UNCHANGED files
    <3>1. /\ proc'[p].pc = "jobs" /\ proc'[p].changed = proc[p].changed
          /\ proc'[p].retired = proc[p].retired /\ proc'[p].removed = proc[p].removed
          /\ proc'[p].todo = proc[p].todo \ {part} /\ proc'[p].indexed = proc[p].indexed
      BY <1>0, <1>q, <2>0, <2>2 DEF ProcStates
    <3>2. RunSound(p)'
      BY <1>s, <2>0, <2>2, <3>1 DEF RunSound
    <3>3. RetiredSound(p)'
      BY <1>s, <2>0, <2>2, <3>1 DEF RetiredSound, RowsOf, RowsIn
    <3>4. RepairSound(p)' /\ WriterSound(p)'
      BY <1>s, <2>0, <3>1 DEF RepairSound, WriterSound
    <3> QED
      BY <2>0, <2>2, <3>2, <3>3, <3>4, QuietStep DEF ProcSound
  <2>3. CASE /\ Accepts(part) /\ files' = files \cup {part}
             /\ Step(p, [rest EXCEPT
                              !.changed = @ \cup {part},
                              !.retired = @ \cup gone,
                              !.known = IF proc[p].indexed
                                        THEN (@ \cup {part}) \ gone ELSE @])
    <3>1. proc'[p] = [rest EXCEPT !.changed = @ \cup {part}, !.retired = @ \cup gone,
                              !.known = IF proc[p].indexed
                                        THEN (@ \cup {part}) \ gone ELSE @]
      BY <1>q, <2>3
    <3>2. /\ proc'[p].pc = "jobs" /\ proc'[p].changed = proc[p].changed \cup {part}
          /\ proc'[p].retired = proc[p].retired \cup gone /\ proc'[p].removed = proc[p].removed
          /\ proc'[p].todo = proc[p].todo \ {part} /\ proc'[p].indexed = proc[p].indexed
      BY <1>0, <2>0, <3>1 DEF ProcStates
    <3>3. ~proc[p].removed /\ (0 \in proc[p].todo => proc[p].todo = {0} /\ proc[p].changed = {} /\ ~Seconds)
      BY <1>0, <2>0 DEF ProcSound, RunSound
    <3>4. /\ proc[p].retired = {}
          /\ part = 0 => RowsOf(files \cap Days) \subseteq vision /\ proc[p].changed = {} /\ ~Seconds
      BY <1>0, <2>1, <2>3, <3>3 DEF Accepts, ProcSound, RetiredSound, RowsOf
    <3>5. IndexSound'
      BY <1>0, <2>0, <2>3, <3>4 DEF IndexSound, LayoutValid, Mixed
    <3>6. RunSound(p)'
      BY <1>0, <2>1, <3>2, <3>3 DEF RunSound
    <3>7. RetiredSound(p)'
      <4>1. CASE part = 0
        BY <1>0, <2>0, <2>3, <3>2, <3>4, <4>1 DEF ProcSound, RetiredSound, RowsOf, RowsIn
      <4>2. CASE part # 0
        BY <1>0, <2>0, <3>2, <3>4, <4>2 DEF ProcSound, RetiredSound
      <4> QED BY <4>1, <4>2
    <3>8. RepairSound(p)' /\ WriterSound(p)'
      BY <1>s, <2>0, <3>2, Zenon DEF RepairSound, WriterSound
    <3>9. Calm(p)
      BY <1>q, <2>0, <2>3 DEF Calm
    <3>10. /\ RowsOf(files) \subseteq RowsOf(files')
           /\ Visible \subseteq RowsOf(index'.parts \cap files')
      BY <2>0, <2>3, RowsGrow DEF Visible
    <3> QED
      BY <3>5, <3>6, <3>7, <3>8, <3>9, <3>10 DEF StepSound, ProcSound
  <2> QED
    BY <2>1, <2>2, <2>3
<1>3. CASE RefuseJob(p) \/ FailJob(p)
  <2>0. /\ UNCHANGED <<files, index, vision, indexLock>> /\ proc[p].pc = "jobs"
        /\ Step(p, [Goto(p, "close") EXCEPT !.todo = {}])
    BY <1>3 DEF RefuseJob, FailJob, archive, world, locks
  <2>1. proc'[p] = [Goto(p, "close") EXCEPT !.todo = {}]
    BY <1>q, <2>0
  <2>2. /\ proc'[p].pc = "close" /\ proc'[p].changed = proc[p].changed
        /\ proc'[p].retired = proc[p].retired /\ proc'[p].removed = proc[p].removed
        /\ proc'[p].todo = {} /\ proc'[p].indexed = proc[p].indexed
    BY <1>0, <2>1 DEF Goto, ProcStates
  <2>3. RunSound(p)' /\ RepairSound(p)' /\ WriterSound(p)'
    BY <1>s, <2>0, <2>2 DEF RunSound, RepairSound, WriterSound
  <2>4. RetiredSound(p)'
    BY <1>s, <2>0, <2>2 DEF RetiredSound, RowsOf, RowsIn
  <2> QED
    BY <2>0, <2>3, <2>4, QuietStep DEF ProcSound
<1>4. CASE EndJobs(p)
  <2>0. /\ UNCHANGED <<files, index, vision, indexLock>> /\ proc[p].pc = "jobs"
        /\ Step(p, Goto(p, "close"))
    BY <1>4 DEF EndJobs, archive, world, locks
  <2>1. proc'[p] = Goto(p, "close")
    BY <1>q, <2>0
  <2>2. /\ proc'[p].pc = "close" /\ proc'[p].changed = proc[p].changed
        /\ proc'[p].retired = proc[p].retired /\ proc'[p].removed = proc[p].removed
        /\ proc'[p].todo = proc[p].todo /\ proc'[p].indexed = proc[p].indexed
    BY <1>0, <2>1 DEF Goto, ProcStates
  <2>3. RunSound(p)' /\ RepairSound(p)' /\ WriterSound(p)'
    BY <1>s, <2>0, <2>2 DEF RunSound, RepairSound, WriterSound
  <2>4. RetiredSound(p)'
    BY <1>s, <2>0, <2>2 DEF RetiredSound, RowsOf, RowsIn
  <2> QED
    BY <2>0, <2>3, <2>4, QuietStep DEF ProcSound
<1>5. CASE CloseArchive(p)
  <2>0. UNCHANGED <<files, index, vision, indexLock>> /\ proc[p].pc = "close"
    BY <1>5 DEF CloseArchive, archive, world, locks
  <2>1. \/ Exit(p)
        \/ Step(p, Goto(p, "update"))
        \/ ~proc[p].indexed /\ Step(p, Goto(p, "retire"))
    BY <1>5, Zenon DEF CloseArchive
  <2>2. CASE Exit(p)
    BY <2>0, <2>2, ExitSound
  <2>3. ASSUME NEW c \in {"update", "retire"}, Step(p, Goto(p, c)),
               c = "retire" => ~proc[p].indexed
        PROVE  StepSound(p)
    <3>1. proc'[p] = Goto(p, c)
      BY <1>q, <2>3
    <3>2. /\ proc'[p].pc = c /\ proc'[p].changed = proc[p].changed
          /\ proc'[p].retired = proc[p].retired /\ proc'[p].removed = proc[p].removed
          /\ proc'[p].todo = proc[p].todo /\ proc'[p].indexed = proc[p].indexed
      BY <1>0, <3>1 DEF Goto, ProcStates
    <3>3. RunSound(p)' /\ RepairSound(p)' /\ WriterSound(p)'
      BY <1>s, <2>0, <3>2 DEF RunSound, RepairSound, WriterSound
    <3>4. c = "retire" => proc[p].retired = {} \/ index.parts = {}
      BY <1>0, <2>0, <2>3 DEF ProcSound, RetiredSound, IndexSound
    <3>5. RetiredSound(p)'
      BY <1>s, <2>0, <3>2, <3>4 DEF RetiredSound, RowsOf, RowsIn
    <3> QED
      BY <2>0, <2>3, <3>3, <3>5, QuietStep DEF ProcSound
  <2> QED
    BY <2>1, <2>2, <2>3
<1> QED
  BY <1>1, <1>2, <1>3, <1>4, <1>5

\* Building, merging and publishing the index, and the end of a command: what is
\* published has every row that readers saw.
LEMMA IndexSteps ==
    ASSUME ConstantsOK, Undisturbed, ArchiveInv, NEW p \in Procs,
           \/ ScanForIndex(p) \/ MergeIndex(p) \/ ReplaceIndex(p) \/ ReplaceMeta(p)
           \/ Finish(p) \/ Kill(p)
    PROVE  StepSound(p)
<1>0. /\ proc \in [Procs -> ProcStates] /\ proc[p] \in ProcStates
      /\ ProcSound(p) /\ IndexSound /\ 0 \notin Days
  BY DEF ArchiveInv, TypeOK, ConstantsOK, Days
<1>s. RunSound(p) /\ RetiredSound(p) /\ RepairSound(p) /\ WriterSound(p)
  BY <1>0 DEF ProcSound
<1>q. ASSUME NEW t, Step(p, t)
      PROVE  proc'[p] = t /\ \A q \in Procs : q # p => proc'[q] = proc[q]
  BY <1>0, <1>q DEF Step
<1>l. p \in indexLock => indexLock = {p}
  BY DEF ArchiveInv, TypeOK, LockStates
\* A process takes the index lock with the records it is going to write.
<1>w. ASSUME NEW rec, Step(p, [Goto(p, "windex") EXCEPT !.rec = rec]),
             proc[p].pc \in {"build", "update"}, indexLock = {}, indexLock' = {p},
             UNCHANGED <<files, index, vision>>,
             rec \subseteq files, LayoutValid(rec), rec \cap proc[p].retired = {},
             RowsOf(index.parts) \subseteq RowsOf(rec)
      PROVE  StepSound(p)
  <2>1. proc'[p] = [Goto(p, "windex") EXCEPT !.rec = rec]
    BY <1>q, <1>w
  <2>2. /\ proc'[p].pc = "windex" /\ proc'[p].changed = proc[p].changed
        /\ proc'[p].retired = proc[p].retired /\ proc'[p].removed = proc[p].removed
        /\ proc'[p].todo = proc[p].todo /\ proc'[p].rec = rec
    BY <1>0, <2>1 DEF Goto, ProcStates
  <2>3. IndexSound'
    BY <1>0, <1>w DEF IndexSound, LayoutValid, Mixed
  <2>4. RunSound(p)' /\ RepairSound(p)'
    BY <1>s, <1>w, <2>2 DEF RunSound, RepairSound
  <2>5. RetiredSound(p)'
    BY <1>s, <1>w, <2>2 DEF RetiredSound, RowsOf, RowsIn
  <2>6. WriterSound(p)'
    BY <1>w, <2>2 DEF WriterSound, LayoutValid, Mixed, RowsOf, RowsIn
  <2>7. Calm(p)
    BY <1>q, <1>w DEF Calm
  <2>8. /\ RowsOf(files) \subseteq RowsOf(files')
        /\ Visible \subseteq RowsOf(index'.parts \cap files')
    BY <1>w DEF Visible
  <2> QED
    BY <2>3, <2>4, <2>5, <2>6, <2>7, <2>8 DEF StepSound, ProcSound
<1>1. CASE ScanForIndex(p)
  <2>0. UNCHANGED <<files, index, vision>> /\ proc[p].pc = "build" /\ indexLock = {}
    BY <1>1 DEF ScanForIndex, archive, world
  <2>1. RowsOf(index.parts) \subseteq RowsOf(files) /\ files \cap proc[p].retired = {}
    BY <1>0, <2>0, RowsGrow DEF IndexSound, ProcSound, RetiredSound
  <2>2. CASE UNCHANGED indexLock /\ Exit(p)
    BY <2>0, <2>2, ExitSound
  <2> QED
    BY <1>1, <1>w, <2>0, <2>1, <2>2 DEF ScanForIndex
<1>2. CASE MergeIndex(p)
  <2>0. UNCHANGED <<files, index, vision>> /\ proc[p].pc = "update" /\ indexLock = {}
    BY <1>2 DEF MergeIndex, archive, world
  <2>1. CASE UNCHANGED indexLock /\ Exit(p)
    BY <2>0, <2>1, ExitSound
  <2>2. CASE /\ proc[p].changed \subseteq files /\ LayoutValid(Merged(p))
             /\ indexLock' = {p} /\ Step(p, [Goto(p, "windex") EXCEPT !.rec = Merged(p)])
    <3>1. /\ proc[p].retired \subseteq Days
          /\ proc[p].retired # {} =>
               proc[p].changed = {0} /\ RowsOf(proc[p].retired) \subseteq vision
      BY <1>0 DEF ProcSound, RetiredSound
    <3>2. Merged(p) \subseteq files /\ Merged(p) \cap proc[p].retired = {}
      BY <1>0, <2>2, <3>1 DEF Merged, IndexSound
    <3>3. RowsOf(index.parts) \subseteq RowsOf(Merged(p))
      BY <3>1 DEF Merged, RowsOf, RowsIn
    <3> QED
      BY <1>w, <2>0, <2>2, <3>2, <3>3
  <2> QED
    BY <1>2, <2>1, <2>2 DEF MergeIndex
<1>3. CASE ReplaceIndex(p)
  <2>0. /\ proc[p].pc = "windex" /\ index' = [present |-> TRUE, parts |-> proc[p].rec]
        /\ UNCHANGED <<files, vision, indexLock>> /\ Step(p, Goto(p, "wmeta"))
    BY <1>3, Zenon DEF ReplaceIndex, world, locks
  <2>1. /\ p \in indexLock /\ proc[p].rec \subseteq files /\ LayoutValid(proc[p].rec)
        /\ proc[p].rec \cap proc[p].retired = {}
        /\ RowsOf(index.parts) \subseteq RowsOf(proc[p].rec)
    BY <1>0, <2>0 DEF ProcSound, WriterSound
  <2>2. proc'[p] = Goto(p, "wmeta")
    BY <1>q, <2>0
  <2>3. /\ proc'[p].pc = "wmeta" /\ proc'[p].changed = proc[p].changed
        /\ proc'[p].retired = proc[p].retired /\ proc'[p].removed = proc[p].removed
        /\ proc'[p].todo = proc[p].todo
    BY <1>0, <2>2 DEF Goto, ProcStates
  <2>4. IndexSound'
    BY <1>0, <2>0, <2>1 DEF IndexSound, LayoutValid, Mixed
  <2>5. RunSound(p)' /\ RepairSound(p)' /\ WriterSound(p)'
    BY <1>s, <2>0, <2>1, <2>3, Zenon DEF RunSound, RepairSound, WriterSound
  <2>6. RetiredSound(p)'
    BY <1>s, <2>0, <2>1, <2>3 DEF RetiredSound, RowsOf, RowsIn
  <2>7. Calm(p)
    BY <1>q, <2>0, <2>1, Zenon DEF Calm
  <2>8. RowsOf(files) \subseteq RowsOf(files')
    BY <2>0
  <2>9. Visible \subseteq RowsOf(index'.parts \cap files')
    <3>1. index'.parts \cap files' = proc[p].rec /\ index.parts \cap files = index.parts
      BY <1>0, <2>0, <2>1, Zenon DEF IndexSound
    <3> QED
      BY <2>1, <3>1, Zenon DEF Visible
  <2> QED
    BY <2>4, <2>5, <2>6, <2>7, <2>8, <2>9 DEF StepSound, ProcSound
<1>4. CASE ReplaceMeta(p)
  <2>0. /\ proc[p].pc = "wmeta" /\ UNCHANGED <<files, index, vision>> /\ indexLock' = {}
        /\ Step(p, [Goto(p, AfterIndex(p)) EXCEPT !.rec = {}, !.removed = FALSE])
    BY <1>4 DEF ReplaceMeta, world
  <2>1. p \in indexLock /\ indexLock = {p}
    BY <1>0, <1>l, <2>0 DEF ProcSound, WriterSound
  <2>2. proc'[p] = [Goto(p, AfterIndex(p)) EXCEPT !.rec = {}, !.removed = FALSE]
    BY <1>q, <2>0
  <2>3. /\ proc'[p].pc = AfterIndex(p) /\ proc'[p].changed = proc[p].changed
        /\ proc'[p].retired = proc[p].retired /\ proc'[p].removed = FALSE
        /\ proc'[p].todo = proc[p].todo
    BY <1>0, <2>2 DEF Goto, ProcStates
  <2>4. /\ AfterIndex(p) \in {"retire", "gate", "finish"}
        /\ AfterIndex(p) = "gate" => proc[p].removed
    BY DEF AfterIndex
  <2>5. IndexSound'
    BY <1>0, <2>0 DEF IndexSound, LayoutValid, Mixed
  <2>6. RunSound(p)' /\ RepairSound(p)' /\ WriterSound(p)'
    BY <1>s, <2>0, <2>3, <2>4 DEF RunSound, RepairSound, WriterSound
  <2>7. RetiredSound(p)'
    BY <1>s, <2>0, <2>3, <2>4 DEF RetiredSound, RowsOf, RowsIn
  <2>8. Calm(p)
    BY <1>q, <2>0, <2>1 DEF Calm
  <2>9. /\ RowsOf(files) \subseteq RowsOf(files')
        /\ Visible \subseteq RowsOf(index'.parts \cap files')
    BY <2>0 DEF Visible
  <2> QED
    BY <2>5, <2>6, <2>7, <2>8, <2>9 DEF StepSound, ProcSound
<1>5. CASE Finish(p)
  BY <1>5, ExitSound, Zenon DEF Finish, archive, world, locks
<1>6. CASE Kill(p)
  <2>0. /\ UNCHANGED <<files, index, vision>> /\ indexLock' = indexLock \ {p}
        /\ Step(p, Idle)
    BY <1>6 DEF Kill, Exit, archive, world
  <2>1. ProcSound(p)'
    BY <1>q, <2>0, IdleSound
  <2>2. IndexSound'
    BY <1>0, <2>0 DEF IndexSound, LayoutValid, Mixed
  <2>3. Calm(p)
    BY <1>q, <2>0 DEF Calm
  <2>4. /\ RowsOf(files) \subseteq RowsOf(files')
        /\ Visible \subseteq RowsOf(index'.parts \cap files')
    BY <2>0 DEF Visible
  <2> QED
    BY <2>1, <2>2, <2>3, <2>4 DEF StepSound
<1> QED
  BY <1>1, <1>2, <1>3, <1>4, <1>5, <1>6

\* Every step keeps the invariant and loses no row on disk or in the catalog.
LEMMA ArchiveStep ==
    ASSUME ConstantsOK, Undisturbed, ArchiveInv, [Next]_vars
    PROVE  /\ ArchiveInv'
           /\ RowsOf(files) \subseteq RowsOf(files')
           /\ Visible \subseteq RowsOf(index'.parts \cap files')
<1>1. TypeOK'
  BY TypesKept DEF ArchiveInv
<1>2. ASSUME NEW p \in Procs, StepSound(p)
      PROVE  /\ ArchiveInv' /\ RowsOf(files) \subseteq RowsOf(files')
             /\ Visible \subseteq RowsOf(index'.parts \cap files')
  <2>1. IndexSound' /\ ProcSound(p)' /\ Calm(p)
    BY <1>2 DEF StepSound
  <2>2. \A q \in Procs : ProcSound(q)'
    BY <2>1, OthersSound
  <2> QED
    BY <1>1, <1>2, <2>1, <2>2 DEF ArchiveInv, StepSound
<1>3. CASE PublishDay \/ PassMonth \/ UNCHANGED vars
  <2>1. UNCHANGED <<files, index, vision, indexLock, proc>>
    BY <1>3 DEF PublishDay, PassMonth, vars, archive, locks
  <2>2. IndexSound'
    BY <2>1 DEF ArchiveInv, IndexSound, LayoutValid, Mixed
  <2>3. \A p \in Procs : ProcSound(p)'
    BY <2>1 DEF ArchiveInv, ProcSound, RunSound, RetiredSound, RepairSound, WriterSound,
                Covered, LayoutValid, Mixed, RowsOf, RowsIn
  <2> QED
    BY <1>1, <2>1, <2>2, <2>3 DEF ArchiveInv, Visible
<1>4. ASSUME NEW p \in Procs,
             \/ \E tool \in {"download", "index"} : StartCommand(p, tool)
             \/ Work(p) \/ FailJob(p) \/ Kill(p)
      PROVE  StepSound(p)
  BY <1>4, RepairSteps, RemoveStep, JobSteps, RetireStep, IndexSteps DEF Work
<1> QED
  BY <1>2, <1>3, <1>4 DEF Next

\* The archive that no command has touched has values of its types.
LEMMA InitTyped == ASSUME ConstantsOK, Init PROVE TypeOK
<1>1. metaOk \in BOOLEAN /\ dirs \in BOOLEAN
  BY Zenon DEF Init
<1>2. index \in [present : BOOLEAN, parts : SUBSET Parts]
  BY DEF Init
<1>3. proc \in [Procs -> ProcStates]
  BY IdleTyped DEF Init
<1>4. upTo \in 0 .. LastDay /\ faults \in 0 .. MaxFaults /\ files \subseteq Parts
  BY DEF Init, ConstantsOK
<1>5. indexLock \in LockStates /\ monthLock \in LockStates
  BY DEF Init, LockStates
<1> QED
  BY <1>1, <1>2, <1>3, <1>4, <1>5 DEF Init, TypeOK

\* The types hold for any number of commands and any timeframe.
THEOREM ArchiveTypes == ASSUME ConstantsOK PROVE Spec => []TypeOK
<1>1. Init => TypeOK
  BY InitTyped
<1>2. TypeOK /\ [Next]_vars => TypeOK'
  BY TypesKept
<1> QED
  BY <1>1, <1>2, PTL DEF Spec

\* For a month of any length, any content of the monthly file and any number of
\* failures and kills: one command at a time, or any number of them on the 1s
\* timeframe, keep the inductive invariant.
THEOREM ArchiveInvariant == ASSUME ConstantsOK, Undisturbed PROVE Spec => []ArchiveInv
<1>1. Init => ArchiveInv
  <2> SUFFICES ASSUME Init PROVE ArchiveInv
    OBVIOUS
  <2>1. TypeOK
    BY InitTyped
  <2>2. IndexSound
    BY DEF Init, IndexSound, LayoutValid, Mixed
  <2>3. ASSUME NEW p \in Procs PROVE ProcSound(p)
    <3>1. proc[p] = Idle /\ indexLock = {}
      BY DEF Init
    <3>2. /\ proc[p].pc = "idle" /\ proc[p].changed = {} /\ proc[p].retired = {}
          /\ proc[p].removed = FALSE /\ proc[p].todo = {}
      BY <3>1 DEF Idle
    <3> QED
      BY <3>1, <3>2 DEF ProcSound, RunSound, RetiredSound, RepairSound, WriterSound
  <2> QED
    BY <2>1, <2>2, <2>3 DEF ArchiveInv
<1>2. ArchiveInv /\ [Next]_vars => ArchiveInv'
  BY ArchiveStep
<1> QED
  BY <1>1, <1>2, PTL DEF Spec

\* An index that load_archive_index accepts only names partitions that exist, in
\* one layout, at every step of every such history.
THEOREM IndexIsServed ==
    ASSUME ConstantsOK, Undisturbed PROVE Spec => []CompleteIndexIsServed
<1>1. ArchiveInv => CompleteIndexIsServed
  BY DEF ArchiveInv, IndexSound, CompleteIndexIsServed
<1> QED
  BY <1>1, ArchiveInvariant, PTL

\* What is shown of every step of a process without any assumption on the others:
\* a file goes while those it counts on hold its rows, or they have gone.
RemovalStep(p) ==
    /\ RemovalSound(p)' /\ vision' = vision
    /\ \A q \in Procs : q # p => proc'[q] = proc[q]
    /\ RowsOf(files) \subseteq RowsOf(files') \/ Bereft(p)

\* A step that removes nothing and does not begin to.
LEMMA PlainRemoval ==
    ASSUME TypeOK, NEW p \in Procs, RemovalSound(p), NEW t, Step(p, t), vision' = vision,
           files \subseteq files', t.retired \in {{}, proc[p].retired},
           t.pc \notin {"recheck", "remove"}
    PROVE  RemovalStep(p)
<1>1. proc'[p] = t /\ \A q \in Procs : q # p => proc'[q] = proc[q]
  BY DEF Step, TypeOK
<1>2. RemovalSound(p)'
  BY <1>1 DEF RemovalSound, RowsOf, RowsIn
<1>3. RowsOf(files) \subseteq RowsOf(files')
  BY DEF RowsOf, RowsIn
<1> QED
  BY <1>1, <1>2, <1>3 DEF RemovalStep

\* A command that ends has nothing left to remove.
LEMMA ExitRemoval ==
    ASSUME TypeOK, NEW p \in Procs, RemovalSound(p), Exit(p), UNCHANGED <<files, vision>>
    PROVE  RemovalStep(p)
<1>1. Step(p, Idle) /\ Idle.retired = {} /\ Idle.pc = "idle"
  BY DEF Exit, Idle
<1> QED
  BY <1>1, PlainRemoval

\* So has one that goes on to a step other than the repair's.
LEMMA GotoRemoval ==
    ASSUME TypeOK, NEW p \in Procs, RemovalSound(p),
           NEW c \in PCs \ {"recheck", "remove"}, Step(p, Goto(p, c)), UNCHANGED <<files, vision>>
    PROVE  RemovalStep(p)
<1>1. Goto(p, c).pc = c /\ Goto(p, c).retired = proc[p].retired
  BY GotoTyped DEF TypeOK
<1> QED
  BY <1>1, PlainRemoval

\* The repair: it drops what it does not keep, once the rest holds its rows.
LEMMA RepairRemoval ==
    ASSUME ConstantsOK, TypeOK, NEW p \in Procs, RemovalSound(p),
           ScanMonth(p) \/ RecheckMonth(p) \/ RemoveInactive(p)
    PROVE  RemovalStep(p)
<1>0. /\ proc \in [Procs -> ProcStates] /\ proc[p] \in ProcStates
      /\ AfterRepair(p) \in PCs \ {"recheck", "remove"}
  BY DEF TypeOK, AfterRepair, PCs
<1>q. ASSUME NEW t, Step(p, t)
      PROVE  proc'[p] = t /\ \A q \in Procs : q # p => proc'[q] = proc[q]
  BY <1>0, <1>q DEF Step
<1>1. CASE ScanMonth(p)
  <2> DEFINE keep == KeptSide(proc[p].layout, files)
  <2>1. UNCHANGED <<files, vision>>
    BY <1>1 DEF ScanMonth, archive, world
  <2>2. \/ Step(p, Goto(p, AfterRepair(p)))
        \/ Step(p, [Goto(p, "recheck") EXCEPT !.cover = keep, !.drop = files \ keep])
        \/ Exit(p)
    BY <1>1 DEF ScanMonth
  <2>3. CASE Step(p, [Goto(p, "recheck") EXCEPT !.cover = keep, !.drop = files \ keep])
    <3>1. proc'[p] = [Goto(p, "recheck") EXCEPT !.cover = keep, !.drop = files \ keep]
      BY <2>3, <1>q
    <3>2. /\ proc'[p].pc = "recheck" /\ proc'[p].cover = keep /\ proc'[p].drop = files \ keep
          /\ proc'[p].retired = proc[p].retired
      BY <1>0, <3>1 DEF Goto, ProcStates
    <3>3. RemovalSound(p)'
      BY <2>1, <3>2 DEF RemovalSound, RowsOf, RowsIn
    <3> QED
      BY <1>q, <2>1, <2>3, <3>3 DEF RemovalStep
  <2> QED
    BY <1>0, <2>1, <2>2, <2>3, GotoRemoval, ExitRemoval
<1>2. CASE RecheckMonth(p)
  <2>1. UNCHANGED <<files, vision>> /\ proc[p].pc = "recheck"
    BY <1>2 DEF RecheckMonth, archive, world
  <2>2. CASE Covered(proc[p].drop, proc[p].cover) /\ Step(p, Goto(p, "remove"))
    <3>1. proc'[p] = Goto(p, "remove")
      BY <2>2, <1>q
    <3>2. /\ proc'[p].pc = "remove" /\ proc'[p].cover = proc[p].cover
          /\ proc'[p].drop = proc[p].drop /\ proc'[p].retired = proc[p].retired
      BY <1>0, <3>1 DEF Goto, ProcStates
    <3>3. RemovalSound(p)'
      BY <2>1, <2>2, <3>2 DEF RemovalSound, Covered, RowsOf, RowsIn
    <3> QED
      BY <1>q, <2>1, <2>2, <3>3 DEF RemovalStep
  <2> QED
    BY <1>2, <2>1, <2>2, ExitRemoval DEF RecheckMonth
<1>3. CASE RemoveInactive(p)
  <2>0. vision' = vision /\ proc[p].pc = "remove"
    BY <1>3 DEF RemoveInactive, world
  <2>1. CASE /\ UNCHANGED files
             /\ Step(p, Goto(p, IF proc[p].removed THEN "build" ELSE AfterRepair(p)))
    <3>1. (IF proc[p].removed THEN "build" ELSE AfterRepair(p)) \in PCs \ {"recheck", "remove"}
      BY <1>0 DEF PCs
    <3> QED
      BY <2>0, <2>1, <3>1, GotoRemoval
  <2>2. ASSUME NEW f \in proc[p].drop \cap files, files' = files \ {f},
               Step(p, [proc[p] EXCEPT !.drop = @ \ {f}, !.removed = TRUE])
        PROVE  RemovalStep(p)
    <3>1. proc'[p] = [proc[p] EXCEPT !.drop = @ \ {f}, !.removed = TRUE]
      BY <2>2, <1>q
    <3>2. /\ proc'[p].pc = "remove" /\ proc'[p].cover = proc[p].cover
          /\ proc'[p].drop = proc[p].drop \ {f} /\ proc'[p].retired = proc[p].retired
      BY <1>0, <2>0, <3>1 DEF ProcStates
    <3>3. /\ proc[p].cover \cap proc[p].drop = {}
          /\ RowsOf(proc[p].drop) \subseteq RowsOf(proc[p].cover)
      BY <2>0 DEF RemovalSound
    <3>4. RemovalSound(p)'
      BY <2>0, <3>2, <3>3 DEF RemovalSound, RowsOf, RowsIn
    <3>5. CASE proc[p].cover \subseteq files
      <4>1. RowsIn(f) \subseteq RowsOf(proc[p].cover) /\ proc[p].cover \subseteq files'
        BY <2>2, <3>3, <3>5 DEF RowsOf
      <4>2. RowsOf(files) \subseteq RowsOf(files')
        BY <2>0, <2>2, <4>1 DEF RowsOf, RowsIn
      <4> QED
        BY <1>q, <2>0, <2>2, <3>4, <4>2 DEF RemovalStep
    <3>6. CASE ~(proc[p].cover \subseteq files)
      BY <1>3, <1>q, <2>0, <2>2, <3>4, <3>6 DEF RemovalStep, Bereft
    <3> QED
      BY <3>5, <3>6
  <2> QED
    BY <1>3, <2>1, <2>2, Zenon DEF RemoveInactive
<1> QED
  BY <1>1, <1>2, <1>3

\* The jobs and the close: the monthly file retires days whose rows it holds.
LEMMA CloseRemoval ==
    ASSUME ConstantsOK, TypeOK, NEW p \in Procs, RemovalSound(p), FinishJob(p) \/ RetireFiles(p)
    PROVE  RemovalStep(p)
<1>0. proc \in [Procs -> ProcStates] /\ proc[p] \in ProcStates /\ vision' = vision
  BY DEF TypeOK, FinishJob, RetireFiles, world
<1>q. ASSUME NEW t, Step(p, t)
      PROVE  proc'[p] = t /\ \A q \in Procs : q # p => proc'[q] = proc[q]
  BY <1>0, <1>q DEF Step
<1>1. CASE FinishJob(p)
  <2>1. PICK part \in proc[p].todo :
          LET rest == [proc[p] EXCEPT !.todo = @ \ {part}]
              gone == IF part = 0 THEN files \cap Days ELSE {}
          IN  \/ Step(p, rest) /\ UNCHANGED files
              \/ /\ Accepts(part) /\ files' = files \cup {part}
                 /\ Step(p, [rest EXCEPT
                               !.changed = @ \cup {part},
                               !.retired = @ \cup gone,
                               !.known = IF proc[p].indexed
                                         THEN (@ \cup {part}) \ gone ELSE @])
    BY <1>1 DEF FinishJob
  <2> DEFINE gone == IF part = 0 THEN files \cap Days ELSE {}
  <2>2. proc[p].pc = "jobs" /\ files \subseteq files'
    BY <1>1, <2>1 DEF FinishJob
  <2> DEFINE rest == [proc[p] EXCEPT !.todo = @ \ {part}]
             more == [rest EXCEPT !.changed = @ \cup {part}, !.retired = @ \cup gone,
                                  !.known = IF proc[p].indexed
                                            THEN (@ \cup {part}) \ gone ELSE @]
  <2>r. rest.pc = "jobs" /\ rest.retired = proc[p].retired
    BY <1>0, <2>2 DEF ProcStates
  <2>m. more.pc = "jobs" /\ more.retired = proc[p].retired \cup gone
    BY <1>0, <2>2 DEF ProcStates
  <2>p. \/ proc'[p] = rest
        \/ Accepts(part) /\ proc'[p] = more
    BY <1>q, <2>1, Zenon
  <2>3. /\ proc'[p].pc = "jobs"
        /\ \/ proc'[p].retired = proc[p].retired
           \/ Accepts(part) /\ proc'[p].retired = proc[p].retired \cup gone
        /\ \A q \in Procs : q # p => proc'[q] = proc[q]
    <3>1. \A q \in Procs : q # p => proc'[q] = proc[q]
      BY <1>q, <2>1, Zenon
    <3> HIDE DEF rest, more, gone
    <3> QED
      BY <2>r, <2>m, <2>p, <3>1
  <2>4. Accepts(part) => gone \subseteq Days /\ RowsOf(gone) \subseteq vision
    BY DEF Accepts, RowsOf
  <2>5. RemovalSound(p)'
    BY <1>0, <2>3, <2>4 DEF RemovalSound, RowsOf, RowsIn
  <2>6. RowsOf(files) \subseteq RowsOf(files')
    BY <1>0, <2>2 DEF RowsOf, RowsIn
  <2> QED
    BY <1>0, <2>3, <2>5, <2>6 DEF RemovalStep
<1>2. CASE RetireFiles(p)
  <2>0. proc[p].pc = "retire"
    BY <1>2 DEF RetireFiles
  <2>1. CASE UNCHANGED files /\ (Exit(p) \/ Step(p, Goto(p, "build")))
    BY <1>0, <2>1, ExitRemoval, GotoRemoval DEF PCs
  <2>2. ASSUME NEW f \in proc[p].retired \cap files, files' = files \ {f},
               Step(p, [proc[p] EXCEPT !.retired = @ \ {f}])
        PROVE  RemovalStep(p)
    <3>1. proc'[p] = [proc[p] EXCEPT !.retired = @ \ {f}]
      BY <2>2, <1>q
    <3>2. proc'[p].pc = "retire" /\ proc'[p].retired = proc[p].retired \ {f}
      BY <1>0, <2>0, <3>1 DEF ProcStates
    <3>3. RemovalSound(p)'
      BY <1>0, <3>2 DEF RemovalSound, RowsOf, RowsIn
    <3>4. f \in Days /\ f # 0 /\ RowsIn(f) \subseteq vision
      BY <2>2 DEF RemovalSound, RowsOf, Days
    <3>5. CASE 0 \in files
      <4>1. 0 \in files' /\ RowsIn(0) = vision
        BY <2>2, <3>4, <3>5 DEF RowsIn
      <4>2. RowsOf(files) \subseteq RowsOf(files')
        BY <1>0, <2>2, <3>4, <4>1 DEF RowsOf, RowsIn
      <4> QED
        BY <1>0, <1>q, <2>2, <3>3, <4>2 DEF RemovalStep
    <3>6. CASE 0 \notin files
      BY <1>0, <1>2, <1>q, <2>2, <3>3, <3>6 DEF RemovalStep, Bereft
    <3> QED
      BY <3>5, <3>6
  <2> QED
    BY <1>2, <2>1, <2>2, Zenon DEF RetireFiles
<1> QED
  BY <1>1, <1>2

\* Every step of a process.
LEMMA EveryRemoval ==
    ASSUME ConstantsOK, TypeOK, NEW p \in Procs, RemovalSound(p),
           \/ \E tool \in {"download", "index"} : StartCommand(p, tool)
           \/ Work(p) \/ FailJob(p) \/ Kill(p)
    PROVE  RemovalStep(p)
<1>0. proc[p] \in ProcStates
  BY DEF TypeOK
<1>f. ASSUME NEW c \in PCs PROVE Goto(p, c).pc = c /\ Goto(p, c).retired = proc[p].retired
  BY GotoTyped DEF TypeOK
<1>1. ASSUME NEW tool \in {"download", "index"}, StartCommand(p, tool) PROVE RemovalStep(p)
  <2> DEFINE t == [Idle EXCEPT !.pc = "layout", !.tool = tool]
  <2>1. Step(p, t) /\ UNCHANGED <<files, vision>> /\ t.retired = {} /\ t.pc = "layout"
    BY <1>1 DEF StartCommand, archive, world, Idle
  <2> QED
    BY <2>1, PlainRemoval
<1>2. CASE ReadLayout(p)
  <2> DEFINE t == [Goto(p, "scan") EXCEPT !.layout = IF index.present THEN index.parts ELSE {}]
  <2>1. Step(p, t) /\ UNCHANGED <<files, vision>>
    BY <1>2 DEF ReadLayout, archive, world
  <2>2. t.retired = proc[p].retired /\ t.pc = "scan"
    BY <1>0 DEF Goto, ProcStates
  <2> QED
    BY <2>1, <2>2, PlainRemoval
<1>3. CASE OpenArchive(p)
  <2> DEFINE t == [Goto(p, "jobs") EXCEPT !.indexed = index.present,
                     !.known = index.parts, !.todo = Jobs]
  <2>1. (Step(p, t) \/ Exit(p)) /\ UNCHANGED <<files, vision>>
    BY <1>3 DEF OpenArchive, archive, world
  <2>2. t.retired = proc[p].retired /\ t.pc = "jobs"
    BY <1>0 DEF Goto, ProcStates
  <2> QED
    BY <2>1, <2>2, PlainRemoval, ExitRemoval
<1>4. CASE RefuseJob(p) \/ FailJob(p)
  <2> DEFINE t == [Goto(p, "close") EXCEPT !.todo = {}]
  <2>1. Step(p, t) /\ UNCHANGED <<files, vision>>
    BY <1>4 DEF RefuseJob, FailJob, archive, world
  <2>2. t.retired = proc[p].retired /\ t.pc = "close"
    BY <1>0 DEF Goto, ProcStates
  <2> QED
    BY <2>1, <2>2, PlainRemoval
<1>5. CASE ScanForIndex(p) \/ MergeIndex(p)
  <2>1. PICK S : (Step(p, [Goto(p, "windex") EXCEPT !.rec = S]) \/ Exit(p))
                   /\ UNCHANGED <<files, vision>>
    BY <1>5 DEF ScanForIndex, MergeIndex, archive, world
  <2>2. /\ [Goto(p, "windex") EXCEPT !.rec = S].retired = proc[p].retired
        /\ [Goto(p, "windex") EXCEPT !.rec = S].pc = "windex"
    BY <1>0 DEF Goto, ProcStates
  <2> QED
    BY <2>1, <2>2, PlainRemoval, ExitRemoval
<1>6. CASE ReplaceMeta(p)
  <2> DEFINE t == [Goto(p, AfterIndex(p)) EXCEPT !.rec = {}, !.removed = FALSE]
  <2>1. Step(p, t) /\ UNCHANGED <<files, vision>>
    BY <1>6 DEF ReplaceMeta, world
  <2>2. t.retired = proc[p].retired /\ t.pc \in {"retire", "gate", "finish"}
    BY <1>0 DEF Goto, ProcStates, AfterIndex
  <2> QED
    BY <2>1, <2>2, PlainRemoval
<1>7. CASE RequireIndex(p) \/ EndJobs(p) \/ CloseArchive(p) \/ ReplaceIndex(p)
  <2>1. UNCHANGED <<files, vision>>
    BY <1>7 DEF RequireIndex, EndJobs, CloseArchive, ReplaceIndex, archive, world
  <2>2. Exit(p) \/ \E c \in {"open", "close", "update", "retire", "wmeta"} : Step(p, Goto(p, c))
    BY <1>7 DEF RequireIndex, EndJobs, CloseArchive, ReplaceIndex
  <2> QED
    BY <2>1, <2>2, GotoRemoval, ExitRemoval DEF PCs
<1>8. CASE Finish(p) \/ Kill(p)
  BY <1>8, ExitRemoval DEF Finish, Kill, archive, world
<1> QED
  BY <1>1, <1>2, <1>3, <1>4, <1>5, <1>6, <1>7, <1>8, RepairRemoval, CloseRemoval DEF Work

\* Any number of commands at once keep what their removals rest on.
THEOREM RemovalsAreCovered ==
    ASSUME ConstantsOK PROVE Spec => [](\A p \in Procs : RemovalSound(p))
<1> DEFINE RInv == \A p \in Procs : RemovalSound(p)
<1>1. Init => RInv
  <2> SUFFICES ASSUME Init, NEW p \in Procs PROVE RemovalSound(p)
    OBVIOUS
  <2>1. proc[p].retired = {} /\ proc[p].pc = "idle"
    BY DEF Init, Idle
  <2>2. RowsOf({}) = {}
    BY DEF RowsOf
  <2> QED
    BY <2>1, <2>2 DEF RemovalSound
<1>2. TypeOK /\ RInv /\ [Next]_vars => RInv'
  <2> SUFFICES ASSUME TypeOK, RInv, [Next]_vars PROVE RInv'
    OBVIOUS
  <2>1. CASE PublishDay \/ PassMonth \/ UNCHANGED vars
    <3>1. UNCHANGED <<vision, proc>>
      BY <2>1 DEF PublishDay, PassMonth, vars
    <3> QED
      BY <3>1 DEF RemovalSound, RowsOf, RowsIn
  <2>2. ASSUME NEW p \in Procs,
               \/ \E tool \in {"download", "index"} : StartCommand(p, tool)
               \/ Work(p) \/ FailJob(p) \/ Kill(p)
        PROVE  RInv'
    <3>1. RemovalStep(p)
      BY <2>2, EveryRemoval
    <3>2. ASSUME NEW q \in Procs, q # p PROVE RemovalSound(q)'
      BY <3>1, <3>2 DEF RemovalStep, RemovalSound, RowsOf, RowsIn
    <3> QED
      BY <3>1, <3>2 DEF RemovalStep
  <2> QED
    BY <2>1, <2>2 DEF Next
<1> QED
  BY <1>1, <1>2, ArchiveTypes, PTL DEF Spec

\* For any number of commands that run, fail and are killed at once: compaction,
\* repair and close remove the last copy of a day only when another command has
\* removed the file that was to hold it; a command that is alone never does.
THEOREM NoRowVanishes == ASSUME ConstantsOK PROVE Spec => RowsNeverVanish
<1> DEFINE RInv == \A p \in Procs : RemovalSound(p)
           Kept == \/ RowsOf(files) \subseteq RowsOf(files')
                   \/ \E p, r \in Procs : p # r /\ Bereft(p)
<1>1. CASE Undisturbed
  <2>1. ArchiveInv /\ [Next]_vars => [Kept]_vars
    BY <1>1, ArchiveStep
  <2> QED
    BY <1>1, <2>1, ArchiveInvariant, PTL DEF Spec, RowsNeverVanish
<1>2. CASE ~Undisturbed
  <2>1. TypeOK /\ RInv /\ [Next]_vars => [Kept]_vars
    <3> SUFFICES ASSUME TypeOK, RInv, Next PROVE Kept
      OBVIOUS
    <3>1. CASE PublishDay \/ PassMonth
      BY <3>1 DEF PublishDay, PassMonth, archive, RowsOf, RowsIn
    <3>2. ASSUME NEW p \in Procs,
                 \/ \E tool \in {"download", "index"} : StartCommand(p, tool)
                 \/ Work(p) \/ FailJob(p) \/ Kill(p)
          PROVE  Kept
      <4>1. RemovalStep(p)
        BY <3>2, EveryRemoval
      <4>2. \E r \in Procs : p # r
        BY <1>2 DEF Undisturbed
      <4> QED
        BY <4>1, <4>2 DEF RemovalStep
    <3> QED
      BY <3>1, <3>2 DEF Next
  <2> QED
    BY <2>1, RemovalsAreCovered, ArchiveTypes, PTL DEF Spec, RowsNeverVanish
<1> QED
  BY <1>1, <1>2

\* No publication of an index and no removal of a file takes a day from the
\* readers of the catalog.
THEOREM ReadersKeepRows == ASSUME ConstantsOK, Undisturbed PROVE Spec => ReadersNeverLoseRows
<1>1. ArchiveInv /\ [Next]_vars => [Visible \subseteq RowsOf(index'.parts \cap files')]_vars
  BY ArchiveStep
<1> QED
  BY <1>1, ArchiveInvariant, PTL DEF Spec, ReadersNeverLoseRows
=============================================================================
