--------------------------- MODULE JournalProofs ---------------------------
(***************************************************************************)
(* The durable event journal keeps what append() returned, whatever writes *)
(* fail, transactions roll back or processes die.  The argument is about   *)
(* the disk: the file and the table together only gain records (Appended,  *)
(* Persisted, Compacted), because memory mirrors the file while a process  *)
(* runs and the batch that compaction drops is a prefix the table has.     *)
(* A thread that outlives its cancelled task breaks exactly that, so the   *)
(* theorems assume that stop() finds no file operation under way.          *)
(***************************************************************************)
EXTENDS EventJournal, SequenceTheorems, WellFoundedInduction, TLAPS

\* A bounded non-empty set of naturals has a maximum.
LEMMA MaxExists ==
  ASSUME NEW N \in Nat, NEW S \in SUBSET (0..N), S # {}
  PROVE  Max(S) \in S /\ \A y \in S : Max(S) >= y
<1> DEFINE T == {k \in Nat : \E x \in S : k = N - x}
<1>1. T \subseteq Nat /\ \A x \in S : N - x \in T
  OBVIOUS
<1>6. T # {}
  BY <1>1, Zenon
<1>2. PICK t \in T : \A u \in T : ~(<<u, t>> \in OpToRel(<, Nat))
  BY <1>1, <1>6, WFMin, NatLessThanWellFounded
<1>3. \A u \in T : ~(u < t)
  BY <1>1, <1>2, Zenon DEF OpToRel
<1>4. PICK m \in S : t = N - m
  OBVIOUS
<1>5. \A y \in S : m >= y
  <2> SUFFICES ASSUME NEW y \in S PROVE m >= y
    OBVIOUS
  <2>1. ~(N - y < N - m)
    BY <1>1, <1>3, <1>4
  <2> QED BY <2>1
<1> QED BY <1>5, Zenon DEF Max

\* A prefix, element by element.
LEMMA PrefixElements ==
  ASSUME NEW S, NEW s \in Seq(S), NEW t \in Seq(S)
  PROVE  IsPrefix(s, t) <=> Len(s) <= Len(t) /\ \A i \in 1..Len(s) : s[i] = t[i]
<1>1. SubSeq(s, 1, Len(s)) = s
  BY SubSeqFull
<1>2. ASSUME Len(s) <= Len(t)
      PROVE  /\ Len(SubSeq(t, 1, Len(s))) = Len(s)
             /\ SubSeq(t, 1, Len(s)) \in Seq(S)
             /\ \A i \in 1..Len(s) : SubSeq(t, 1, Len(s))[i] = t[i]
  BY <1>2, SubSeqProperties
<1>3. ASSUME IsPrefix(s, t)
      PROVE  Len(s) <= Len(t) /\ \A i \in 1..Len(s) : s[i] = t[i]
  BY <1>1, <1>2, <1>3 DEF IsPrefix
<1>4. ASSUME Len(s) <= Len(t), \A i \in 1..Len(s) : s[i] = t[i]
      PROVE  IsPrefix(s, t)
  <2> DEFINE u == SubSeq(t, 1, Len(s))
  <2>1. u \in Seq(S) /\ Len(u) = Len(s) /\ \A i \in 1..Len(s) : u[i] = s[i]
    BY <1>2, <1>4
  <2> HIDE DEF u
  <2>2. u = s
    BY <2>1, SeqEqual
  <2> QED BY <1>1, <1>4, <2>2 DEF IsPrefix, u
<1> QED BY <1>3, <1>4

-----------------------------------------------------------------------------
(* The file and the table *)

\* What _ensure_local_loaded_locked yields: the records of the file, and the
\* last sequence of this run.
LEMMA Loading ==
  ASSUME ConstantsOK, TypeOK, JournalInv, phase # "down"
  PROVE  /\ LoadedPending = file
         /\ LoadedSeq \in 0..ids
         /\ \A n \in 1..LoadedSeq : \E d \in OnDisk : d.run = run /\ d.seq = n
<1>1. LoadedPending = file
  BY DEF LoadedPending, JournalInv, Contents
<1>2. ids \in Nat /\ MaxEvents \in Nat /\ nextSeq \in Nat /\ file \in Seq(Event)
  BY DEF JournalInv, Tasks, TypeOK, ConstantsOK
<1>3. CASE loaded
  BY <1>1, <1>2, <1>3 DEF LoadedSeq, JournalInv, Contents
<1>4. CASE ~loaded
  <2> DEFINE S == Sequences(file) \cup {0}
  <2>1. \A i \in DOMAIN file : file[i] \in OnDisk /\ file[i] \in Event
    BY <1>2 DEF OnDisk, Range
  <2>2. \A i \in DOMAIN file : file[i].seq \in 1..ids
    <3>1. \A e \in Event : Numbered(e) => e.seq \in 1..ids
      BY <1>2 DEF Event, Numbered
    <3> QED BY <2>1, <3>1 DEF JournalInv, Contents
  <2>3. S \in SUBSET (0..ids) /\ S # {}
    BY <1>2, <2>2 DEF Sequences
  <2>4. LoadedSeq = Max(S) /\ Max(S) \in S
    BY <1>2, <1>4, <2>3, MaxExists, Zenon DEF LoadedSeq
  <2>5. CASE LoadedSeq = 0
    BY <1>1, <1>2, <2>5
  <2>6. CASE LoadedSeq # 0
    <3>1. PICK i \in DOMAIN file : file[i].run = run /\ file[i].seq = LoadedSeq
      BY <2>4, <2>6 DEF Sequences
    <3>2. LoadedSeq \in 1..ids
      BY <2>2, <3>1
    <3>3. ASSUME NEW n \in 1..LoadedSeq
          PROVE  \E d \in OnDisk : d.run = run /\ d.seq = n
      <4>1. CASE n = LoadedSeq
        BY <2>1, <3>1, <4>1
      <4>2. CASE n # LoadedSeq
        <5>1. n \in 1..(file[i].seq - 1)
          BY <3>1, <3>2, <4>2
        <5>2. PICK d \in db \cup {file[j] : j \in 1..(i - 1)} : d.run = run /\ d.seq = n
          BY <3>1, <5>1 DEF JournalInv, Contents, Follows
        <5>3. d \in OnDisk
          BY <1>2, <5>2 DEF OnDisk, Range
        <5> QED BY <5>2, <5>3
      <4> QED BY <4>1, <4>2
    <3> QED BY <1>1, <1>2, <3>2, <3>3
  <2> QED BY <1>1, <2>5, <2>6
<1> QED BY <1>1, <1>3, <1>4

\* The parts of the invariant that speak of what is on disk.
OnDiskOK ==
  /\ file \in Seq(Event) /\ db \subseteq Event
  /\ \A e \in OnDisk : Numbered(e)
  /\ \A i \in DOMAIN file : Follows(file[i], db \cup {file[j] : j \in 1..(i - 1)})
  /\ DbHasNoGaps

\* The record append() is writing reaches the file.
LEMMA Appended ==
  ASSUME ConstantsOK, TypeOK, JournalInv, app # None,
         file' = Append(file, app), UNCHANGED <<db, ids>>
  PROVE  /\ OnDiskOK' /\ OnDisk' = OnDisk \cup {app}
         /\ \A b \in Seq(Event) : IsPrefix(b, file) => IsPrefix(b, file')
<1>1. /\ file \in Seq(Event) /\ app \in Event /\ app.seq = nextSeq + 1 /\ app.id = ids
      /\ app.run = run /\ nextSeq < ids /\ nextSeq \in Nat /\ ids \in Nat /\ loaded
  BY DEF TypeOK, JournalInv, Tasks
<1>2. /\ file' \in Seq(Event) /\ Len(file') = Len(file) + 1
      /\ file'[Len(file) + 1] = app
      /\ \A i \in 1..Len(file) : file'[i] = file[i]
  BY <1>1
<1>3. DOMAIN file = 1..Len(file) /\ DOMAIN file' = 1..(Len(file) + 1) /\ Len(file) \in Nat
  BY <1>1, <1>2
<1>4. OnDisk' = OnDisk \cup {app}
  <2>1. Range(file') = Range(file) \cup {app}
    <3>1. Range(file') \subseteq Range(file) \cup {app}
      BY <1>2, <1>3 DEF Range
    <3>2. Range(file) \cup {app} \subseteq Range(file')
      BY <1>2, <1>3 DEF Range
    <3> QED BY <3>1, <3>2
  <2> QED BY <2>1 DEF OnDisk
<1>5. \A e \in OnDisk' : Numbered(e)'
  <2>1. \A e \in OnDisk : Numbered(e)
    BY DEF JournalInv, Contents
  <2>2. Numbered(app)
    BY <1>1 DEF Numbered
  <2> QED BY <1>4, <2>1, <2>2 DEF Numbered
<1>6. ASSUME NEW i \in DOMAIN file'
      PROVE  Follows(file'[i], db \cup {file'[j] : j \in 1..(i - 1)})
  <2>1. CASE i \in 1..Len(file)
    <3>1. \A j \in 1..(i - 1) : file'[j] = file[j]
      BY <1>2, <1>3, <2>1
    <3>2. Follows(file[i], db \cup {file[j] : j \in 1..(i - 1)})
      BY <1>3, <2>1 DEF JournalInv, Contents
    <3>3. {file'[j] : j \in 1..(i - 1)} = {file[j] : j \in 1..(i - 1)}
      BY <3>1
    <3> QED BY <1>2, <2>1, <3>2, <3>3, Zenon
  <2>2. CASE i = Len(file) + 1
    <3>1. \A n \in 1..nextSeq : \E d \in OnDisk : d.run = run /\ d.seq = n
      BY <1>1 DEF JournalInv, Contents
    <3>2. OnDisk = db \cup {file'[j] : j \in 1..(i - 1)}
      <4>1. \A j \in 1..(i - 1) : file'[j] = file[j]
        BY <1>2, <1>3, <2>2
      <4>2. Range(file) = {file'[j] : j \in 1..(i - 1)}
        BY <1>3, <2>2, <4>1 DEF Range
      <4> QED BY <4>2 DEF OnDisk
    <3>3. app.seq - 1 = nextSeq
      BY <1>1
    <3> QED BY <1>1, <1>2, <2>2, <3>1, <3>2, <3>3 DEF Follows
  <2>3. i \in 1..Len(file) \/ i = Len(file) + 1
    BY <1>3
  <2> QED BY <2>1, <2>2, <2>3, Zenon
<1>7. ASSUME NEW b \in Seq(Event), IsPrefix(b, file)
      PROVE  IsPrefix(b, file')
  <2>1. Len(b) <= Len(file) /\ \A i \in 1..Len(b) : b[i] = file[i]
    BY <1>1, <1>7, PrefixElements
  <2>2. Len(b) <= Len(file') /\ \A i \in 1..Len(b) : b[i] = file'[i]
    BY <1>2, <1>3, <2>1
  <2> QED BY <1>2, <2>2, PrefixElements, Zenon
<1>8. DbHasNoGaps'
  BY DEF JournalInv, DbHasNoGaps
<1>9. \A i \in DOMAIN file' : Follows(file[i], db \cup {file[j] : j \in 1..(i - 1)})'
  BY <1>6 DEF Follows
<1>10. db' \subseteq Event
  BY DEF TypeOK
<1> QED BY <1>2, <1>4, <1>5, <1>7, <1>8, <1>9, <1>10, Zenon DEF OnDiskOK

\* The transaction that stores a prefix of the file.
LEMMA Persisted ==
  ASSUME ConstantsOK, TypeOK, JournalInv, IsPrefix(batch, file),
         db' = db \cup Range(batch), UNCHANGED <<file, ids>>
  PROVE  OnDiskOK' /\ OnDisk' = OnDisk
<1>1. file \in Seq(Event) /\ batch \in Seq(Event) /\ db \subseteq Event
  BY DEF TypeOK
<1>2. Len(batch) <= Len(file) /\ \A i \in 1..Len(batch) : batch[i] = file[i]
  BY <1>1, PrefixElements
<1>3. /\ DOMAIN file = 1..Len(file) /\ DOMAIN batch = 1..Len(batch)
      /\ Len(file) \in Nat /\ Len(batch) \in Nat
  BY <1>1
<1>4. Range(batch) \subseteq Range(file)
  BY <1>2, <1>3 DEF Range
<1>5. OnDisk' = OnDisk
  BY <1>4 DEF OnDisk
<1>6. \A i \in DOMAIN file : Follows(file[i], db \cup {file[j] : j \in 1..(i - 1)})
  BY DEF JournalInv, Contents
<1>7. \A i \in DOMAIN file : Follows(file[i], db \cup {file[j] : j \in 1..(i - 1)})'
  BY <1>6 DEF Follows
<1>8. DbHasNoGaps'
  <2> SUFFICES ASSUME NEW e \in db', NEW n \in 1..(e.seq - 1)
               PROVE  \E d \in db' : d.run = e.run /\ d.seq = n
    BY DEF DbHasNoGaps
  <2>1. CASE e \in db
    BY <2>1 DEF JournalInv, DbHasNoGaps
  <2>2. CASE e \in Range(batch)
    <3>1. PICK i \in DOMAIN batch : e = batch[i]
      BY <2>2 DEF Range
    <3>2. i \in DOMAIN file /\ e = file[i]
      BY <1>2, <1>3, <3>1
    <3>3. PICK d \in db \cup {file[j] : j \in 1..(i - 1)} : d.run = e.run /\ d.seq = n
      BY <1>6, <3>2 DEF Follows
    <3>4. CASE d \in db
      BY <3>3, <3>4
    <3>5. CASE d \in {file[j] : j \in 1..(i - 1)}
      <4>1. PICK j \in 1..(i - 1) : d = file[j]
        BY <3>5
      <4>2. j \in 1..Len(batch)
        BY <1>3, <3>1, <4>1
      <4>3. d = batch[j] /\ j \in DOMAIN batch
        BY <1>2, <1>3, <4>1, <4>2
      <4>4. d \in Range(batch)
        BY <4>3 DEF Range
      <4> QED BY <3>3, <4>4
    <3> QED BY <3>3, <3>4, <3>5
  <2> QED BY <2>1, <2>2
<1>9. \A e \in OnDisk' : Numbered(e)'
  BY <1>5 DEF JournalInv, Contents, Numbered
<1>10. db' \subseteq Event
  BY <1>1, <1>2, <1>3 DEF Range
<1> QED BY <1>1, <1>5, <1>7, <1>8, <1>9, <1>10 DEF OnDiskOK

\* The new file that os.replace puts in the place of the old one lacks only
\* records that the table has.
LEMMA Compacted ==
  ASSUME ConstantsOK, TypeOK, JournalInv, pending = file, IsPrefix(batch, file),
         Range(batch) \subseteq db, file' = Rest, UNCHANGED <<db, ids>>
  PROVE  OnDiskOK' /\ OnDisk' = OnDisk
<1> DEFINE k == Len(batch)
<1>1. file \in Seq(Event) /\ batch \in Seq(Event) /\ db \subseteq Event
  BY DEF TypeOK
<1>2. k <= Len(file) /\ \A i \in 1..k : batch[i] = file[i]
  BY <1>1, PrefixElements
<1>3. DOMAIN file = 1..Len(file) /\ DOMAIN batch = 1..k /\ Len(file) \in Nat /\ k \in Nat
  BY <1>1
<1>4. /\ file' \in Seq(Event) /\ Len(file') = Len(file) - k
      /\ \A i \in 1..(Len(file) - k) : file'[i] = file[k + i]
  <2> DEFINE r == SubSeq(file, k + 1, Len(file))
  <2>1. file' = r
    BY DEF Rest
  <2>2. k + 1 \in Int /\ Len(file) \in Int /\ \A i \in (k + 1)..Len(file) : file[i] \in Event
    BY <1>1, <1>2, <1>3
  <2> HIDE DEF k
  <2>3. /\ r \in Seq(Event)
        /\ Len(r) = IF k + 1 <= Len(file) THEN Len(file) - (k + 1) + 1 ELSE 0
        /\ \A i \in 1..(Len(file) - (k + 1) + 1) : r[i] = file[k + 1 + i - 1]
    BY <2>2, SubSeqProperties
  <2> HIDE DEF r
  <2>4. Len(r) = Len(file) - k
    <3>1. CASE k + 1 <= Len(file)
      BY <1>3, <2>3, <3>1
    <3>2. CASE ~(k + 1 <= Len(file))
      <4>1. Len(r) = 0
        BY <2>3, <3>2
      <4>2. k \in Nat /\ Len(file) \in Nat /\ k <= Len(file)
        BY <1>2, <1>3
      <4>3. Len(file) - k = 0
        BY <3>2, <4>2
      <4> QED BY <4>1, <4>3
    <3> QED BY <3>1, <3>2
  <2>5. \A i \in 1..(Len(file) - k) : r[i] = file[k + i]
    <3> SUFFICES ASSUME NEW i \in 1..(Len(file) - k) PROVE r[i] = file[k + i]
      OBVIOUS
    <3>1. i \in 1..(Len(file) - (k + 1) + 1) /\ k + 1 + i - 1 = k + i
      BY <1>3
    <3> QED BY <2>3, <3>1
  <2> QED BY <2>1, <2>3, <2>4, <2>5
<1> HIDE DEF k
<1>5. DOMAIN file' = 1..(Len(file) - k)
  BY <1>4
<1>6. \A j \in 1..k : file[j] \in db
  <2>1. \A j \in 1..k : batch[j] \in Range(batch)
    BY <1>3 DEF Range
  <2> QED BY <1>2, <2>1
<1>7. \A j \in 1..Len(file) : file[j] \in db \/ (j - k \in 1..(Len(file) - k) /\ file'[j - k] = file[j])
  <2> SUFFICES ASSUME NEW j \in 1..Len(file), j \notin 1..k
               PROVE  j - k \in 1..(Len(file) - k) /\ file'[j - k] = file[j]
    BY <1>6
  <2>1. j - k \in 1..(Len(file) - k) /\ k + (j - k) = j
    BY <1>3
  <2> QED BY <1>4, <2>1
<1>8. OnDisk' = OnDisk
  <2>1. Range(file') \subseteq Range(file)
    <3>1. \A i \in 1..(Len(file) - k) : k + i \in 1..Len(file)
      BY <1>2, <1>3
    <3> QED BY <1>3, <1>4, <1>5, <3>1 DEF Range
  <2>2. Range(file) \subseteq db \cup Range(file')
    BY <1>3, <1>5, <1>7 DEF Range
  <2> QED BY <2>1, <2>2 DEF OnDisk
<1>9. ASSUME NEW i \in DOMAIN file'
      PROVE  Follows(file'[i], db \cup {file'[j] : j \in 1..(i - 1)})
  <2>1. i \in 1..(Len(file) - k) /\ file'[i] = file[k + i] /\ k + i \in DOMAIN file
    BY <1>2, <1>3, <1>4, <1>5
  <2> DEFINE h == k + i
  <2>2. Follows(file[h], db \cup {file[j] : j \in 1..(h - 1)})
    <3>1. \A g \in DOMAIN file : Follows(file[g], db \cup {file[j] : j \in 1..(g - 1)})
      BY DEF JournalInv, Contents
    <3>2. h \in DOMAIN file
      BY <2>1
    <3> HIDE DEF h
    <3> QED BY <3>1, <3>2
  <2> DEFINE A == db \cup {file[j] : j \in 1..(h - 1)}
             B == db \cup {file'[j] : j \in 1..(i - 1)}
  <2>3. A \subseteq B
    <3> SUFFICES ASSUME NEW j \in 1..(h - 1), file[j] \notin db
                 PROVE  file[j] \in {file'[g] : g \in 1..(i - 1)}
      BY Zenon
    <3>1. j \in 1..Len(file)
      BY <1>3, <2>1
    <3>2. j - k \in 1..(Len(file) - k) /\ file'[j - k] = file[j]
      BY <1>7, <3>1
    <3>3. j - k \in 1..(i - 1)
      BY <1>3, <2>1, <3>2
    <3> QED BY <3>2, <3>3
  <2>4. file'[i] = file[h]
    BY <2>1
  <2> HIDE DEF A, B, h
  <2>5. Follows(file'[i], B)
    <3>1. Follows(file[h], A)
      BY <2>2, Zenon DEF A
    <3> QED BY <2>3, <2>4, <3>1 DEF Follows
  <2> QED BY <2>5 DEF B
<1>10. \A i \in DOMAIN file' : Follows(file[i], db \cup {file[j] : j \in 1..(i - 1)})'
  BY <1>9 DEF Follows
<1>11. DbHasNoGaps'
  BY DEF JournalInv, DbHasNoGaps
<1>12. \A e \in OnDisk' : Numbered(e)'
  BY <1>8 DEF JournalInv, Contents, Numbered
<1> QED BY <1>1, <1>4, <1>8, <1>10, <1>11, <1>12 DEF OnDiskOK

\* A step that leaves file and table alone.
LEMMA DiskKept ==
  ASSUME ConstantsOK, TypeOK, JournalInv, UNCHANGED <<file, db>>, ids' \in Nat, ids' >= ids
  PROVE  OnDiskOK' /\ OnDisk' = OnDisk
<1>1. OnDisk' = OnDisk
  BY DEF OnDisk
<1>2. \A e \in OnDisk' : Numbered(e)'
  <2>1. \A e \in OnDisk : e \in Event /\ Numbered(e)
    BY DEF JournalInv, Contents, OnDisk, TypeOK, Range
  <2>2. \A e \in Event : Numbered(e) => Numbered(e)'
    BY DEF Numbered, Event, JournalInv, Tasks
  <2> QED BY <1>1, <2>1, <2>2
<1> QED BY <1>1, <1>2 DEF OnDiskOK, JournalInv, Contents, TypeOK, Follows, DbHasNoGaps

\* The part that speaks of what the process has in memory.
Memory ==
  /\ loaded /\ phase # "down" => pending = file
  /\ loaded => /\ nextSeq <= ids
               /\ \A n \in 1..nextSeq : \E d \in OnDisk : d.run = run /\ d.seq = n

\* Memory that a step leaves alone still describes a disk that has only gained
\* records.
LEMMA MemoryKept ==
  ASSUME JournalInv, ids' = ids, OnDisk \subseteq OnDisk', UNCHANGED <<nextSeq, run>>,
         loaded' => loaded,
         loaded' /\ phase' # "down" => pending' = file'
  PROVE  Memory'
BY DEF JournalInv, Contents, Memory

\* Likewise for a step that starts from _ensure_local_loaded_locked.
LEMMA MemoryLoaded ==
  ASSUME ConstantsOK, TypeOK, JournalInv, phase # "down", ids' \in Nat, ids' >= ids,
         OnDisk' = OnDisk, UNCHANGED <<file, run>>,
         nextSeq' = LoadedSeq, pending' = LoadedPending
  PROVE  /\ Memory' /\ nextSeq' \in 0..ids /\ nextSeq' \in 0..MaxEvents
         /\ pending' = file /\ pending' \in Seq(Event)
<1>1. /\ LoadedPending = file
      /\ LoadedSeq \in 0..ids
      /\ \A n \in 1..LoadedSeq : \E d \in OnDisk : d.run = run /\ d.seq = n
  BY Loading
<1>2. ids \in 0..MaxEvents /\ MaxEvents \in Nat /\ file \in Seq(Event)
  BY DEF JournalInv, Tasks, ConstantsOK, TypeOK
<1>3. nextSeq' <= ids'
  BY <1>1, <1>2
<1> QED BY <1>1, <1>2, <1>3 DEF Memory

\* The parts make up the invariant.
LEMMA Assembled ==
  ASSUME Tasks', OnDiskOK', Memory', NoEventLost'
  PROVE  JournalInv'
BY DEF OnDiskOK, Memory, JournalInv, Contents

-----------------------------------------------------------------------------
(* The steps *)

\* The invariant holds of an empty file and table, before the first process.
LEMMA JournalInit ==
  ASSUME ConstantsOK, Init
  PROVE  TypeOK /\ JournalInv
<1>1. file = <<>> /\ DOMAIN file = {} /\ OnDisk = {}
  BY DEF Init, OnDisk, Range
<1>2. TypeOK
  <2>1. {torn, loaded, wake} \subseteq BOOLEAN
    BY Zenon DEF Init
  <2> QED BY <2>1 DEF Init, TypeOK, ConstantsOK
<1>3. Tasks
  <2>1. run \in 0..MaxRuns /\ ids \in 0..MaxEvents
    BY DEF Init, ConstantsOK
  <2>2. /\ app = None /\ lock # "append" /\ lock # "mirror" /\ phase = "down" /\ orphans = {}
        /\ mir # "replace" /\ mir # "persist" /\ mir # "compact"
    BY DEF Init
  <2> QED BY <2>1, <2>2 DEF Tasks
<1>4. Contents /\ NoEventLost /\ DbHasNoGaps
  BY <1>1 DEF Init, Contents, NoEventLost, DbHasNoGaps
<1> QED BY <1>2, <1>3, <1>4 DEF JournalInv

\* append() takes the lock and numbers its event.
LEMMA StartAppendStep ==
  ASSUME ConstantsOK, TypeOK, JournalInv, StartAppend
  PROVE  TypeOK' /\ JournalInv'
<1>1. /\ phase # "down" /\ ids \in Nat /\ MaxEvents \in Nat /\ ids' = ids + 1 /\ ids' \in 0..MaxEvents
      /\ UNCHANGED <<file, db, run, phase, batch, mir, wake, torn, orphans, acked>>
  BY DEF JournalInv, Tasks, StartAppend, Running, ConstantsOK, disk, mirror
<1>2. OnDiskOK' /\ OnDisk' = OnDisk
  BY <1>1, DiskKept
<1>3. Memory' /\ nextSeq' \in 0..ids /\ nextSeq' \in 0..MaxEvents /\ pending' = file /\ pending' \in Seq(Event)
  BY <1>1, <1>2, MemoryLoaded DEF StartAppend
<1>4. run \in 1..MaxRuns /\ app' = [run |-> run, seq |-> nextSeq' + 1, id |-> ids'] /\ lock' = "append"
  BY DEF JournalInv, Tasks, StartAppend, Running, NextSequence, ConstantsOK
<1>5. app' \in Event /\ app' # None
  <2>1. ids \in Nat /\ MaxEvents \in Nat /\ ids < MaxEvents
    BY <1>1 DEF StartAppend
  <2>2. PICK n \in 0..ids : n = LoadedSeq
    BY <1>1, Loading
  <2>3. n + 1 \in 1..MaxEvents /\ ids + 1 \in 1..MaxEvents
    BY <2>1
  <2>4. app' = [run |-> run, seq |-> n + 1, id |-> ids + 1]
    BY <2>2 DEF StartAppend, NextSequence
  <2>5. run \in 1..MaxRuns
    BY <1>4
  <2> QED BY <2>1, <2>3, <2>4, <2>5 DEF Event, None
<1>6. TypeOK'
  <2>1. {torn, loaded, wake}' \subseteq BOOLEAN
    BY <1>1, Zenon DEF TypeOK, StartAppend
  <2> QED BY <1>1, <1>3, <1>4, <1>5, <2>1 DEF TypeOK
<1>7. Tasks'
  BY <1>1, <1>3, <1>4, <1>5 DEF JournalInv, Tasks, StartAppend, Running, Mirroring
<1>8. NoEventLost'
  BY <1>1, <1>2 DEF JournalInv, NoEventLost
<1> QED BY <1>2, <1>3, <1>6, <1>7, <1>8, Assembled

\* append() returns: the record is in the file, memory follows.
LEMMA WrittenStep ==
  ASSUME ConstantsOK, TypeOK, JournalInv, Written
  PROVE  TypeOK' /\ JournalInv'
<1>1. /\ app # None
      /\ UNCHANGED <<torn, db, phase, run, ids, loaded, mir, batch, orphans>>
      /\ file' = Append(file, app) /\ nextSeq' = app.seq /\ app' = None /\ lock' = "none"
      /\ acked' = acked \cup {app} /\ wake' = TRUE /\ pending' = Append(pending, app)
  BY DEF Written
<1>2. /\ phase \in {"booting", "up", "stopping"} /\ loaded /\ lock = "append"
      /\ app = [run |-> run, seq |-> nextSeq + 1, id |-> ids] /\ nextSeq < ids
  BY <1>1 DEF JournalInv, Tasks, Running
<1>3. app \in Event /\ nextSeq \in Nat /\ ids \in Nat /\ run \in Nat
  BY <1>1 DEF JournalInv, Tasks, TypeOK
<1>4. pending = file
  BY <1>2 DEF JournalInv, Contents
<1>5. /\ OnDiskOK' /\ OnDisk' = OnDisk \cup {app}
      /\ \A b \in Seq(Event) : IsPrefix(b, file) => IsPrefix(b, file')
  BY <1>1, Appended
<1>6. pending' = file' /\ file' \in Seq(Event)
  BY <1>1, <1>5, <1>4 DEF OnDiskOK
<1>7. app.seq = nextSeq + 1 /\ app.run = run /\ app.seq \in 1..MaxEvents
  BY <1>2, <1>3 DEF Event
<1>8. Memory'
  <2>1. app.seq <= ids
    BY <1>2, <1>3, <1>7
  <2>2. \A n \in 1..app.seq : \E d \in OnDisk' : d.run = run /\ d.seq = n
    <3> SUFFICES ASSUME NEW n \in 1..app.seq
                 PROVE  \E d \in OnDisk' : d.run = run /\ d.seq = n
      OBVIOUS
    <3>1. CASE n = app.seq
      BY <1>5, <1>7, <3>1
    <3>2. CASE n # app.seq
      <4>1. n \in 1..nextSeq
        BY <1>7, <1>3, <3>2
      <4> QED BY <1>5, <1>2, <4>1 DEF JournalInv, Contents
    <3> QED BY <3>1, <3>2
  <2> QED BY <1>1, <1>6, <2>1, <2>2 DEF Memory
<1>9. TypeOK'
  <2>1. {torn, loaded, wake}' \subseteq BOOLEAN
    BY <1>1, Zenon DEF TypeOK
  <2>2. nextSeq' \in 0..MaxEvents
    BY <1>1, <1>7
  <2> QED BY <1>1, <1>5, <1>6, <2>1, <2>2 DEF TypeOK, OnDiskOK
<1>10. Tasks'
  <2>1. mir # "replace"
    BY <1>2 DEF JournalInv, Tasks
  <2>2. mir \in {"persist", "compact", "replace"} => IsPrefix(batch, file') /\ phase # "closing"
    BY <1>5, <1>2 DEF JournalInv, Tasks, TypeOK
  <2> QED BY <1>1, <1>2, <2>1, <2>2 DEF JournalInv, Tasks, Running, Mirroring
<1>11. NoEventLost'
  BY <1>1, <1>5 DEF JournalInv, NoEventLost
<1> QED BY <1>5, <1>8, <1>9, <1>10, <1>11, Assembled

\* What a write that fails leaves on disk.
LEMMA PartlyWritten ==
  ASSUME ConstantsOK, TypeOK, JournalInv, app # None, Partly(app), UNCHANGED <<db, ids>>
  PROVE  /\ OnDiskOK' /\ OnDisk \subseteq OnDisk' /\ torn' \in BOOLEAN
         /\ \A b \in Seq(Event) : IsPrefix(b, file) => IsPrefix(b, file')
<1>1. torn' \in BOOLEAN
  BY Zenon DEF TypeOK, Partly, disk
<1>2. CASE file' = file
  <2>1. OnDiskOK' /\ OnDisk' = OnDisk
    BY <1>2, DiskKept DEF JournalInv, Tasks
  <2> QED BY <1>1, <1>2, <2>1
<1>3. CASE file' = Append(file, app)
  BY <1>1, <1>3, Appended
<1> QED BY <1>2, <1>3 DEF Partly, disk

\* An OSError in append(): memory is forgotten, the disk may have gained the
\* record or a cut line.
LEMMA WriteErrorStep ==
  ASSUME ConstantsOK, TypeOK, JournalInv, WriteError
  PROVE  TypeOK' /\ JournalInv'
<1>1. /\ app # None /\ phase \in {"booting", "up", "stopping"} /\ lock = "append" /\ Partly(app)
      /\ UNCHANGED <<db, phase, run, ids, nextSeq, pending, mir, batch, wake, orphans, acked>>
      /\ loaded' = FALSE /\ app' = None /\ lock' = "none"
  BY DEF JournalInv, Tasks, Running, WriteError, mirror
<1>2. /\ OnDiskOK' /\ OnDisk \subseteq OnDisk' /\ torn' \in BOOLEAN
      /\ \A b \in Seq(Event) : IsPrefix(b, file) => IsPrefix(b, file')
  BY <1>1, PartlyWritten
<1>3. Memory'
  BY <1>1, Zenon DEF Memory
<1>4. TypeOK'
  <2>1. {torn, loaded, wake}' \subseteq BOOLEAN
    BY <1>1, <1>2, Zenon DEF TypeOK
  <2> QED BY <1>1, <1>2, <2>1 DEF TypeOK, OnDiskOK
<1>5. Tasks'
  <2>1. mir # "replace"
    BY <1>1 DEF JournalInv, Tasks
  <2>2. mir \in {"persist", "compact", "replace"} => IsPrefix(batch, file') /\ phase # "closing"
    BY <1>1, <1>2 DEF JournalInv, Tasks, TypeOK
  <2> QED BY <1>1, <2>1, <2>2 DEF JournalInv, Tasks, Running, Mirroring
<1>6. NoEventLost'
  BY <1>1, <1>2 DEF JournalInv, NoEventLost
<1> QED BY <1>2, <1>3, <1>4, <1>5, <1>6, Assembled

\* flush() takes the pending records, or finds the file unreadable.
LEMMA TakeStep ==
  ASSUME ConstantsOK, TypeOK, JournalInv, Take
  PROVE  TypeOK' /\ JournalInv'
<1>1. /\ phase \in {"starting", "up", "closing"} /\ mir = "idle" /\ lock = "none" /\ app = None
      /\ UNCHANGED <<file, torn, db, run, ids, lock, app, orphans, acked>> /\ wake' = FALSE
      /\ ids \in Nat /\ run \in Nat /\ run > 0
  BY DEF JournalInv, Tasks, Take, Mirroring, disk
<1>2. OnDiskOK' /\ OnDisk' = OnDisk
  BY <1>1, DiskKept
<1>3. NoEventLost'
  BY <1>1, <1>2 DEF JournalInv, NoEventLost
<1>4. CASE /\ CanLoad /\ loaded' = TRUE /\ nextSeq' = LoadedSeq /\ pending' = LoadedPending
           /\ batch' = LoadedPending
           /\ mir' = IF LoadedPending = <<>> THEN "idle" ELSE "persist"
           /\ phase' = IF LoadedPending # <<>> THEN phase
                       ELSE IF phase = "closing" THEN "down" ELSE "up"
  <2>1. /\ Memory' /\ nextSeq' \in 0..MaxEvents /\ pending' = file /\ pending' \in Seq(Event)
    BY <1>1, <1>2, <1>4, MemoryLoaded
  <2>2. IsPrefix(file, file) /\ LoadedPending = file
    BY <1>4, <2>1, PrefixElements
  <2>3. /\ mir' \in {"idle", "persist"} /\ phase' \in {"starting", "up", "closing", "down"}
        /\ mir' = "persist" => phase' = phase
    BY <1>1, <1>4
  <2>4. TypeOK'
    <3>1. {torn, loaded, wake}' \subseteq BOOLEAN
      BY <1>1, <1>4, Zenon DEF TypeOK
    <3> QED BY <1>1, <1>4, <2>1, <2>2, <2>3, <3>1 DEF TypeOK
  <2>5. Tasks'
    BY <1>1, <1>4, <2>2, <2>3 DEF JournalInv, Tasks, Mirroring
  <2> QED BY <1>2, <1>3, <2>1, <2>4, <2>5, Assembled
<1>5. CASE ~CanLoad /\ mir' = "off" /\ MirrorFails /\ UNCHANGED <<mem, batch>>
  <2>1. phase' \in {"stopping", "down"} /\ UNCHANGED <<loaded, nextSeq, pending, batch>> /\ mir' = "off"
    BY <1>5 DEF MirrorFails, mem
  <2>2. Memory'
    <3>1. loaded => pending = file
      BY <1>1 DEF JournalInv, Contents
    <3> QED BY <1>1, <1>2, <2>1, <3>1, MemoryKept, Zenon
  <2>3. TypeOK'
    <3>1. {torn, loaded, wake}' \subseteq BOOLEAN
      BY <1>1, <2>1, Zenon DEF TypeOK
    <3> QED BY <1>1, <2>1, <3>1 DEF TypeOK
  <2>4. Tasks'
    BY <1>1, <2>1 DEF JournalInv, Tasks, Mirroring
  <2> QED BY <1>2, <1>3, <2>2, <2>3, <2>4, Assembled
<1> QED BY <1>4, <1>5, Zenon DEF Take

\* The transaction that stores the batch, or fails.
LEMMA PersistStep ==
  ASSUME ConstantsOK, TypeOK, JournalInv, Persist
  PROVE  TypeOK' /\ JournalInv'
<1>1. /\ phase \in {"starting", "up", "closing"} /\ mir = "persist" /\ IsPrefix(batch, file)
      /\ phase = "closing" => batch = file
      /\ UNCHANGED <<file, torn, run, ids, loaded, nextSeq, pending, lock, app, batch, orphans, acked>>
      /\ ids \in Nat /\ run > 0
  BY DEF JournalInv, Tasks, Persist, Mirroring, disk, mem
<1>2. \/ db' = db \cup Range(batch) /\ mir' = "compact" /\ UNCHANGED <<wake, phase>>
      \/ UNCHANGED db /\ mir' = "idle" /\ wake' = TRUE /\ UNCHANGED phase
      \/ UNCHANGED db /\ mir' = "off" /\ phase # "up" /\ phase' = "down" /\ UNCHANGED wake
  BY DEF Persist, Stored
<1>3. OnDiskOK' /\ OnDisk' = OnDisk
  <2>1. CASE db' = db \cup Range(batch)
    BY <1>1, <2>1, Persisted
  <2>2. CASE db' = db
    BY <1>1, <2>2, DiskKept
  <2> QED BY <1>2, <2>1, <2>2
<1>4. Memory'
  <2>1. loaded => pending = file
    BY <1>1 DEF JournalInv, Contents
  <2> QED BY <1>1, <1>3, <2>1, MemoryKept
<1>5. TypeOK'
  <2>1. {torn, loaded, wake}' \subseteq BOOLEAN
    BY <1>1, <1>2, Zenon DEF TypeOK
  <2> QED BY <1>1, <1>2, <1>3, <2>1 DEF TypeOK, OnDiskOK
<1>6. Tasks'
  BY <1>1, <1>2 DEF JournalInv, Tasks, Mirroring, Running
<1>7. NoEventLost'
  BY <1>1, <1>3 DEF JournalInv, NoEventLost
<1> QED BY <1>3, <1>4, <1>5, <1>6, <1>7, Assembled

\* The second part of flush() loads again and checks the prefix.
LEMMA StartReplaceStep ==
  ASSUME ConstantsOK, TypeOK, JournalInv, StartReplace
  PROVE  TypeOK' /\ JournalInv'
<1>1. /\ phase \in {"starting", "up", "closing"} /\ mir = "compact" /\ lock = "none" /\ app = None
      /\ IsPrefix(batch, file) /\ Range(batch) \subseteq db
      /\ phase = "closing" => batch = file
      /\ UNCHANGED <<file, torn, db, run, ids, app, batch, wake, orphans, acked>>
      /\ ids \in Nat /\ run > 0
  BY DEF JournalInv, Tasks, StartReplace, Mirroring, disk
<1>2. OnDiskOK' /\ OnDisk' = OnDisk
  BY <1>1, DiskKept
<1>3. NoEventLost'
  BY <1>1, <1>2 DEF JournalInv, NoEventLost
<1>4. CASE /\ loaded' = TRUE /\ nextSeq' = LoadedSeq /\ pending' = LoadedPending
           /\ lock' = "mirror" /\ mir' = "replace" /\ UNCHANGED phase
  <2>1. /\ Memory' /\ nextSeq' \in 0..MaxEvents /\ pending' \in Seq(Event)
    BY <1>1, <1>2, <1>4, MemoryLoaded
  <2>2. TypeOK'
    <3>1. {torn, loaded, wake}' \subseteq BOOLEAN
      BY <1>1, <1>4, Zenon DEF TypeOK
    <3> QED BY <1>1, <1>4, <2>1, <3>1 DEF TypeOK
  <2>3. Tasks'
    BY <1>1, <1>4 DEF JournalInv, Tasks, Mirroring
  <2> QED BY <1>2, <1>3, <2>1, <2>2, <2>3, Assembled
<1>5. CASE mir' = "off" /\ MirrorFails /\ UNCHANGED <<mem, lock>>
  <2>1. /\ phase' \in {"stopping", "down"} /\ UNCHANGED <<loaded, nextSeq, pending, lock>>
        /\ mir' = "off"
    BY <1>5 DEF MirrorFails, mem
  <2>2. Memory'
    <3>1. loaded => pending = file
      BY <1>1 DEF JournalInv, Contents
    <3> QED BY <1>1, <1>2, <2>1, <3>1, MemoryKept
  <2>3. TypeOK'
    <3>1. {torn, loaded, wake}' \subseteq BOOLEAN
      BY <1>1, <2>1, Zenon DEF TypeOK
    <3> QED BY <1>1, <2>1, <3>1 DEF TypeOK
  <2>4. Tasks'
    BY <1>1, <2>1, Zenon DEF JournalInv, Tasks, Mirroring
  <2> QED BY <1>2, <1>3, <2>2, <2>3, <2>4, Assembled
<1> QED BY <1>4, <1>5, Zenon DEF StartReplace

\* os.replace: the table has what the new file lacks.
LEMMA ReplacedStep ==
  ASSUME ConstantsOK, TypeOK, JournalInv, Replaced
  PROVE  TypeOK' /\ JournalInv'
<1>1. /\ phase \in {"starting", "up", "closing"} /\ mir = "replace" /\ lock = "mirror" /\ app = None
      /\ loaded /\ pending = file /\ IsPrefix(batch, file) /\ Range(batch) \subseteq db
      /\ UNCHANGED <<db, run, ids, loaded, nextSeq, app, batch, wake, orphans, acked>>
      /\ file' = Rest /\ torn' = FALSE /\ pending' = Rest /\ lock' = "none" /\ mir' = "idle"
      /\ phase' \in {"up", "down"} /\ run > 0
  BY DEF JournalInv, Tasks, Contents, Replaced, Mirroring
<1>2. OnDiskOK' /\ OnDisk' = OnDisk
  BY <1>1, Compacted
<1>3. Memory'
  BY <1>1, <1>2, MemoryKept
<1>4. TypeOK'
  <2>1. {torn, loaded, wake}' \subseteq BOOLEAN
    BY <1>1, Zenon DEF TypeOK
  <2>2. file' \in Seq(Event) /\ pending' \in Seq(Event)
    BY <1>1, <1>2, Zenon DEF OnDiskOK
  <2> QED BY <1>1, <2>1, <2>2 DEF TypeOK
<1>5. Tasks'
  BY <1>1 DEF JournalInv, Tasks
<1>6. NoEventLost'
  BY <1>1, <1>2 DEF JournalInv, NoEventLost
<1> QED BY <1>2, <1>3, <1>4, <1>5, <1>6, Assembled

\* Starting, stopping and closing the process, while nothing is cancelled in
\* a file operation.
LEMMA LifeStep ==
  ASSUME ConstantsOK, ~StopWhileBusy, TypeOK, JournalInv, Life \/ Stop
  PROVE  TypeOK' /\ JournalInv'
<1>1. /\ UNCHANGED <<file, torn, db, ids, acked>> /\ orphans' = {} /\ app' = None /\ lock' = "none"
      /\ mir' \in {"off", "idle"} /\ ids \in Nat
  <2>1. CASE Life
    BY <2>1 DEF Life, Boot, Start, Close, disk, JournalInv, Tasks
  <2>2. CASE Stop
    <3>1. app = None /\ mir # "replace"
      BY <2>2, Zenon DEF Stop
    <3>2. orphans = {} /\ ids \in Nat
      BY DEF JournalInv, Tasks
    <3>3. orphans' = {}
      BY <2>2, <3>1, <3>2 DEF Stop
    <3> QED BY <2>2, <3>2, <3>3, Zenon DEF Stop, disk
  <2> QED BY <2>1, <2>2
<1>2. OnDiskOK' /\ OnDisk' = OnDisk
  BY <1>1, DiskKept
<1>3. NoEventLost'
  BY <1>1, <1>2 DEF JournalInv, NoEventLost
<1>4. CASE Boot
  <2>1. /\ loaded' = FALSE /\ nextSeq' = 0 /\ pending' = <<>> /\ batch' = <<>> /\ wake' = FALSE
        /\ phase' = "booting" /\ run' = run + 1 /\ run \in Nat /\ run + 1 \in 1..MaxRuns
        /\ MaxEvents \in Nat
    BY <1>4 DEF Boot, JournalInv, Tasks, ConstantsOK
  <2>2. Memory'
    BY <2>1 DEF Memory
  <2>3. TypeOK'
    <3>1. {torn, loaded, wake}' \subseteq BOOLEAN
      BY <1>1, <2>1, Zenon DEF TypeOK
    <3> QED BY <1>1, <2>1, <3>1 DEF TypeOK
  <2>4. Tasks'
    BY <1>1, <2>1 DEF JournalInv, Tasks
  <2> QED BY <1>2, <1>3, <2>2, <2>3, <2>4, Assembled
<1>5. CASE Start \/ Close \/ Stop
  <2>1. /\ UNCHANGED <<run, nextSeq, pending, batch>> /\ phase # "down"
        /\ phase' \in {"starting", "closing", "stopping"} /\ run > 0
    BY <1>5, Zenon DEF Start, Close, Stop, mem, JournalInv, Tasks
  <2>2. loaded' \in BOOLEAN /\ wake' \in BOOLEAN /\ (loaded' => loaded)
    <3>1. loaded \in BOOLEAN /\ wake \in BOOLEAN
      BY Zenon DEF TypeOK
    <3>2. CASE Start \/ Close
      <4>1. loaded' = loaded /\ wake' = TRUE
        BY <3>2 DEF Start, Close, mem
      <4> QED BY <3>1, <4>1, Zenon
    <3>3. CASE Stop
      <4>1. loaded' = (loaded /\ app = None) /\ wake' = wake
        BY <3>3, Zenon DEF Stop
      <4> QED BY <3>1, <4>1, Zenon
    <3> QED BY <1>5, <3>2, <3>3
  <2>3. Memory'
    <3>1. loaded => pending = file
      BY <2>1 DEF JournalInv, Contents
    <3> QED BY <1>1, <1>2, <2>1, <2>2, <3>1, MemoryKept
  <2>4. TypeOK'
    <3>1. {torn, loaded, wake}' \subseteq BOOLEAN
      BY <1>1, <2>2, Zenon DEF TypeOK
    <3> QED BY <1>1, <2>1, <3>1 DEF TypeOK
  <2>5. Tasks'
    BY <1>1, <2>1 DEF JournalInv, Tasks
  <2> QED BY <1>2, <1>3, <2>3, <2>4, <2>5, Assembled
<1> QED BY <1>4, <1>5 DEF Life

\* The process dies, perhaps in the middle of a write.
LEMMA CrashStep ==
  ASSUME ConstantsOK, TypeOK, JournalInv, Crash
  PROVE  TypeOK' /\ JournalInv'
<1>1. /\ phase' = "down" /\ app' = None /\ orphans' = {} /\ mir' = "off" /\ lock' = "none"
      /\ UNCHANGED <<db, run, ids, loaded, nextSeq, pending, batch, wake, acked>> /\ ids \in Nat
  BY DEF Crash, mem, JournalInv, Tasks
<1>2. OnDiskOK' /\ OnDisk \subseteq OnDisk' /\ torn' \in BOOLEAN
  <2>1. CASE app = None
    <3>1. UNCHANGED <<file, torn>>
      BY <2>1 DEF Crash, disk
    <3>2. torn' \in BOOLEAN
      BY <3>1, Zenon DEF TypeOK
    <3> QED BY <1>1, <3>1, <3>2, DiskKept
  <2>2. CASE app # None
    BY <1>1, <2>2, PartlyWritten DEF Crash
  <2> QED BY <2>1, <2>2
<1>3. Memory'
  BY <1>1, <1>2, MemoryKept
<1>4. TypeOK'
  <2>1. {torn, loaded, wake}' \subseteq BOOLEAN
    BY <1>1, <1>2, Zenon DEF TypeOK
  <2> QED BY <1>1, <1>2, <2>1 DEF TypeOK, OnDiskOK
<1>5. Tasks'
  BY <1>1 DEF JournalInv, Tasks
<1>6. NoEventLost'
  BY <1>1, <1>2 DEF JournalInv, NoEventLost
<1> QED BY <1>2, <1>3, <1>4, <1>5, <1>6, Assembled

\* The inductive step, one lemma per action; without cancelled threads there
\* is no Orphan step.
LEMMA JournalStep ==
  ASSUME ConstantsOK, ~StopWhileBusy, TypeOK, JournalInv, [Next]_vars
  PROVE  TypeOK' /\ JournalInv'
<1>1. CASE UNCHANGED vars
  <2>1. UNCHANGED <<file, torn, db, phase, run, ids, loaded, nextSeq, pending, lock, app, mir, batch,
                    wake, orphans, acked>>
    BY <1>1 DEF vars, disk, mem, mirror
  <2>2. TypeOK'
    BY <2>1 DEF TypeOK
  <2>3. OnDiskOK' /\ OnDisk' = OnDisk
    BY <2>1, DiskKept DEF JournalInv, Tasks
  <2>4. Memory'
    <3>1. loaded /\ phase # "down" => pending = file
      BY Zenon DEF JournalInv, Contents
    <3> QED BY <2>1, <2>3, <3>1, MemoryKept
  <2>5. Tasks'
    BY <2>1 DEF JournalInv, Tasks, Running, Mirroring
  <2>6. NoEventLost'
    BY <2>1, <2>3 DEF JournalInv, NoEventLost
  <2> QED BY <2>2, <2>3, <2>4, <2>5, <2>6, Assembled
<1>2. CASE StartAppend \/ Written \/ WriteError
  BY <1>2, StartAppendStep, WrittenStep, WriteErrorStep
<1>3. CASE Mirror
  BY <1>3, TakeStep, PersistStep, StartReplaceStep, ReplacedStep DEF Mirror
<1>4. CASE Life \/ Stop
  BY <1>4, LifeStep
<1>5. CASE Crash
  BY <1>5, CrashStep
<1>6. CASE \E o \in orphans : Orphan(o)
  BY <1>6 DEF JournalInv, Tasks
<1> QED BY <1>1, <1>2, <1>3, <1>4, <1>5, <1>6 DEF Next

\* The journal's inductive invariant, for any number of events, runs, write
\* errors, outages, crashes and stops, when stop() finds no file operation
\* under way.
THEOREM JournalInvariant ==
  ASSUME ConstantsOK, ~StopWhileBusy
  PROVE  Spec => [](TypeOK /\ JournalInv)
<1>1. Init => TypeOK /\ JournalInv
  BY JournalInit
<1>2. TypeOK /\ JournalInv /\ [Next]_vars => (TypeOK /\ JournalInv)'
  BY JournalStep
<1> QED BY <1>1, <1>2, PTL DEF Spec

\* What append() returned stays in the file or in PostgreSQL, PostgreSQL has
\* no gap in a run's sequence, and a close() that gets through has mirrored
\* everything: DurableExecutionEventJournal.append, flush and close.
THEOREM JournalKept ==
  ASSUME ConstantsOK, ~StopWhileBusy
  PROVE  Spec => []JournalKeepsEvents
<1>1. TypeOK /\ JournalInv => JournalKeepsEvents
  <2> SUFFICES ASSUME TypeOK, JournalInv PROVE JournalKeepsEvents
    OBVIOUS
  <2>1. NoEventLost /\ DbHasNoGaps
    BY DEF JournalInv
  <2>2. CleanCloseMirrorsAll
    <3> SUFFICES ASSUME phase = "closing", mir \in {"compact", "replace"}
                 PROVE  acked \subseteq db
      BY DEF CleanCloseMirrorsAll
    <3>1. batch = file /\ Range(batch) \subseteq db
      BY DEF JournalInv, Tasks
    <3> QED BY <2>1, <3>1 DEF NoEventLost, OnDisk
  <2> QED BY <2>1, <2>2 DEF JournalKeepsEvents
<1> QED BY <1>1, JournalInvariant, PTL

=============================================================================
