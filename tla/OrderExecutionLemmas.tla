------------------------ MODULE OrderExecutionLemmas ------------------------
(***************************************************************************)
(* Type correctness of OrderExecution for every set of orders and symbols  *)
(* and every bound on faults and reconnect attempts, and the stages of its *)
(* recovery: intents and doubts of earlier lives are settled or blocked    *)
(* before the process is ready.                                            *)
(***************************************************************************)
EXTENDS OrderExecution, TLAPS

-----------------------------------------------------------------------------
(* Sequences: what the stream's operations leave *)

\* An appended report is the last one; the others stay where they are.
LEMMA AppendFacts ==
  ASSUME NEW S, NEW q \in Seq(S), NEW e \in S
  PROVE  /\ Append(q, e) \in Seq(S) /\ Len(Append(q, e)) = Len(q) + 1
         /\ Append(q, e)[Len(q) + 1] = e
         /\ \A j \in 1..Len(q) : Append(q, e)[j] = q[j]
OBVIOUS

\* Handling the first report moves the others up by one.
LEMMA TailFacts ==
  ASSUME NEW S, NEW q \in Seq(S), q # <<>>
  PROVE  /\ Head(q) \in S /\ Tail(q) \in Seq(S) /\ Len(Tail(q)) = Len(q) - 1
         /\ \A j \in 1..Len(Tail(q)) : Tail(q)[j] = q[j + 1]
OBVIOUS

\* A disconnect leaves a prefix of the stream.
LEMMA PrefixOf ==
  ASSUME NEW S, NEW q \in Seq(S), NEW k \in 0..Len(q)
  PROVE  /\ SubSeq(q, 1, k) \in Seq(S) /\ Len(SubSeq(q, 1, k)) = k
         /\ \A j \in 1..k : SubSeq(q, 1, k)[j] = q[j]
OBVIOUS

-----------------------------------------------------------------------------

\* The operations of the WAL return rows, and never the empty row.
LEMMA RowOperations ==
  ASSUME NEW latest \in Row, NEW held \in Row, NEW s \in ExchangeStatus
  PROVE  /\ NoRow \in Row /\ IntentRow \in Row /\ UnknownRow \in Row
         /\ RecordSubmitUnknown(latest) \in Row
         /\ RecordSubmitUnknown(latest) # NoRow
         /\ RecordExchangeStatus(latest, held, s) \in Row
         /\ latest # NoRow => RecordExchangeStatus(latest, held, s) # NoRow
BY DEF Row, NoRow, IntentRow, UnknownRow, ExchangeRow, RecordSubmitUnknown,
       RecordExchangeStatus, Mark

\* Recording a doubt keeps the types of the WAL and of the blocked set.
LEMMA RecordUnknownType ==
  ASSUME TypeOK, NEW o \in Orders, RecordUnknown(o)
  PROVE  wal' \in [Orders -> Row] /\ blocked' \subseteq Symbols
<1>1. wal[o] \in Row /\ SymbolOf[o] \in Symbols
  BY OrdersAssumption DEF TypeOK
<1>2. RecordSubmitUnknown(wal[o]) \in Row
  BY <1>1 DEF RecordSubmitUnknown, Row
<1>3. wal' \in [Orders -> Row]
  BY <1>2 DEF RecordUnknown, TypeOK
<1>4. blocked' \subseteq Symbols
  BY <1>1 DEF RecordUnknown, Refresh, TypeOK
<1> QED BY <1>3, <1>4

-----------------------------------------------------------------------------
(* Type correctness *)

\* The resting values of the background activities have their types.
LEMMA RestTypes ==
  /\ PollOff \in PollState /\ PollOff.pc = "off"
  /\ SyncOff \in SyncState /\ SyncOff.pc = "off"
  /\ CancelOff \in CancelState /\ CancelOff.pc = "off"
<1>1. NoRow \in Row
  BY DEF Row
<1> QED BY <1>1 DEF PollOff, PollRest, SyncOff, CancelOff, PollState, SyncState, CancelState

\* Everything Down resets has its type.
LEMMA DownType ==
  ASSUME Down, TypeOK, UNCHANGED <<wal, exVars>>, faults' \in 0..MaxFaults
  PROVE  TypeOK'
<1>1. stream' \in Seq(Report)
  BY DEF Down
<1> QED BY <1>1, RestTypes, Zenon DEF Down, TypeOK, exVars

\* A failing sync leaves typed state, whoever ran it.
LEMMA SyncFailsType ==
  ASSUME TypeOK, NEW b \in SUBSET Symbols, SyncFails(b), UNCHANGED <<wal, exVars>>,
         faults' \in 0..MaxFaults
  PROVE  TypeOK'
<1>1. CASE sync.by = "startup" /\ Down
  BY <1>1, DownType
<1>2. CASE sync.by = "reconnect"
  <2>1. fatal' \in BOOLEAN
    BY <1>2, Zenon DEF SyncFails, TypeOK
  <2>2. link' = "down" /\ reconn' \in {"off", "waiting"} /\ attempts' \in Nat
    BY <1>2 DEF SyncFails, TypeOK
  <2>3. sync' = SyncOff /\ blocked' = b /\ UNCHANGED <<phase, task, poll, cancel, cancelReq, stream>>
    BY <1>2 DEF SyncFails
  <2> QED BY <2>1, <2>2, <2>3, RestTypes DEF TypeOK, exVars
<1>3. CASE sync.by = "poller"
  <2>1. /\ PollRest("idle", TRUE) \in PollState
        /\ PollRest("idle", TRUE).pc = "idle"
    BY DEF PollRest, PollState
  <2> QED BY <1>3, <2>1, RestTypes, Zenon DEF SyncFails, TypeOK, exVars, linkVars
<1> QED BY <1>1, <1>2, <1>3, Zenon DEF SyncFails

\* A report appended to the stream keeps it a sequence of reports.
LEMMA EmitType ==
  ASSUME TypeOK, NEW o \in Orders, NEW s \in ExchangeStatus, Emit(o, s)
  PROVE  stream' \in Seq(Report)
<1>1. [o |-> o, s |-> s] \in Report
  BY DEF Report
<1>2. Append(stream, [o |-> o, s |-> s]) \in Seq(Report)
  BY <1>1, AppendFacts DEF TypeOK
<1> QED BY <1>2 DEF Emit, TypeOK

\* The initial state has its types.
LEMMA TypeInit == Init => TypeOK
<1> SUFFICES ASSUME Init PROVE TypeOK
  OBVIOUS
<1>1. NoRow \in Row
  BY DEF Row
<1>2. stream \in Seq(Report)
  BY DEF Init
<1>3. fatal \in BOOLEAN
  BY Zenon DEF Init
<1> QED BY <1>1, <1>2, <1>3, RestTypes, OrdersAssumption DEF Init, TypeOK

\* The fault counter stays within its bound.
LEMMA FaultType ==
  ASSUME TypeOK, Fault \/ UNCHANGED faults
  PROVE  faults' \in 0..MaxFaults
BY OrdersAssumption DEF TypeOK, Fault

\* Submit tasks.
LEMMA TypeSubmit ==
  ASSUME TypeOK, NEW o \in Orders, SubmitNext(o)
  PROVE  TypeOK'
<1> USE OrdersAssumption
<1>0. /\ wal[o] \in Row /\ IntentRow \in Row /\ SymbolOf[o] \in Symbols
      /\ "NEW" \in ExchangeStatus /\ "REJECTED" \in ExchangeStatus
  BY RowOperations, Zenon DEF TypeOK, ExchangeStatus, Terminal
<1>1. CASE Submit(o)
  BY <1>0, <1>1 DEF Submit, TypeOK, linkVars, lifeVars
<1>2. CASE SubmitExisting(o)
  <2>1. wal' \in [Orders -> Row] /\ blocked' \subseteq Symbols
    BY <1>0, <1>2, RecordUnknownType DEF SubmitExisting, TypeOK
  <2> QED BY <1>2, <2>1 DEF SubmitExisting, TypeOK, exVars, linkVars, lifeVars
<1>3. CASE SubmitReply(o)
  <2>1. wal' \in [Orders -> Row]
    BY <1>0, <1>3, RowOperations, Zenon DEF SubmitReply, TypeOK
  <2> QED BY <1>3, <2>1 DEF SubmitReply, TypeOK, exVars, linkVars, lifeVars
<1>4. CASE SubmitRejected(o)
  <2>1. wal' \in [Orders -> Row]
    BY <1>0, <1>4, RowOperations, Zenon DEF SubmitRejected, TypeOK
  <2>2. blocked' \subseteq Symbols
    BY <1>0, <1>4 DEF SubmitRejected, Refresh, TypeOK
  <2> QED BY <1>4, <2>1, <2>2, Zenon DEF SubmitRejected, TypeOK, exVars, linkVars, lifeVars
<1>5. CASE SubmitError(o)
  <2>1. wal' \in [Orders -> Row] /\ blocked' \subseteq Symbols
    BY <1>5, RecordUnknownType DEF SubmitError
  <2>2. faults' \in 0..MaxFaults
    BY <1>5, FaultType DEF SubmitError
  <2> QED BY <1>5, <2>1, <2>2 DEF SubmitError, TypeOK, exVars, linkVars
<1>6. CASE SubmitCancelled(o)
  <2>1. wal' \in [Orders -> Row] /\ blocked' \subseteq Symbols
    BY <1>6, RecordUnknownType DEF SubmitCancelled, TypeOK
  <2> QED BY <1>6, <2>1 DEF SubmitCancelled, TypeOK, exVars, linkVars, lifeVars
<1> QED BY <1>1, <1>2, <1>3, <1>4, <1>5, <1>6 DEF SubmitNext

\* Blocking or refreshing one symbol keeps the blocked set typed.
LEMMA RefreshType ==
  ASSUME TypeOK, NEW o \in Orders, NEW w
  PROVE  /\ Refresh(w, blocked, SymbolOf[o]) \subseteq Symbols
         /\ blocked \cup {SymbolOf[o]} \subseteq Symbols
BY OrdersAssumption DEF TypeOK, Refresh

\* The user stream callback.
LEMMA TypeReport ==
  ASSUME TypeOK, HandleReport
  PROVE  TypeOK'
<1> DEFINE e == Head(stream)
           row == wal[e.o]
           bad == row = NoRow \/ InvalidResponse(row, row, e.s)
<1>1. e \in Report /\ Tail(stream) \in Seq(Report)
  BY TailFacts DEF HandleReport, TypeOK
<1>2. e.o \in Orders /\ e.s \in ExchangeStatus /\ row \in Row
  BY <1>1, Zenon DEF Report, TypeOK
<1>3. RecordExchangeStatus(row, row, e.s) \in Row
  BY <1>2, RowOperations, Zenon
<1> HIDE DEF e, row
<1>4. CASE bad
  <2>1. fatal' = TRUE /\ stream' = <<>> /\ wal' = wal
        /\ blocked' = IF row = NoRow THEN blocked ELSE blocked \cup {SymbolOf[e.o]}
    BY <1>4 DEF HandleReport, e, row
  <2>2. fatal' \in BOOLEAN
    BY <2>1, Zenon
  <2>3. blocked' \subseteq Symbols
    BY <2>1, <1>2, RefreshType, Zenon DEF TypeOK
  <2>4. stream' \in Seq(Report)
    BY <2>1
  <2> QED BY <2>1, <2>2, <2>3, <2>4 DEF HandleReport, TypeOK, exVars
<1>5. CASE ~bad
  <2>1. /\ wal' = [wal EXCEPT ![e.o] = RecordExchangeStatus(row, row, e.s)]
        /\ blocked' = Refresh(wal', blocked, SymbolOf[e.o])
        /\ stream' = Tail(stream)
        /\ fatal' = fatal
    BY <1>5 DEF HandleReport, e, row
  <2>2. blocked' \subseteq Symbols
    BY <2>1, <1>2, RefreshType, Zenon
  <2> QED BY <2>1, <2>2, <1>1, <1>2, <1>3, Zenon DEF HandleReport, TypeOK, exVars
<1> QED BY <1>4, <1>5

\* The poller and the startup resolve pass.
LEMMA TypePoll ==
  ASSUME TypeOK, PollNext
  PROVE  TypeOK'
<1>0. /\ PollPass \in PollState /\ PollPass.pc = "scan"
      /\ \A r \in BOOLEAN : PollRest("idle", r) \in PollState /\ PollRest("idle", r).pc = "idle"
      /\ \A by \in {"startup", "poller"} : StartSync(by) \in SyncState /\ StartSync(by).pc = "scan"
  BY DEF TypeOK, PollPass, PollRest, StartSync, SyncTodo, Unknowns, PollState, SyncState
<1>1. CASE PollBegin
  BY <1>0, <1>1 DEF PollBegin, TypeOK, exVars, linkVars, lifeVars
<1>2. ASSUME NEW o \in Orders, PollScan(o)
      PROVE  TypeOK'
  <2>1. wal' \in [Orders -> Row] /\ blocked' \subseteq Symbols
    BY <1>2, RecordUnknownType, RefreshType, Zenon DEF PollScan, TypeOK
  <2>2. poll' \in PollState /\ (poll'.pc \in {"query", "answer"} => poll'.at \in Orders)
    <3>1. poll.pc = "scan" /\ poll \in PollState
      BY <1>2 DEF PollScan, TypeOK
    <3>2. CASE poll' = [poll EXCEPT !.todo = @ \ {o}]
      BY <3>1, <3>2 DEF PollState
    <3>3. CASE poll' = [poll EXCEPT !.todo = @ \ {o}, !.pc = "query", !.at = o]
      BY <3>1, <3>3, Zenon DEF PollState
    <3> QED BY <1>2, <3>2, <3>3 DEF PollScan
  <2> QED BY <1>2, <2>1, <2>2 DEF PollScan, TypeOK, exVars, linkVars, lifeVars
<1>3. CASE PollAnswer
  <2>1. faults' \in 0..MaxFaults
    BY <1>3, FaultType DEF PollAnswer
  <2>2. /\ poll.at \in Orders
        /\ exch[poll.at] \in ExchangeStatus \cup {"ABSENT", "FAILED", "none"}
    BY <1>3 DEF PollAnswer, TypeOK
  <2>3. PICK x \in ExchangeStatus \cup {"ABSENT", "FAILED", "none"} :
             poll' = [poll EXCEPT !.pc = "answer", !.ans = x]
    BY <1>3, <2>2, Zenon DEF PollAnswer
  <2>4. poll' \in PollState /\ poll'.at \in Orders
    BY <2>2, <2>3, Zenon DEF TypeOK, PollState
  <2> QED BY <1>3, <2>1, <2>4 DEF PollAnswer, TypeOK, exVars, linkVars
<1>4. CASE PollResolve
  <2> DEFINE o == poll.at
  <2>1. o \in Orders /\ wal[o] \in Row /\ UnknownRow \in Row
    BY <1>4 DEF PollResolve, TypeOK, Row
  <2>2. wal' \in [Orders -> Row]
    <3>1. CASE poll.ans \in ExchangeStatus
      <4>1. RecordExchangeStatus(wal[o], UnknownRow, poll.ans) \in Row
        BY <2>1, <3>1, RowOperations, Zenon
      <4> QED BY <1>4, <2>1, <3>1, <4>1 DEF PollResolve, TypeOK
    <3>2. CASE poll.ans \notin ExchangeStatus
      BY <1>4, <3>2 DEF PollResolve, TypeOK
    <3> QED BY <3>1, <3>2
  <2>3. blocked' \subseteq Symbols
    BY <1>4, <2>1, RefreshType DEF PollResolve
  <2>4. poll' \in PollState /\ poll'.pc = "scan"
    BY <1>4, Zenon DEF PollResolve, TypeOK, PollState
  <2> QED BY <1>4, <2>2, <2>3, <2>4, Zenon DEF PollResolve, TypeOK, exVars, linkVars, lifeVars
<1>5. CASE PollEnd
  <2>1. /\ poll' \in PollState /\ poll'.pc \in {"off", "idle", "sync"}
        /\ sync' \in SyncState /\ (sync' = sync \/ sync'.pc = "scan")
        /\ phase' \in {"down", "resolve", "sync", "ready"}
    <3>1. poll.recon \in BOOLEAN /\ [poll EXCEPT !.pc = "sync"] \in PollState
          /\ [poll EXCEPT !.pc = "sync"].pc = "sync"
      BY Zenon DEF TypeOK, PollState
    <3>2. PollRest("idle", poll.recon) \in PollState /\ PollRest("idle", poll.recon).pc = "idle"
      BY <3>1, <1>0
    <3>3. CASE phase = "resolve"
      BY <3>3, <1>0, <1>5, RestTypes DEF PollEnd
    <3>4. CASE phase = "ready"
      BY <3>1, <3>2, <3>4, <1>0, <1>5, Zenon DEF PollEnd, TypeOK
    <3> QED BY <3>3, <3>4, <1>5 DEF PollEnd
  <2> QED BY <1>5, <2>1 DEF PollEnd, TypeOK, exVars, linkVars
<1> QED BY <1>1, <1>2, <1>3, <1>4, <1>5 DEF PollNext

\* The ledger sync.
LEMMA TypeSync ==
  ASSUME TypeOK, SyncNext
  PROVE  TypeOK'
<1>1. ASSUME NEW o \in Orders, SyncQuery(o)
      PROVE  TypeOK'
  <2>1. sync' \in SyncState /\ sync'.pc = "query" /\ sync'.at \in Orders
    BY <1>1, Zenon DEF SyncQuery, TypeOK, SyncState
  <2> QED BY <1>1, <2>1 DEF SyncQuery, TypeOK, exVars, linkVars, lifeVars
<1>2. CASE SyncAnswer
  <2>1. sync.at \in Orders /\ exch[sync.at] \in ExchangeStatus \cup {"ABSENT"}
    BY <1>2 DEF SyncAnswer, TypeOK
  <2>2. sync' \in SyncState /\ sync'.at \in Orders /\ sync'.ans # "none"
    BY <1>2, <2>1, Zenon DEF SyncAnswer, TypeOK, SyncState, ExchangeStatus, Terminal
  <2> QED BY <1>2, <2>2 DEF SyncAnswer, TypeOK, exVars, linkVars, lifeVars
<1>3. CASE SyncApply
  <2> DEFINE o == sync.at
             row == wal[o]
  <2>1. o \in Orders /\ row \in Row /\ sync.ans \in ExchangeStatus \cup {"ABSENT"}
    BY <1>3 DEF SyncApply, TypeOK, SyncState
  <2>2. UNCHANGED exVars /\ faults' = faults /\ faults' \in 0..MaxFaults
    BY <1>3 DEF SyncApply, TypeOK
  <2> HIDE DEF o, row
  <2>3. CASE SyncFails(blocked) /\ UNCHANGED wal
    BY <2>2, <2>3, SyncFailsType DEF TypeOK
  <2>4. CASE SyncFails(blocked \cup {SymbolOf[o]}) /\ UNCHANGED wal
    <3>1. blocked \cup {SymbolOf[o]} \in SUBSET Symbols
      BY <2>1, RefreshType
    <3> QED BY <2>2, <2>4, <3>1, SyncFailsType
  <2>5. CASE /\ sync.ans # "ABSENT" /\ ~InvalidResponse(row, row, sync.ans)
             /\ wal' = [wal EXCEPT ![o] =
                          [RecordExchangeStatus(row, row, sync.ans) EXCEPT !.mark = "synced"]]
             /\ blocked' = Refresh(wal', blocked, SymbolOf[o])
             /\ sync' = [sync EXCEPT !.pc = "scan", !.at = "none", !.ans = "none"]
             /\ UNCHANGED <<phase, fatal, task, poll, cancel, cancelReq, linkVars>>
    <3>1. RecordExchangeStatus(row, row, sync.ans) = ExchangeRow(sync.ans)
      BY <2>5 DEF RecordExchangeStatus, StaleResponse
    <3>2. [RecordExchangeStatus(row, row, sync.ans) EXCEPT !.mark = "synced"] \in Row
      BY <2>1, <2>5, <3>1 DEF Row, ExchangeRow, Mark
    <3>3. wal' \in [Orders -> Row]
      BY <2>5, <3>2, Zenon DEF TypeOK
    <3>4. blocked' \subseteq Symbols
      BY <2>1, <2>5, RefreshType
    <3>5. sync' \in SyncState /\ sync'.pc = "scan"
      BY <2>5, Zenon DEF TypeOK, SyncState
    <3> QED BY <2>2, <2>5, <3>3, <3>4, <3>5, Zenon DEF TypeOK, exVars, linkVars
  <2> QED BY <1>3, <2>3, <2>4, <2>5 DEF SyncApply, o, row
<1>4. CASE SyncAck
  <2>1. wal' \in [Orders -> Row]
    <3> SUFFICES ASSUME NEW o \in Orders PROVE Acknowledged(wal)[o] \in Row
      BY <1>4 DEF SyncAck, Acknowledged
    <3>1. wal[o] \in Row
      BY DEF TypeOK
    <3> QED BY <3>1 DEF Acknowledged, Row, Mark, NoRow, IntentRow, UnknownRow
  <2>2. sync' \in SyncState /\ sync'.pc = "strict"
    BY <1>4, Zenon DEF SyncAck, TypeOK, SyncState
  <2> QED BY <1>4, <2>1, <2>2 DEF SyncAck, TypeOK, exVars, linkVars, lifeVars
<1>5. CASE SyncSucceed
  <2>1. poll' \in PollState /\ poll'.pc = "idle"
    BY <1>5 DEF SyncSucceed, PollRest, PollState
  <2>2. phase' \in {"down", "resolve", "sync", "ready"}
    BY <1>5 DEF SyncSucceed, TypeOK
  <2>3. reconn' \in {"off", "waiting", "syncing"} /\ attempts' \in Nat
    BY <1>5 DEF SyncSucceed, TypeOK
  <2>4. sync' = SyncOff
        /\ UNCHANGED <<wal, exVars, task, cancel, cancelReq, blocked, stream, link, fatal, faults>>
    BY <1>5 DEF SyncSucceed
  <2> QED BY <2>1, <2>2, <2>3, <2>4, RestTypes DEF TypeOK, exVars
<1>6. CASE SyncBreaks
  BY <1>6, FaultType, SyncFailsType DEF SyncBreaks, TypeOK
<1> QED BY <1>1, <1>2, <1>3, <1>4, <1>5, <1>6 DEF SyncNext

\* The cancel task.
LEMMA TypeCancel ==
  ASSUME TypeOK, CancelNext
  PROVE  TypeOK'
<1>1. ASSUME NEW o \in Orders, CancelOrder(o)
      PROVE  TypeOK'
  BY <1>1 DEF CancelOrder, TypeOK, exVars, linkVars, lifeVars
<1>2. ASSUME NEW o \in Orders, FlushCancel(o)
      PROVE  TypeOK'
  <2>1. CancelOf(o) \in CancelState /\ CancelOf(o).at = o
    BY DEF CancelOf, CancelState, Row
  <2> QED BY <1>2, <2>1 DEF FlushCancel, TypeOK, exVars, linkVars, lifeVars
<1>3. CASE CancelReply
  <2> DEFINE o == cancel.at
  <2>1. o \in Orders /\ wal[o] \in Row /\ "CANCELLED" \in ExchangeStatus
    BY <1>3 DEF CancelReply, TypeOK, ExchangeStatus, Terminal
  <2>2. RecordExchangeStatus(wal[o], wal[o], "CANCELLED") \in Row
    BY <2>1, RowOperations, Zenon
  <2>3. wal' \in [Orders -> Row] /\ cancelReq' \subseteq Orders
    BY <1>3, <2>1, <2>2 DEF CancelReply, TypeOK
  <2>4. cancel' \in CancelState /\ (cancel'.pc # "off" => cancel'.at \in Orders)
    <3>1. CASE cancel' = CancelOff
      BY <3>1, RestTypes
    <3>2. CASE cancel' = [cancel EXCEPT !.pc = "querying", !.ans = "none", !.held = wal[o]]
      BY <2>1, <3>2, Zenon DEF TypeOK, CancelState
    <3> QED BY <1>3, <3>1, <3>2 DEF CancelReply
  <2> QED BY <1>3, <2>3, <2>4 DEF CancelReply, TypeOK, exVars, linkVars, lifeVars
<1>4. CASE CancelAnswer
  <2>1. faults' \in 0..MaxFaults
    BY <1>4, FaultType DEF CancelAnswer
  <2>2. cancel.at \in Orders
        /\ exch[cancel.at] \in ExchangeStatus \cup {"ABSENT", "FAILED", "none"}
    BY <1>4 DEF CancelAnswer, TypeOK
  <2>3. PICK x \in ExchangeStatus \cup {"ABSENT", "FAILED", "none"} :
             cancel' = [cancel EXCEPT !.pc = "answered", !.ans = x]
    BY <1>4, <2>2, Zenon DEF CancelAnswer
  <2>4. cancel' \in CancelState /\ cancel'.at \in Orders
    BY <2>2, <2>3, Zenon DEF TypeOK, CancelState
  <2> QED BY <1>4, <2>1, <2>4 DEF CancelAnswer, TypeOK, exVars, linkVars
<1>5. CASE CancelResolve
  <2> DEFINE o == cancel.at
  <2>1. o \in Orders /\ wal[o] \in Row /\ cancel.held \in Row
    BY <1>5 DEF CancelResolve, TypeOK, CancelState
  <2>2. wal' \in [Orders -> Row]
    <3>1. CASE cancel.ans \in Terminal
      <4>1. RecordExchangeStatus(wal[o], cancel.held, cancel.ans) \in Row
        BY <2>1, <3>1, RowOperations, Zenon DEF ExchangeStatus
      <4> QED BY <1>5, <2>1, <3>1, <4>1 DEF CancelResolve, TypeOK
    <3>2. CASE cancel.ans \notin Terminal
      BY <1>5, <3>2 DEF CancelResolve, TypeOK
    <3> QED BY <3>1, <3>2
  <2>3. blocked' \subseteq Symbols /\ cancelReq' \subseteq Orders
    BY <1>5, <2>1, RefreshType, Zenon DEF CancelResolve, TypeOK
  <2> QED BY <1>5, <2>2, <2>3, RestTypes DEF CancelResolve, TypeOK, exVars, linkVars, lifeVars
<1> QED BY <1>1, <1>2, <1>3, <1>4, <1>5 DEF CancelNext

\* Start, reconnects, fatal exit and crash.
LEMMA TypeLife ==
  ASSUME TypeOK, LifeNext
  PROVE  TypeOK'
<1>1. CASE Start
  <2>1. PollPass \in PollState /\ PollPass.pc = "scan"
    BY DEF PollPass, Unknowns, TypeOK, PollState
  <2> QED BY <1>1, <2>1 DEF Start, TypeOK, exVars
<1>2. CASE Disconnect
  <2>1. stream' \in Seq(Report)
    BY <1>2, PrefixOf DEF Disconnect, TypeOK
  <2>2. faults' \in 0..MaxFaults
    BY <1>2, FaultType DEF Disconnect
  <2>3. link' = "down" /\ reconn' \in {"off", "waiting", "syncing"}
    BY <1>2 DEF Disconnect, TypeOK
  <2>4. UNCHANGED <<wal, exVars, procVars, attempts, phase, fatal>>
    BY <1>2 DEF Disconnect
  <2> QED BY <2>1, <2>2, <2>3, <2>4 DEF TypeOK, exVars, procVars
<1>3. CASE Reconnect
  <2>1. StartSync("reconnect") \in SyncState /\ StartSync("reconnect").pc = "scan"
    BY DEF StartSync, SyncTodo, SyncState
  <2> QED BY <1>3, <2>1, RestTypes DEF Reconnect, TypeOK, exVars, lifeVars
<1>4. CASE ReconnectFails
  <2>1. fatal' \in BOOLEAN
    BY <1>4, Zenon DEF ReconnectFails, TypeOK
  <2>2. faults' \in 0..MaxFaults
    BY <1>4, FaultType DEF ReconnectFails
  <2>3. reconn' \in {"off", "waiting", "syncing"} /\ attempts' \in Nat
    BY <1>4 DEF ReconnectFails, TypeOK
  <2>4. UNCHANGED <<wal, exVars, procVars, stream, link, phase>>
    BY <1>4 DEF ReconnectFails
  <2> QED BY <2>1, <2>2, <2>3, <2>4 DEF TypeOK, exVars, procVars
<1>5. CASE FatalExit
  BY <1>5, FaultType, DownType DEF FatalExit
<1>6. CASE Crash
  BY <1>6, FaultType, DownType DEF Crash
<1> QED BY <1>1, <1>2, <1>3, <1>4, <1>5, <1>6 DEF LifeNext

\* The exchange and the network.
LEMMA TypeExchange ==
  ASSUME TypeOK, ExchangeNext
  PROVE  TypeOK'
<1>0. "NEW" \in ExchangeStatus /\ "CANCELLED" \in ExchangeStatus /\ Moves \subseteq ExchangeStatus
  BY OrdersAssumption DEF ExchangeStatus, Terminal
<1>1. ASSUME NEW o \in Orders, ExAccept(o)
      PROVE  TypeOK'
  <2>1. stream' \in Seq(Report)
    BY <1>0, <1>1, EmitType DEF ExAccept
  <2> QED BY <1>0, <1>1, <2>1 DEF ExAccept, TypeOK, procVars, lifeVars
<1>2. ASSUME NEW o \in Orders, ExRefuse(o)
      PROVE  TypeOK'
  BY <1>2 DEF ExRefuse, TypeOK, procVars, linkVars, lifeVars
<1>3. ASSUME NEW o \in Orders, ExLose(o)
      PROVE  TypeOK'
  <2>1. faults' \in 0..MaxFaults
    BY <1>3, FaultType DEF ExLose
  <2> QED BY <1>3, <2>1 DEF ExLose, TypeOK, procVars, linkVars
<1>4. ASSUME NEW o \in Orders, NEW s \in Moves, ExMove(o, s)
      PROVE  TypeOK'
  <2>1. stream' \in Seq(Report)
    BY <1>0, <1>4, EmitType DEF ExMove
  <2> QED BY <1>0, <1>4, <2>1 DEF ExMove, TypeOK, procVars, lifeVars
<1>5. CASE ExCancel
  <2> DEFINE o == cancel.at
             live == exch[o] \in {"NEW", "PARTIALLY_FILLED"}
             done == IF live THEN "CANCELLED" ELSE exch[o]
  <2>1. o \in Orders /\ exch[o] \in ExchangeStatus \cup {"ABSENT"}
    BY <1>5 DEF ExCancel, TypeOK
  <2>2. done \in ExchangeStatus \cup {"ABSENT"}
    BY <1>0, <2>1
  <2>3. exch' \in [Orders -> ExchangeStatus \cup {"ABSENT"}]
    BY <1>5, <2>1, <2>2, Zenon DEF ExCancel, TypeOK
  <2>4. stream' \in Seq(Report)
    <3>1. Emit(o, "CANCELLED") \/ UNCHANGED stream
      BY <1>5 DEF ExCancel
    <3> QED BY <1>0, <2>1, <3>1, EmitType DEF TypeOK
  <2>5. faults' \in 0..MaxFaults
    <3>1. Fault \/ UNCHANGED faults
      BY <1>5 DEF ExCancel
    <3> QED BY <3>1, FaultType
  <2>6. PICK x \in {"CANCELLED", "FAILED"} : cancel' = [cancel EXCEPT !.pc = "replied", !.ans = x]
    BY <1>5, Zenon DEF ExCancel
  <2>7. cancel' \in CancelState /\ cancel'.at \in Orders
    BY <1>0, <2>1, <2>6, Zenon DEF TypeOK, CancelState
  <2>8. UNCHANGED <<wal, net, posts, task, poll, sync, cancelReq, blocked,
                    link, reconn, attempts, phase, fatal>>
    BY <1>5 DEF ExCancel
  <2> QED BY <2>3, <2>4, <2>5, <2>7, <2>8 DEF TypeOK
<1> QED BY <1>1, <1>2, <1>3, <1>4, <1>5 DEF ExchangeNext

\* Every step keeps the types.
LEMMA TypeStep == TypeOK /\ [Next]_vars => TypeOK'
<1> SUFFICES ASSUME TypeOK, [Next]_vars PROVE TypeOK'
  OBVIOUS
<1>1. CASE Next
  BY <1>1, TypeSubmit, TypeReport, TypePoll, TypeSync, TypeCancel, TypeLife, TypeExchange
  DEF Next
<1>2. CASE UNCHANGED vars
  BY <1>2 DEF vars, TypeOK, exVars, procVars, linkVars, lifeVars
<1> QED BY <1>1, <1>2

\* Type correctness of the execution process: whatever tasks, network and
\* exchange do, rows, queues and program counters keep their types.
THEOREM TypeCorrect == Spec => []TypeOK
<1>1. Init => TypeOK
  BY TypeInit
<1>2. TypeOK /\ [Next]_vars => TypeOK'
  BY TypeStep
<1> QED BY <1>1, <1>2, PTL DEF Spec

-----------------------------------------------------------------------------
(* Recovery *)

\* The two row operations leave no intent behind, make none, and make a doubt
\* only of an intent.
LEMMA RowDoubts ==
  ASSUME NEW latest \in Row, NEW held \in Row, NEW s \in ExchangeStatus
  PROVE  /\ RecordSubmitUnknown(latest).type # "intent"
         /\ RecordExchangeStatus(latest, held, s).type # "intent"
         /\ RecordExchangeStatus(latest, held, s).status = "SUBMIT_UNKNOWN" =>
              RecordExchangeStatus(latest, held, s) = latest
<1>1. s # "SUBMIT_UNKNOWN"
  BY DEF ExchangeStatus, Terminal
<1>2. latest.type = "intent" => latest = IntentRow
  BY DEF Row, NoRow, UnknownRow
<1>3. RecordExchangeStatus(latest, held, s) \in {latest, ExchangeRow(s)}
  BY DEF RecordExchangeStatus
<1>4. RecordExchangeStatus(IntentRow, held, s) = ExchangeRow(s)
  BY DEF RecordExchangeStatus, StaleResponse, InvalidResponse, IntentRow
<1>5. RecordSubmitUnknown(latest).type # "intent"
  BY DEF RecordSubmitUnknown, UnknownRow
<1>6. RecordExchangeStatus(latest, held, s).type # "intent"
  BY <1>2, <1>3, <1>4 DEF ExchangeRow
<1>7. RecordExchangeStatus(latest, held, s).status = "SUBMIT_UNKNOWN" =>
              RecordExchangeStatus(latest, held, s) = latest
  BY <1>1, <1>3 DEF ExchangeRow
<1> QED BY <1>5, <1>6, <1>7

\* What a step may do to an order that was left in doubt, seen from order p.
Doubts(p) ==
  /\ wal'[p].type = "intent" => wal[p].type = "intent"
  /\ wal'[p].status = "SUBMIT_UNKNOWN" =>
       \/ SymbolOf[p] \in blocked'
       \/ wal[p].status = "SUBMIT_UNKNOWN" /\ SymbolOf[p] \notin blocked

\* Refreshing the risk of a symbol keeps every doubt blocked.
LEMMA RefreshDoubts ==
  ASSUME NEW p \in Orders, NEW sym, blocked' = Refresh(wal', blocked, sym),
         wal'[p].type = "intent" => wal[p].type = "intent",
         wal'[p].status = "SUBMIT_UNKNOWN" => wal[p].status = "SUBMIT_UNKNOWN"
  PROVE  Doubts(p)
<1>1. CASE SymbolOf[p] = sym
  BY <1>1 DEF Doubts, Refresh, Unresolved
<1>2. CASE SymbolOf[p] # sym
  BY <1>2 DEF Doubts, Refresh
<1> QED BY <1>1, <1>2

\* Recording a doubt blocks the symbol.
LEMMA UnknownDoubts ==
  ASSUME TypeOK, NEW o \in Orders, RecordUnknown(o), NEW p \in Orders
  PROVE  Doubts(p) /\ wal'[o].type # "intent"
<1> DEFINE row == RecordSubmitUnknown(wal[o])
<1>1. /\ wal' = [wal EXCEPT ![o] = row]
      /\ blocked' = IF row.status = "SUBMIT_UNKNOWN" THEN blocked \cup {SymbolOf[o]}
                    ELSE Refresh(wal', blocked, SymbolOf[o])
  BY DEF RecordUnknown
<1>2. "NEW" \in ExchangeStatus /\ wal[o] \in Row
  BY DEF TypeOK, ExchangeStatus
<1>3. row.type # "intent"
  BY <1>2, RowDoubts
<1> HIDE DEF row
<1>4. wal'[o] = row /\ (p # o => wal'[p] = wal[p])
  BY <1>1 DEF TypeOK
<1>5. CASE row.status = "SUBMIT_UNKNOWN"
  BY <1>1, <1>3, <1>4, <1>5 DEF Doubts
<1>6. CASE row.status # "SUBMIT_UNKNOWN"
  BY <1>1, <1>3, <1>4, <1>6, RefreshDoubts
<1> QED BY <1>3, <1>4, <1>5, <1>6

\* Recording an exchange status makes no doubt.
LEMMA StatusDoubts ==
  ASSUME TypeOK, NEW o \in Orders, NEW held \in Row, NEW s \in ExchangeStatus,
         wal' = [wal EXCEPT ![o] = RecordExchangeStatus(wal[o], held, s)], NEW p \in Orders
  PROVE  /\ wal'[o].type # "intent"
         /\ wal'[p].type = "intent" => wal[p].type = "intent"
         /\ wal'[p].status = "SUBMIT_UNKNOWN" => wal[p].status = "SUBMIT_UNKNOWN"
<1> DEFINE row == RecordExchangeStatus(wal[o], held, s)
<1>1. row.type # "intent" /\ (row.status = "SUBMIT_UNKNOWN" => row = wal[o])
  BY RowDoubts DEF TypeOK
<1>2. wal' = [wal EXCEPT ![o] = row]
  OBVIOUS
<1> HIDE DEF row
<1>3. wal'[o] = row /\ (p # o => wal'[p] = wal[p])
  BY <1>2 DEF TypeOK
<1> QED BY <1>1, <1>3

\* Every step that does not end the process or submit an order treats doubts so.
LEMMA DoubtSteps ==
  ASSUME TypeOK, Next, NEW p \in Orders
  PROVE  \/ Doubts(p)
         \/ phase' = "down" /\ UNCHANGED wal
         \/ \E o \in Orders : Submit(o)
<1>0. /\ "NEW" \in ExchangeStatus /\ "REJECTED" \in ExchangeStatus
      /\ "CANCELLED" \in ExchangeStatus /\ Terminal \subseteq ExchangeStatus
      /\ IntentRow \in Row /\ UnknownRow \in Row /\ \A o \in Orders : wal[o] \in Row
  BY DEF ExchangeStatus, Terminal, Row, TypeOK
<1>a. UNCHANGED wal /\ blocked \subseteq blocked' => Doubts(p)
  BY DEF Doubts
<1>1. ASSUME NEW o \in Orders, SubmitNext(o), ~Submit(o)
      PROVE  Doubts(p)
  <2>1. CASE SubmitExisting(o)
    <3>1. RecordUnknown(o) \/ (UNCHANGED wal /\ blocked \subseteq blocked')
      BY <2>1 DEF SubmitExisting
    <3> QED BY <1>a, <3>1, UnknownDoubts
  <2>2. CASE SubmitReply(o)
    <3>1. UNCHANGED blocked
      BY <2>2 DEF SubmitReply
    <3>2. \/ UNCHANGED wal
          \/ wal' = [wal EXCEPT ![o] = RecordExchangeStatus(wal[o], IntentRow, "NEW")]
      BY <2>2 DEF SubmitReply
    <3> QED BY <1>0, <1>a, <3>1, <3>2, StatusDoubts DEF Doubts
  <2>3. CASE SubmitRejected(o)
    <3>1. /\ wal' = [wal EXCEPT ![o] = RecordExchangeStatus(wal[o], IntentRow, "REJECTED")]
          /\ blocked' = Refresh(wal', blocked, SymbolOf[o])
      BY <2>3 DEF SubmitRejected
    <3> QED BY <1>0, <3>1, StatusDoubts, RefreshDoubts, Zenon
  <2>4. CASE SubmitError(o) \/ SubmitCancelled(o)
    <3>1. RecordUnknown(o) \/ UNCHANGED <<wal, blocked>>
      BY <2>4 DEF SubmitError, SubmitCancelled
    <3> QED BY <1>a, <3>1, UnknownDoubts
  <2> QED BY <1>1, <2>1, <2>2, <2>3, <2>4 DEF SubmitNext
<1>2. CASE HandleReport
  <2> DEFINE e == Head(stream)
  <2>1. e.o \in Orders /\ e.s \in ExchangeStatus
    <3>1. stream \in Seq(Report) /\ stream # <<>>
      BY <1>2 DEF HandleReport, TypeOK
    <3>2. e \in Report
      BY <3>1, TailFacts, Zenon
    <3> QED BY <3>2, Zenon DEF Report
  <2>2. \/ UNCHANGED wal /\ blocked \subseteq blocked'
        \/ /\ wal' = [wal EXCEPT ![e.o] = RecordExchangeStatus(wal[e.o], wal[e.o], e.s)]
           /\ blocked' = Refresh(wal', blocked, SymbolOf[e.o])
    BY <1>2 DEF HandleReport
  <2> HIDE DEF e
  <2> QED BY <1>0, <1>a, <2>1, <2>2, StatusDoubts, RefreshDoubts
<1>3. CASE PollNext
  <2>1. ASSUME NEW o \in Orders, PollScan(o)
        PROVE  Doubts(p)
    <3>1. RecordUnknown(o) \/ (UNCHANGED wal /\ blocked \subseteq blocked')
      BY <2>1 DEF PollScan
    <3> QED BY <1>a, <3>1, UnknownDoubts
  <2>2. CASE PollResolve
    <3>1. poll.at \in Orders
      BY <2>2 DEF PollResolve, TypeOK
    <3>2. /\ blocked' = Refresh(wal', blocked, SymbolOf[poll.at])
          /\ \/ UNCHANGED wal
             \/ /\ poll.ans \in ExchangeStatus
                /\ wal' = [wal EXCEPT ![poll.at] =
                             RecordExchangeStatus(wal[poll.at], UnknownRow, poll.ans)]
      BY <2>2, Zenon DEF PollResolve
    <3>3. CASE UNCHANGED wal
      BY <3>2, <3>3, RefreshDoubts
    <3> QED BY <1>0, <3>1, <3>2, <3>3, StatusDoubts, RefreshDoubts
  <2>3. CASE PollBegin \/ PollAnswer \/ PollEnd
    BY <1>a, <2>3 DEF PollBegin, PollAnswer, PollEnd
  <2> QED BY <1>3, <2>1, <2>2, <2>3 DEF PollNext
<1>4. CASE SyncNext
  <2>0. ASSUME NEW b, SyncFails(b), blocked \subseteq b, UNCHANGED wal
        PROVE  Doubts(p) \/ phase' = "down"
    BY <1>a, <2>0, Zenon DEF SyncFails, Down
  <2>1. CASE SyncApply
    <3> DEFINE o == sync.at
               row == wal[o]
               w == RecordExchangeStatus(row, row, sync.ans)
    <3>1. o \in Orders /\ sync.ans \in ExchangeStatus \cup {"ABSENT"}
      BY <2>1 DEF SyncApply, TypeOK, SyncState
    <3>2. CASE UNCHANGED wal /\ (SyncFails(blocked) \/ SyncFails(blocked \cup {SymbolOf[o]}))
      BY <2>0, <3>2
    <3>3. CASE /\ sync.ans \in ExchangeStatus
               /\ wal' = [wal EXCEPT ![o] = [w EXCEPT !.mark = "synced"]]
               /\ blocked' = Refresh(wal', blocked, SymbolOf[o])
      <4> DEFINE r == [w EXCEPT !.mark = "synced"]
      <4>1. w \in Row /\ w.type # "intent" /\ (w.status = "SUBMIT_UNKNOWN" => w = row)
        <5>1. row \in Row /\ sync.ans \in ExchangeStatus
          BY <1>0, <3>1, <3>3, Zenon
        <5>2. w \in Row
          <6> HIDE DEF row
          <6> QED BY <5>1, RowOperations, Zenon
        <5>3. w.type # "intent" /\ (w.status = "SUBMIT_UNKNOWN" => w = row)
          <6> HIDE DEF row
          <6> QED BY <5>1, RowDoubts, Zenon
        <5> QED BY <5>2, <5>3, Zenon
      <4>2. r.type = w.type /\ r.status = w.status
        BY <4>1 DEF Row, NoRow, IntentRow, UnknownRow
      <4>3. wal'[o] = r /\ (p # o => wal'[p] = wal[p])
        BY <3>1, <3>3, Zenon DEF TypeOK
      <4> HIDE DEF w, r
      <4>4. /\ wal'[p].type = "intent" => wal[p].type = "intent"
            /\ wal'[p].status = "SUBMIT_UNKNOWN" => wal[p].status = "SUBMIT_UNKNOWN"
        BY <4>1, <4>2, <4>3
      <4> QED BY <3>3, <4>4, RefreshDoubts
    <3> QED BY <2>1, <3>1, <3>2, <3>3 DEF SyncApply
  <2>2. CASE SyncAck
    <3>1. wal'[p].type = wal[p].type /\ wal'[p].status = wal[p].status
      BY <2>2 DEF SyncAck, Acknowledged, TypeOK, Row, NoRow, IntentRow, UnknownRow
    <3> QED BY <2>2, <3>1 DEF SyncAck, Doubts
  <2>3. CASE SyncBreaks
    BY <2>0, <2>3 DEF SyncBreaks
  <2>4. CASE SyncAnswer \/ SyncSucceed \/ \E o \in Orders : SyncQuery(o)
    BY <1>a, <2>4, Zenon DEF SyncQuery, SyncAnswer, SyncSucceed
  <2> QED BY <1>4, <2>1, <2>2, <2>3, <2>4 DEF SyncNext, SyncBreaks
<1>5. CASE CancelNext
  <2>1. CASE CancelReply \/ CancelResolve
    <3>1. cancel.at \in Orders /\ cancel.held \in Row
      BY <2>1 DEF CancelReply, CancelResolve, TypeOK, CancelState
    <3>2. \/ UNCHANGED wal /\ blocked \subseteq blocked'
          \/ /\ UNCHANGED blocked
             /\ \E held \in {wal[cancel.at], cancel.held}, s \in Terminal :
                  wal' = [wal EXCEPT ![cancel.at] = RecordExchangeStatus(wal[cancel.at], held, s)]
      BY <2>1 DEF CancelReply, CancelResolve, Terminal
    <3>3. CASE UNCHANGED blocked /\ \E held \in {wal[cancel.at], cancel.held}, s \in Terminal :
                  wal' = [wal EXCEPT ![cancel.at] = RecordExchangeStatus(wal[cancel.at], held, s)]
      <4>1. PICK held \in {wal[cancel.at], cancel.held}, s \in Terminal :
                  wal' = [wal EXCEPT ![cancel.at] = RecordExchangeStatus(wal[cancel.at], held, s)]
        BY <3>3, Zenon
      <4>2. held \in Row /\ s \in ExchangeStatus
        BY <1>0, <3>1
      <4> QED BY <3>1, <3>3, <4>1, <4>2, StatusDoubts, Zenon DEF Doubts
    <3> QED BY <1>a, <3>2, <3>3
  <2>2. CASE CancelAnswer \/ \E o \in Orders : CancelOrder(o) \/ FlushCancel(o)
    BY <1>a, <2>2 DEF CancelAnswer, CancelOrder, FlushCancel
  <2> QED BY <1>5, <2>1, <2>2 DEF CancelNext
<1>6. CASE LifeNext \/ ExchangeNext
  BY <1>a, <1>6 DEF LifeNext, ExchangeNext, Start, Disconnect, Reconnect, ReconnectFails,
       FatalExit, Crash, Down, ExAccept, ExRefuse, ExLose, ExMove, ExCancel, procVars
<1> QED BY <1>1, <1>2, <1>3, <1>4, <1>5, <1>6 DEF Next

\* The life of the process goes down -> resolve -> sync -> ready, each stage with
\* the tasks of its own, and back to down from everywhere.
LEMMA StagesStep ==
  ASSUME TypeOK, Stages, Next
  PROVE  Stages'
<1>1. CASE \E o \in Orders : SubmitNext(o)
  BY <1>1 DEF Stages, SubmitNext, Submit, SubmitExisting, SubmitReply, SubmitRejected,
       SubmitError, SubmitCancelled, lifeVars
<1>2. CASE HandleReport \/ CancelNext
  BY <1>2 DEF Stages, HandleReport, CancelNext, CancelOrder, FlushCancel, CancelReply,
       CancelAnswer, CancelResolve, lifeVars
<1>3. CASE PollNext
  <2>1. ASSUME NEW o \in Orders, PollScan(o)
        PROVE  poll'.pc \in {"scan", "query"}
    BY <2>1 DEF PollScan, TypeOK, PollState
  <2>2. poll.pc # "off"
    BY <1>3, Zenon DEF PollNext, PollBegin, PollScan, PollAnswer, PollResolve, PollEnd
  <2>3. CASE \E o \in Orders : PollScan(o)
    BY <2>1, <2>2, <2>3, Zenon DEF Stages, PollScan, lifeVars
  <2>4. CASE PollBegin \/ PollEnd
    BY <2>2, <2>4 DEF Stages, PollBegin, PollEnd, PollPass, PollOff, PollRest, StartSync,
         SyncOff, lifeVars, TypeOK, PollState
  <2>5. CASE PollAnswer \/ PollResolve
    <3>1. poll'.pc \in {"answer", "scan"} /\ UNCHANGED <<phase, task, sync>>
      BY <2>5, Zenon DEF PollAnswer, PollResolve, TypeOK, PollState, lifeVars
    <3> QED BY <2>2, <3>1, Zenon DEF Stages, TypeOK
  <2> QED BY <1>3, <2>3, <2>4, <2>5 DEF PollNext
<1>4. CASE SyncNext
  <2>1. sync.pc # "off" /\ phase \in {"sync", "ready"}
    <3>1. sync.pc # "off"
      BY <1>4, Zenon DEF SyncNext, SyncQuery, SyncAnswer, SyncApply, SyncAck, SyncSucceed, SyncBreaks
    <3> QED BY <3>1 DEF Stages, SyncOff, TypeOK
  <2>2. ASSUME NEW b, SyncFails(b)
        PROVE  Stages'
    <3>1. CASE Down
      <4>1. PollOff.pc = "off"
        BY DEF PollOff, PollRest
      <4>2. phase' = "down" /\ task' = {} /\ sync' = SyncOff /\ poll' = PollOff
        BY <3>1, Zenon DEF Down
      <4> QED BY <4>1, <4>2, Zenon DEF Stages
    <3>2. CASE ~Down
      <4>1. sync' = SyncOff /\ phase = "ready" /\ UNCHANGED phase
        BY <2>1, <2>2, <3>2, Zenon DEF SyncFails, Stages
      <4> QED BY <4>1 DEF Stages, SyncOff
    <3> QED BY <3>1, <3>2
  <2>3. CASE SyncSucceed
    <3>1. sync' = SyncOff
      BY <2>3 DEF SyncSucceed
    <3> QED BY <2>1, <2>3, <3>1 DEF SyncSucceed, Stages, SyncOff, PollRest
  <2>4. CASE UNCHANGED <<phase, task, poll>> /\ sync'.by = sync.by
    BY <2>1, <2>4 DEF Stages
  <2>5. ASSUME NEW o \in Orders, SyncQuery(o)
        PROVE  UNCHANGED <<phase, task, poll>> /\ sync'.by = sync.by
    BY <2>5 DEF SyncQuery, TypeOK, SyncState, lifeVars
  <2>6. ASSUME SyncAnswer \/ SyncAck
        PROVE  UNCHANGED <<phase, task, poll>> /\ sync'.by = sync.by
    BY <2>6, Zenon DEF SyncAnswer, SyncAck, TypeOK, SyncState, lifeVars
  <2>7. ASSUME SyncApply, \A b : ~SyncFails(b)
        PROVE  UNCHANGED <<phase, task, poll>> /\ sync'.by = sync.by
    BY <2>7, Zenon DEF SyncApply, TypeOK, SyncState
  <2> QED BY <1>4, <2>2, <2>3, <2>4, <2>5, <2>6, <2>7, Zenon DEF SyncNext, SyncBreaks
<1>5. CASE LifeNext \/ ExchangeNext
  BY <1>5 DEF LifeNext, ExchangeNext, Start, Disconnect, Reconnect, ReconnectFails, FatalExit,
       Crash, Down, PollPass, PollOff, PollRest, SyncOff, StartSync, ExAccept, ExRefuse, ExLose,
       ExMove, ExCancel, Stages, procVars, lifeVars
<1> QED BY <1>1, <1>2, <1>3, <1>4, <1>5, Zenon DEF Next

\* While the resolve pass runs, an order leaves its list only by being scanned,
\* and the pass ends only with its list empty.
LEMMA ResolveSteps ==
  ASSUME TypeOK, Stages, Next, phase = "resolve"
  PROVE  \/ phase' = "down"
         \/ phase' = "sync" /\ poll.todo = {}
         \/ phase' = "resolve" /\ poll'.todo = poll.todo /\ poll'.intents = poll.intents
         \/ \E o \in Orders : /\ PollScan(o) /\ phase' = "resolve"
                             /\ poll'.todo = poll.todo \ {o} /\ poll'.intents = poll.intents
<1>1. task = {} /\ sync.pc = "off" /\ poll.pc \in {"scan", "query", "answer"}
  BY DEF Stages, SyncOff
<1>2. CASE PollNext
  <2>1. ASSUME NEW o \in Orders, PollScan(o)
        PROVE  /\ phase' = "resolve"
               /\ poll'.todo = poll.todo \ {o} /\ poll'.intents = poll.intents
    BY <2>1 DEF PollScan, TypeOK, PollState, lifeVars
  <2>2. ASSUME PollAnswer \/ PollResolve
        PROVE  phase' = "resolve" /\ poll'.todo = poll.todo /\ poll'.intents = poll.intents
    BY <2>2, Zenon DEF PollAnswer, PollResolve, TypeOK, PollState, lifeVars
  <2>3. ASSUME PollEnd
        PROVE  phase' = "sync" /\ poll.todo = {}
    BY <2>3 DEF PollEnd
  <2>4. ~PollBegin
    BY DEF PollBegin
  <2> QED BY <1>2, <2>1, <2>2, <2>3, <2>4 DEF PollNext
<1>3. ASSUME CancelNext \/ ExchangeNext
      PROVE  UNCHANGED <<phase, poll>>
  BY <1>3 DEF CancelNext, CancelOrder, FlushCancel, CancelReply, CancelAnswer, CancelResolve,
       ExchangeNext, ExAccept, ExRefuse, ExLose, ExMove, ExCancel, procVars, lifeVars
<1>4. ASSUME LifeNext
      PROVE  phase' = "down"
  BY <1>4 DEF LifeNext, Start, Disconnect, Reconnect, ReconnectFails, FatalExit, Crash, Down
<1>5. ~HandleReport /\ ~SyncNext /\ \A o \in Orders : ~SubmitNext(o)
  <2>1. ~HandleReport
    BY Zenon DEF HandleReport, Running
  <2>2. ~SyncNext
    BY <1>1 DEF SyncNext, SyncQuery, SyncAnswer, SyncApply, SyncAck, SyncSucceed, SyncBreaks
  <2>3. \A o \in Orders : ~SubmitNext(o)
    BY <1>1 DEF SubmitNext, Submit, SubmitExisting, SubmitReply, SubmitRejected, SubmitError,
         SubmitCancelled
  <2> QED BY <2>1, <2>2, <2>3
<1> QED BY <1>1, <1>2, <1>3, <1>4, <1>5 DEF Next

\* A submit task ends with the process, or once its order is no longer a mere intent.
LEMMA TaskSteps ==
  ASSUME TypeOK, Stages, Next, phase = "ready", NEW p \in task, wal'[p].type = "intent"
  PROVE  phase' = "down" \/ (phase' = "ready" /\ p \in task')
<1>0. /\ p \in Orders /\ wal[p] \in Row /\ IntentRow \in Row
      /\ "NEW" \in ExchangeStatus /\ "REJECTED" \in ExchangeStatus
  BY DEF TypeOK, Row, ExchangeStatus, Terminal
<1>1. ASSUME NEW o \in Orders, SubmitNext(o)
      PROVE  phase' = "ready" /\ p \in task'
  <2>1. phase' = "ready" /\ (p # o => p \in task')
    BY <1>1, Zenon DEF SubmitNext, Submit, SubmitExisting, SubmitReply, SubmitRejected, SubmitError,
         SubmitCancelled, lifeVars
  <2>2. ASSUME p = o, SubmitReply(o) \/ SubmitRejected(o) \/ SubmitError(o) \/ SubmitCancelled(o)
        PROVE  FALSE
    <3>1. CASE RecordUnknown(o)
      BY <2>2, <3>1, UnknownDoubts
    <3>2. CASE UNCHANGED wal /\ wal[o].type # "intent"
      BY <2>2, <3>2
    <3>3. CASE \E s \in {"NEW", "REJECTED"} :
                 wal' = [wal EXCEPT ![o] = RecordExchangeStatus(wal[o], IntentRow, s)]
      <4>1. PICK s \in {"NEW", "REJECTED"} :
                 wal' = [wal EXCEPT ![o] = RecordExchangeStatus(wal[o], IntentRow, s)]
        BY <3>3, Zenon
      <4>2. wal'[o] = RecordExchangeStatus(wal[o], IntentRow, s)
        BY <4>1 DEF TypeOK
      <4> QED BY <1>0, <2>2, <4>2, RowDoubts
    <3> QED BY <2>2, <3>1, <3>2, <3>3, Zenon DEF SubmitReply, SubmitRejected, SubmitError, SubmitCancelled
  <2>3. ASSUME p = o, Submit(o) \/ SubmitExisting(o)
        PROVE  p \in task'
    BY <2>3, Zenon DEF Submit, SubmitExisting
  <2> QED BY <1>1, <2>1, <2>2, <2>3 DEF SubmitNext
<1>2. ASSUME HandleReport \/ CancelNext \/ ExchangeNext
      PROVE  UNCHANGED <<phase, task>>
  BY <1>2, Zenon DEF HandleReport, CancelNext, CancelOrder, FlushCancel, CancelReply, CancelAnswer,
       CancelResolve, ExchangeNext, ExAccept, ExRefuse, ExLose, ExMove, ExCancel, procVars, lifeVars
<1>3. ASSUME PollNext
      PROVE  UNCHANGED <<phase, task>>
  BY <1>3, Zenon DEF PollNext, PollBegin, PollScan, PollAnswer, PollResolve, PollEnd, lifeVars
<1>4. ASSUME SyncNext
      PROVE  phase' = "down" \/ UNCHANGED <<phase, task>>
  <2>1. ASSUME NEW b, SyncFails(b)
        PROVE  phase' = "down" \/ UNCHANGED <<phase, task>>
    BY <2>1, Zenon DEF SyncFails, Down
  <2> QED BY <1>4, <2>1, Zenon DEF SyncNext, SyncQuery, SyncAnswer, SyncApply, SyncAck, SyncSucceed,
       SyncBreaks, lifeVars
<1>5. ASSUME LifeNext
      PROVE  phase' = "down" \/ UNCHANGED <<phase, task>>
  BY <1>5, Zenon DEF LifeNext, Start, Disconnect, Reconnect, ReconnectFails, FatalExit, Crash, Down,
       procVars, lifeVars
<1> QED BY <1>1, <1>2, <1>3, <1>4, <1>5, Zenon DEF Next

\* The scan of an order settles what it was: no intent any more, and if it is
\* still in doubt its symbol is blocked.
LEMMA ScanSettles ==
  ASSUME TypeOK, NEW p \in Orders, PollScan(p)
  PROVE  /\ p \in poll.intents => wal'[p].type # "intent"
         /\ wal'[p].status = "SUBMIT_UNKNOWN" => SymbolOf[p] \in blocked'
<1>1. CASE p \in poll.intents
  <2>1. RecordUnknown(p)
    BY <1>1 DEF PollScan
  <2>2. wal'[p].status = "SUBMIT_UNKNOWN" => SymbolOf[p] \in blocked'
    BY <2>1, Zenon DEF RecordUnknown, TypeOK
  <2> QED BY <2>1, <2>2, UnknownDoubts
<1>2. CASE p \notin poll.intents
  BY <1>2 DEF PollScan
<1> QED BY <1>1, <1>2

\* Only a start leaves the stopped state.
LEMMA DownSteps ==
  ASSUME TypeOK, Stages, Next, phase = "down"
  PROVE  Start \/ phase' = "down"
<1>1. task = {} /\ sync.pc = "off" /\ poll.pc = "off"
  BY DEF Stages, SyncOff
<1>2. \A o \in Orders : ~SubmitNext(o)
  BY <1>1 DEF SubmitNext, Submit, SubmitExisting, SubmitReply, SubmitRejected, SubmitError,
       SubmitCancelled
<1>3. ~HandleReport /\ ~PollNext
  BY <1>1 DEF HandleReport, Running, PollNext, PollBegin, PollScan, PollAnswer, PollResolve, PollEnd
<1>4. ~SyncNext
  BY <1>1 DEF SyncNext, SyncQuery, SyncAnswer, SyncApply, SyncAck, SyncSucceed, SyncBreaks
<1>5. ASSUME CancelNext \/ ExchangeNext
      PROVE  UNCHANGED phase
  BY <1>5 DEF CancelNext, CancelOrder, FlushCancel, CancelReply, CancelAnswer, CancelResolve,
       ExchangeNext, ExAccept, ExRefuse, ExLose, ExMove, ExCancel, lifeVars
<1>6. ASSUME LifeNext
      PROVE  Start \/ phase' = "down"
  BY <1>6 DEF LifeNext, Disconnect, Reconnect, ReconnectFails, FatalExit, Crash, Down
<1> QED BY <1>2, <1>3, <1>4, <1>5, <1>6 DEF Next

LEMMA AccountedStep ==
  ASSUME TypeOK, Recovered, Next, NEW p \in Orders
  PROVE  Accounted(p)'
<1>0. Stages /\ Stages' /\ Accounted(p) /\ phase \in {"down", "resolve", "sync", "ready"}
  BY StagesStep DEF Recovered, TypeOK
<1>1. SUFFICES ASSUME phase' # "down"
      PROVE  Accounted(p)'
  BY DEF Accounted
<1>2. CASE \E o \in Orders : Submit(o)
  <2>1. PICK o \in Orders : Submit(o)
    BY <1>2
  <2>2. /\ phase = "ready" /\ phase' = "ready" /\ blocked' = blocked
        /\ task' = task \cup {o} /\ wal' = [wal EXCEPT ![o] = IntentRow]
    BY <2>1 DEF Submit, lifeVars
  <2>3. CASE p = o
    BY <2>2, <2>3 DEF Accounted, TypeOK, IntentRow
  <2>4. CASE p # o
    BY <1>0, <2>2, <2>4, Zenon DEF Accounted, TypeOK
  <2> QED BY <2>3, <2>4
<1>3. CASE Doubts(p)
  <2>1. CASE phase = "down"
    <3>1. Start
      BY <1>0, <1>1, <2>1, DownSteps
    <3>2. phase' = "resolve" /\ poll' = PollPass /\ UNCHANGED wal
      BY <3>1 DEF Start
    <3> QED BY <3>2 DEF Accounted, PollPass, Unknowns, Unresolved
  <2>2. CASE phase = "resolve"
    <3>1. CASE \/ phase' = "sync" /\ poll.todo = {}
               \/ phase' = "resolve" /\ poll'.todo = poll.todo /\ poll'.intents = poll.intents
      BY <1>0, <1>3, <2>2, <3>1 DEF Accounted, Doubts
    <3>2. CASE \E o \in Orders : /\ PollScan(o) /\ phase' = "resolve"
                               /\ poll'.todo = poll.todo \ {o} /\ poll'.intents = poll.intents
      <4>1. PICK o \in Orders : /\ PollScan(o) /\ phase' = "resolve"
                                /\ poll'.todo = poll.todo \ {o} /\ poll'.intents = poll.intents
        BY <3>2, Zenon
      <4>2. CASE o = p
        BY <1>0, <1>3, <2>2, <4>1, <4>2, ScanSettles DEF Accounted, Doubts
      <4>3. CASE o # p
        BY <1>0, <1>3, <2>2, <4>1, <4>3 DEF Accounted, Doubts
      <4> QED BY <4>2, <4>3
    <3> QED BY <1>0, <1>1, <2>2, <3>1, <3>2, ResolveSteps
  <2>3. CASE phase = "sync"
    BY <1>0, <1>3, <2>3 DEF Accounted, Doubts
  <2>4. CASE phase = "ready"
    <3>1. wal'[p].type = "intent" => phase' = "ready" /\ p \in task'
      BY <1>0, <1>1, <1>3, <2>4, TaskSteps DEF Accounted, Doubts
    <3>2. wal'[p].status = "SUBMIT_UNKNOWN" => SymbolOf[p] \in blocked'
      BY <1>0, <1>3, <2>4 DEF Accounted, Doubts
    <3> QED BY <3>1, <3>2 DEF Accounted
  <2> QED BY <1>0, <2>1, <2>2, <2>3, <2>4
<1> QED BY <1>1, <1>2, <1>3, DoubtSteps, Zenon

=============================================================================
