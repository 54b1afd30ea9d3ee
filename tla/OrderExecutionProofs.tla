------------------------ MODULE OrderExecutionProofs ------------------------
(***************************************************************************)
(* Safety of OrderExecution for every set of orders and symbols and every  *)
(* bound on faults and reconnect attempts: the WAL is true, an order is    *)
(* posted once, recovery leaves no orphan and no unblocked doubt, and the  *)
(* WAL implements OrderFacts.                                              *)
(***************************************************************************)
EXTENDS OrderExecutionLemmas

-----------------------------------------------------------------------------
(* What one step writes to the WAL *)

\* The life cycle seen by a reader of the WAL: what one write may do.
FactMove(f, g) ==
  \/ f = g
  \/ f = "none" /\ g = "intent"
  \/ f = "intent" /\ g = "SUBMIT_UNKNOWN"
  \/ g \in ExchangeStatus /\ (f = "intent" \/ g \in ValidTransitions(f))

\* What the row operations do to the fact a row stands for.
LEMMA RowMoves ==
  ASSUME NEW latest \in Row, NEW held \in Row, NEW s \in ExchangeStatus, latest # NoRow
  PROVE  /\ FactMove(FactOf(latest), FactOf(RecordSubmitUnknown(latest)))
         /\ FactMove(FactOf(latest), FactOf(RecordExchangeStatus(latest, held, s)))
         /\ RecordSubmitUnknown(latest).status \in {latest.status, "SUBMIT_UNKNOWN"}
         /\ RecordExchangeStatus(latest, held, s).status \in {latest.status, s}
<1>1. latest \in {IntentRow, UnknownRow}
      \/ latest \in [type : {"exchange_status"}, status : ExchangeStatus, mark : Mark]
  BY DEF Row
<1>2. s \notin {"NONE", "SUBMIT_UNKNOWN", "ABSENT"}
  BY DEF ExchangeStatus, Terminal
<1>3. RecordSubmitUnknown(latest) \in {latest, UnknownRow}
  BY DEF RecordSubmitUnknown
<1>4. latest = UnknownRow \/ latest = IntentRow \/ RecordSubmitUnknown(latest) = latest
  BY <1>1 DEF RecordSubmitUnknown
<1>5. RecordExchangeStatus(latest, held, s) \in {latest, ExchangeRow(s)}
  BY DEF RecordExchangeStatus
<1>6. RecordExchangeStatus(latest, held, s) # latest =>
        latest.status = "NONE" \/ latest.status = s \/ s \in ValidTransitions(latest.status)
  BY DEF RecordExchangeStatus, InvalidResponse, StaleResponse, IsValidTransition
<1>7. FactMove(FactOf(latest), FactOf(RecordSubmitUnknown(latest)))
  BY <1>1, <1>3, <1>4 DEF FactMove, FactOf, IntentRow, UnknownRow
<1>8. FactMove(FactOf(latest), FactOf(RecordExchangeStatus(latest, held, s)))
  <2>1. CASE RecordExchangeStatus(latest, held, s) = latest
    BY <2>1 DEF FactMove
  <2>2. CASE RecordExchangeStatus(latest, held, s) # latest
    <3>1. FactOf(RecordExchangeStatus(latest, held, s)) = s
      BY <1>2, <1>5, <2>2 DEF FactOf, ExchangeRow
    <3>2. latest.status = "NONE" => FactOf(latest) = "intent"
      BY <1>1 DEF FactOf, IntentRow, UnknownRow, ExchangeStatus, Terminal
    <3>3. latest.status # "NONE" => FactOf(latest) = latest.status
      BY DEF FactOf
    <3> QED BY <1>6, <2>2, <3>1, <3>2, <3>3 DEF FactMove
  <2> QED BY <2>1, <2>2
<1>9. RecordExchangeStatus(latest, held, s).status \in {latest.status, s}
  BY <1>5 DEF ExchangeRow
<1>10. RecordSubmitUnknown(latest).status \in {latest.status, "SUBMIT_UNKNOWN"}
  BY <1>3 DEF UnknownRow
<1> QED BY <1>7, <1>8, <1>9, <1>10

\* Only the empty row stands for "none".
LEMMA NoneIsNoRow == \A row \in Row : FactOf(row) = "none" <=> row = NoRow
BY DEF Row, NoRow, IntentRow, UnknownRow, FactOf, ExchangeStatus, Terminal

\* A step writes at most one row, along the life cycle, with a status that
\* Happened if it is an exchange status.
WalStep ==
  \/ \A p \in Orders : wal'[p].status = wal[p].status /\ wal'[p].type = wal[p].type
  \/ \E o \in Orders :
       /\ \A p \in Orders \ {o} : wal'[p] = wal[p]
       /\ FactMove(FactOf(wal[o]), FactOf(wal'[o]))
       /\ \/ wal'[o].status \in {wal[o].status, "NONE", "SUBMIT_UNKNOWN"}
          \/ Happened(o, wal'[o].status)

\* One write by one of the WAL operations is such a step.
LEMMA WriteIsStep ==
  ASSUME TypeOK, NEW o \in Orders, NEW r, wal' = [wal EXCEPT ![o] = r],
         FactMove(FactOf(wal[o]), FactOf(r)),
         \/ r.status \in {wal[o].status, "NONE", "SUBMIT_UNKNOWN"}
         \/ Happened(o, r.status)
  PROVE  WalStep
BY Zenon DEF WalStep, TypeOK

\* Recording a doubt about an order of the WAL.
LEMMA UnknownIsStep ==
  ASSUME TypeOK, NEW o \in Orders, wal[o] # NoRow, RecordUnknown(o)
  PROVE  WalStep
<1>1. wal[o] \in Row /\ "NEW" \in ExchangeStatus
  BY DEF TypeOK, ExchangeStatus
<1>2. FactMove(FactOf(wal[o]), FactOf(RecordSubmitUnknown(wal[o])))
      /\ RecordSubmitUnknown(wal[o]).status \in {wal[o].status, "SUBMIT_UNKNOWN"}
  BY <1>1, RowMoves
<1> QED BY <1>2, WriteIsStep, Zenon DEF RecordUnknown

\* Recording an exchange status that Happened.
LEMMA StatusIsStep ==
  ASSUME TypeOK, NEW o \in Orders, wal[o] # NoRow, NEW held \in Row,
         NEW s \in ExchangeStatus, Happened(o, s),
         wal' = [wal EXCEPT ![o] = RecordExchangeStatus(wal[o], held, s)]
  PROVE  WalStep
<1>1. wal[o] \in Row
  BY DEF TypeOK
<1>2. /\ FactMove(FactOf(wal[o]), FactOf(RecordExchangeStatus(wal[o], held, s)))
      /\ RecordExchangeStatus(wal[o], held, s).status \in {wal[o].status, s}
  BY <1>1, RowMoves
<1>3. \/ RecordExchangeStatus(wal[o], held, s).status \in {wal[o].status, "NONE", "SUBMIT_UNKNOWN"}
      \/ Happened(o, RecordExchangeStatus(wal[o], held, s).status)
  BY <1>2
<1> HIDE DEF RecordExchangeStatus
<1> QED BY <1>2, <1>3, WriteIsStep, Zenon

\* Every step of every task is such a step, because its order is in the WAL
\* and what it writes is evidence.
LEMMA WalSteps ==
  ASSUME TypeOK, ExecutionInv, Next
  PROVE  WalStep
<1> USE DEF ExecutionInv
<1>0. /\ "NEW" \in ExchangeStatus /\ "REJECTED" \in ExchangeStatus
      /\ "CANCELLED" \in ExchangeStatus /\ Terminal \subseteq ExchangeStatus
      /\ IntentRow \in Row /\ UnknownRow \in Row /\ \A o \in Orders : wal[o] \in Row
  BY DEF ExchangeStatus, Terminal, Row, TypeOK
<1>1. ASSUME NEW o \in Orders, SubmitNext(o)
      PROVE  WalStep
  <2>1. CASE Submit(o)
    <3>1. FactMove(FactOf(wal[o]), FactOf(IntentRow)) /\ IntentRow.status = "NONE"
      BY <2>1 DEF Submit, FactMove, FactOf, NoRow, IntentRow
    <3> QED BY <2>1, <3>1, WriteIsStep, Zenon DEF Submit
  <2>2. CASE SubmitExisting(o)
    BY <2>2, UnknownIsStep DEF SubmitExisting, WalStep
  <2>3. CASE SubmitReply(o)
    <3>1. wal[o] # NoRow /\ Happened(o, "NEW")
      BY <2>3 DEF SubmitReply, Known, Evidence, Happened, StatusHolds
    <3> QED BY <1>0, <2>3, <3>1, StatusIsStep DEF SubmitReply, WalStep
  <2>4. CASE SubmitRejected(o)
    <3>1. wal[o] # NoRow /\ Happened(o, "REJECTED")
      BY <2>4 DEF SubmitRejected, Known, Evidence, Happened, StatusHolds
    <3> QED BY <1>0, <2>4, <3>1, StatusIsStep, ZenonT(40) DEF SubmitRejected
  <2>5. CASE SubmitError(o)
    BY <2>5, UnknownIsStep DEF SubmitError, Known
  <2>6. CASE SubmitCancelled(o)
    BY <2>6, UnknownIsStep DEF SubmitCancelled, WalStep, Known
  <2> QED BY <1>1, <2>1, <2>2, <2>3, <2>4, <2>5, <2>6 DEF SubmitNext
<1>2. CASE HandleReport
  <2> DEFINE e == Head(stream)
  <2>0. stream \in Seq(Report) /\ stream # <<>>
    BY <1>2 DEF HandleReport, TypeOK
  <2>1. e.o \in Orders /\ e.s \in ExchangeStatus
    <3>1. e \in Report
      BY <2>0, TailFacts
    <3> QED BY <3>1 DEF Report
  <2>2. Happened(e.o, e.s)
    <3>1. e = stream[1] /\ 1 \in 1..Len(stream)
      BY <2>0
    <3> QED BY <3>1 DEF Evidence
  <2>3. UNCHANGED wal \/ (wal[e.o] # NoRow
          /\ wal' = [wal EXCEPT ![e.o] = RecordExchangeStatus(wal[e.o], wal[e.o], e.s)])
    BY <1>2 DEF HandleReport
  <2> HIDE DEF e
  <2> QED BY <1>0, <2>1, <2>2, <2>3, StatusIsStep DEF WalStep
<1>3. CASE PollNext
  <2>1. ASSUME NEW o \in Orders, PollScan(o)
        PROVE  WalStep
    BY <2>1, UnknownIsStep DEF PollScan, WalStep, Known
  <2>2. CASE PollResolve
    <3>1. poll.at \in Orders /\ wal[poll.at] # NoRow /\ Happened(poll.at, poll.ans)
      BY <2>2 DEF PollResolve, Known, Evidence, TypeOK
    <3>2. \/ UNCHANGED wal
          \/ poll.ans \in ExchangeStatus
             /\ wal' = [wal EXCEPT ![poll.at] =
                          RecordExchangeStatus(wal[poll.at], UnknownRow, poll.ans)]
      BY <2>2 DEF PollResolve
    <3> QED BY <1>0, <3>1, <3>2, StatusIsStep DEF WalStep
  <2>3. CASE PollBegin \/ PollAnswer \/ PollEnd
    BY <2>3 DEF PollBegin, PollAnswer, PollEnd, WalStep
  <2> QED BY <1>3, <2>1, <2>2, <2>3 DEF PollNext
<1>4. CASE SyncNext
  <2>1. CASE SyncApply
    <3> DEFINE o == sync.at
               row == wal[o]
    <3>1. /\ o \in Orders /\ row # NoRow /\ row \in Row /\ Happened(o, sync.ans)
          /\ sync.ans \in ExchangeStatus \cup {"ABSENT"}
      BY <2>1 DEF SyncApply, Known, Evidence, TypeOK, SyncState
    <3>2. CASE UNCHANGED wal
      BY <3>2 DEF WalStep
    <3>3. CASE /\ sync.ans \in ExchangeStatus /\ ~InvalidResponse(row, row, sync.ans)
               /\ wal' = [wal EXCEPT ![o] =
                            [RecordExchangeStatus(row, row, sync.ans) EXCEPT !.mark = "synced"]]
      <4> DEFINE w == RecordExchangeStatus(row, row, sync.ans)
                 r == [w EXCEPT !.mark = "synced"]
      <4>1. w = ExchangeRow(sync.ans) /\ FactMove(FactOf(row), FactOf(w))
        BY <3>1, <3>3, RowMoves DEF RecordExchangeStatus, StaleResponse
      <4>2. r.status = w.status /\ r.type = w.type /\ w.status = sync.ans
        BY <4>1 DEF ExchangeRow
      <4>3. FactMove(FactOf(row), FactOf(r)) /\ Happened(o, r.status)
        BY <3>1, <4>1, <4>2 DEF FactOf
      <4>4. wal' = [wal EXCEPT ![o] = r]
        BY <3>3
      <4> HIDE DEF r, w
      <4> QED BY <3>1, <4>3, <4>4, WriteIsStep, Zenon
    <3> QED BY <2>1, <3>1, <3>2, <3>3 DEF SyncApply
  <2>2. CASE SyncAck
    BY <2>2 DEF SyncAck, Acknowledged, WalStep, TypeOK, Row, NoRow, IntentRow, UnknownRow
  <2>3. CASE (\E o \in Orders : SyncQuery(o)) \/ SyncAnswer \/ SyncSucceed \/ SyncBreaks
    BY <2>3, Zenon DEF SyncQuery, SyncAnswer, SyncSucceed, SyncBreaks, WalStep
  <2> QED BY <1>4, <2>1, <2>2, <2>3 DEF SyncNext
<1>5. CASE CancelNext
  <2>1. CASE CancelReply
    <3>1. cancel.at \in Orders /\ wal[cancel.at] # NoRow /\ Happened(cancel.at, cancel.ans)
      BY <2>1 DEF CancelReply, Known, Evidence, TypeOK
    <3>2. \/ UNCHANGED wal
          \/ cancel.ans = "CANCELLED"
             /\ wal' = [wal EXCEPT ![cancel.at] =
                          RecordExchangeStatus(wal[cancel.at], wal[cancel.at], "CANCELLED")]
      BY <2>1 DEF CancelReply
    <3> QED BY <1>0, <3>1, <3>2, StatusIsStep DEF WalStep
  <2>2. CASE CancelResolve
    <3>1. /\ cancel.at \in Orders /\ wal[cancel.at] # NoRow /\ Happened(cancel.at, cancel.ans)
          /\ cancel.held \in Row
      BY <2>2 DEF CancelResolve, Known, Evidence, TypeOK, CancelState
    <3>2. \/ UNCHANGED wal
          \/ cancel.ans \in Terminal
             /\ wal' = [wal EXCEPT ![cancel.at] =
                          RecordExchangeStatus(wal[cancel.at], cancel.held, cancel.ans)]
      BY <2>2 DEF CancelResolve
    <3> QED BY <1>0, <3>1, <3>2, StatusIsStep DEF WalStep
  <2>3. CASE CancelAnswer \/ \E o \in Orders : CancelOrder(o) \/ FlushCancel(o)
    BY <2>3 DEF CancelAnswer, CancelOrder, FlushCancel, WalStep
  <2> QED BY <1>5, <2>1, <2>2, <2>3 DEF CancelNext
<1>6. CASE LifeNext \/ ExchangeNext
  <2>1. UNCHANGED wal
    BY <1>6 DEF LifeNext, ExchangeNext, Start, Disconnect, Reconnect, ReconnectFails, FatalExit,
                Crash, ExAccept, ExRefuse, ExLose, ExMove, ExCancel
  <2> QED BY <2>1 DEF WalStep
<1> QED BY <1>1, <1>2, <1>3, <1>4, <1>5, <1>6 DEF Next

-----------------------------------------------------------------------------
(* What one step does to the exchange side *)

\* No row is forgotten.
LEMMA WalKept ==
  ASSUME TypeOK, TypeOK', WalStep
  PROVE  \A o \in Orders : wal[o] # NoRow => wal'[o] # NoRow
<1> SUFFICES ASSUME NEW o \in Orders, wal[o] # NoRow PROVE wal'[o] # NoRow
  OBVIOUS
<1>1. wal[o] \in Row /\ wal'[o] \in Row
  BY DEF TypeOK
<1>2. FactOf(wal[o]) # "none"
  BY <1>1, NoneIsNoRow
<1>3. FactOf(wal'[o]) = FactOf(wal[o]) \/ FactMove(FactOf(wal[o]), FactOf(wal'[o]))
  BY DEF WalStep, FactOf
<1>4. FactOf(wal'[o]) # "none"
  BY <1>2, <1>3 DEF FactMove, ExchangeStatus, Terminal
<1> QED BY <1>1, <1>4, NoneIsNoRow

\* What a step may do to an order at the exchange and to its request.
ExStep ==
  \A o \in Orders :
    /\ net[o] \in {"accepted", "refused"} => net'[o] = net[o]
    /\ \/ exch'[o] = exch[o] /\ (net'[o] = "accepted" <=> net[o] = "accepted")
       \/ exch[o] = "ABSENT" /\ net[o] = "sent" /\ exch'[o] = "NEW" /\ net'[o] = "accepted"
       \/ /\ exch[o] = "NEW" /\ net'[o] = net[o]
          /\ exch'[o] \in {"PARTIALLY_FILLED", "FILLED", "CANCELLED", "EXPIRED"}
       \/ exch[o] = "PARTIALLY_FILLED" /\ exch'[o] \in {"FILLED", "CANCELLED"} /\ net'[o] = net[o]

\* Every step is such a step.
LEMMA ExSteps ==
  ASSUME TypeOK, ExecutionInv, Next
  PROVE  ExStep
<1> USE OrdersAssumption
<1>0. (exch' = exch /\ net' = net) => ExStep
  BY DEF ExStep
<1>1. CASE \E o \in Orders : Submit(o)
  BY <1>1 DEF Submit, ExStep, ExecutionInv, Known, TypeOK
<1>2. CASE \E o \in Orders : ExAccept(o) \/ ExRefuse(o) \/ ExLose(o)
  BY <1>2 DEF ExAccept, ExRefuse, ExLose, ExStep, ExecutionInv, Evidence, TypeOK
<1>3. CASE \E o \in Orders, s \in Moves : ExMove(o, s)
  BY <1>3 DEF ExMove, ExStep, TypeOK
<1>4. CASE ExCancel
  BY <1>4 DEF ExCancel, ExStep, TypeOK
<1>5. CASE \E o \in Orders : \/ SubmitExisting(o) \/ SubmitReply(o) \/ SubmitRejected(o)
                            \/ SubmitError(o) \/ SubmitCancelled(o)
  BY <1>0, <1>5 DEF SubmitExisting, SubmitReply, SubmitRejected, SubmitError, SubmitCancelled, exVars
<1>6. CASE HandleReport \/ PollNext
  BY <1>0, <1>6, ZenonT(40) DEF HandleReport, PollNext, PollBegin, PollScan, PollAnswer, PollResolve, PollEnd,
                    exVars
<1>7. CASE SyncNext \/ CancelNext
  BY <1>0, <1>7, Zenon DEF SyncNext, SyncQuery, SyncAnswer, SyncApply, SyncAck, SyncSucceed, SyncBreaks,
       CancelNext, CancelOrder, FlushCancel, CancelReply, CancelAnswer, CancelResolve, exVars
<1>8. CASE LifeNext
  BY <1>0, <1>8 DEF LifeNext, Start, Disconnect, Reconnect, ReconnectFails, FatalExit, Crash, exVars
<1> QED BY <1>1, <1>2, <1>3, <1>4, <1>5, <1>6, <1>7, <1>8 DEF Next, SubmitNext, ExchangeNext

\* What happened stays true.
LEMMA StillHolds ==
  ASSUME TypeOK, Evidence, ExStep, NEW o \in Orders, NEW s, StatusHolds(exch[o], net[o], s)
  PROVE  StatusHolds(exch'[o], net'[o], s)
<1>1. /\ net[o] \in {"accepted", "refused"} => net'[o] = net[o]
      /\ \/ exch'[o] = exch[o] /\ (net'[o] = "accepted" <=> net[o] = "accepted")
         \/ exch[o] = "ABSENT" /\ net[o] = "sent" /\ exch'[o] = "NEW"
         \/ /\ exch[o] = "NEW"
            /\ exch'[o] \in {"PARTIALLY_FILLED", "FILLED", "CANCELLED", "EXPIRED"}
         \/ exch[o] = "PARTIALLY_FILLED" /\ exch'[o] \in {"FILLED", "CANCELLED"}
  BY DEF ExStep
<1>2. CASE s = "REJECTED"
  BY <1>1, <1>2 DEF StatusHolds
<1>3. CASE s = "NEW"
  BY <1>1, <1>3 DEF StatusHolds
<1>4. CASE s \notin {"NEW", "REJECTED"}
  BY <1>1, <1>4 DEF StatusHolds
<1> QED BY <1>2, <1>3, <1>4

\* The state of an order at the exchange is evidence of itself.
LEMMA StateHolds ==
  ASSUME TypeOK, Evidence, NEW o \in Orders
  PROVE  StatusHolds(exch[o], net[o], exch[o]) /\ StatusHolds(exch[o], net[o], "FAILED")
BY DEF TypeOK, Evidence, StatusHolds

\* A true WAL stays true.
LEMMA FactsStayTrue ==
  ASSUME TypeOK, ExecutionInv, ExStep, WalStep
  PROVE  FactsAreTrue'
<1> SUFFICES ASSUME NEW o \in Orders PROVE StatusHolds(exch'[o], net'[o], wal'[o].status)
  BY DEF FactsAreTrue, Happened
<1>1. StatusHolds(exch[o], net[o], wal[o].status) /\ Evidence
  BY DEF ExecutionInv, FactsAreTrue, Happened
<1>2. \/ wal'[o].status \in {wal[o].status, "NONE", "SUBMIT_UNKNOWN"}
      \/ StatusHolds(exch[o], net[o], wal'[o].status)
  BY DEF WalStep, Happened
<1>3. StatusHolds(exch[o], net[o], "NONE") /\ StatusHolds(exch[o], net[o], "SUBMIT_UNKNOWN")
  BY DEF StatusHolds
<1> QED BY <1>1, <1>2, <1>3, StillHolds

-----------------------------------------------------------------------------
(* What one step does to answers and reports on their way *)

\* Where a failing sync and a stopping process leave the three activities.
LEMMA Rests ==
  /\ Down => sync' = SyncOff /\ poll' = PollOff /\ cancel' = CancelOff /\ stream' = <<>>
  /\ \A b : SyncFails(b) =>
       /\ sync' = SyncOff
       /\ poll' \in {poll, PollOff, PollRest("idle", TRUE)}
       /\ cancel' \in {cancel, CancelOff}
       /\ stream' = stream \/ stream' = <<>>
  /\ \A r : PollRest("idle", r).pc = "idle"
  /\ PollOff.pc = "off" /\ SyncOff.pc = "off" /\ CancelOff.pc = "off"
  /\ \A by : StartSync(by).pc = "scan"
<1>1. Down => sync' = SyncOff /\ poll' = PollOff /\ cancel' = CancelOff /\ stream' = <<>>
  BY DEF Down
<1>2. ASSUME NEW b, SyncFails(b)
      PROVE  /\ sync' = SyncOff
             /\ poll' \in {poll, PollOff, PollRest("idle", TRUE)}
             /\ cancel' \in {cancel, CancelOff}
             /\ stream' = stream \/ stream' = <<>>
  BY <1>1, <1>2, ZenonT(40) DEF SyncFails, linkVars
<1>3. /\ \A r : PollRest("idle", r).pc = "idle"
      /\ PollOff.pc = "off" /\ SyncOff.pc = "off" /\ CancelOff.pc = "off"
      /\ \A by : StartSync(by).pc = "scan"
  BY DEF PollOff, PollRest, SyncOff, CancelOff, StartSync
<1> QED BY <1>1, <1>2, <1>3, Zenon

\* What a step may do to an answer on its way to the poller: only a fresh
\* answer of the exchange is added,
LEMMA PollAnswers ==
  ASSUME TypeOK, Next, poll'.pc \in {"query", "answer"}
  PROVE  \/ poll' = poll
         \/ /\ poll'.pc = "query" /\ poll'.at \in Orders /\ poll'.at \in poll.todo
         \/ /\ poll'.pc = "answer" /\ poll.pc = "query" /\ poll'.at = poll.at
            /\ poll'.ans \in {exch[poll.at], "FAILED"}
<1>1. CASE PollBegin
  BY <1>1 DEF PollBegin, PollPass
<1>2. ASSUME NEW o \in Orders, PollScan(o)
      PROVE  poll'.pc = "query" /\ poll'.at \in Orders /\ poll'.at \in poll.todo
  <2>1. poll \in PollState /\ poll.pc = "scan" /\ o \in poll.todo
    BY <1>2 DEF PollScan, TypeOK
  <2>2. \/ poll' = [poll EXCEPT !.todo = @ \ {o}]
        \/ poll' = [poll EXCEPT !.todo = @ \ {o}, !.pc = "query", !.at = o]
    BY <1>2 DEF PollScan
  <2> QED BY <2>1, <2>2, Zenon DEF PollState
<1>3. CASE PollAnswer
  <2>1. PICK x \in {exch[poll.at], "FAILED"} : poll' = [poll EXCEPT !.pc = "answer", !.ans = x]
    BY <1>3 DEF PollAnswer
  <2> QED BY <1>3, <2>1 DEF PollAnswer, TypeOK, PollState
<1>4. CASE PollResolve
  BY <1>4 DEF PollResolve, TypeOK, PollState
<1>5. CASE PollEnd
  BY <1>5 DEF PollEnd, PollOff, PollRest, TypeOK, PollState
<1>6. CASE SyncNext
  <2>1. poll' \in {poll, PollOff, PollRest("idle", TRUE), PollRest("idle", FALSE)}
    BY <1>6, Rests, ZenonT(40) DEF SyncNext, SyncQuery, SyncAnswer, SyncApply, SyncAck, SyncSucceed, SyncBreaks
  <2> QED BY <2>1, Rests, Zenon
<1>7. CASE LifeNext
  BY <1>7 DEF LifeNext, Start, Disconnect, Reconnect, ReconnectFails, FatalExit, Crash,
              Down, PollOff, PollRest, PollPass, procVars
<1>8. CASE HandleReport \/ CancelNext \/ ExchangeNext \/ \E o \in Orders : SubmitNext(o)
  BY <1>8, ZenonT(40) DEF HandleReport, CancelNext, CancelOrder, FlushCancel, CancelReply, CancelAnswer,
       CancelResolve, ExchangeNext, ExAccept, ExRefuse, ExLose, ExMove, ExCancel, procVars,
       SubmitNext, Submit, SubmitExisting, SubmitReply, SubmitRejected, SubmitError, SubmitCancelled
<1> QED BY <1>1, <1>2, <1>3, <1>4, <1>5, <1>6, <1>7, <1>8 DEF Next, PollNext

\* ... to the sync,
LEMMA SyncAnswers ==
  ASSUME TypeOK, Next, sync'.pc \in {"query", "answer"}
  PROVE  \/ sync' = sync
         \/ sync'.pc = "query" /\ sync'.at \in Orders /\ sync'.at \in sync.todo
         \/ /\ sync'.pc = "answer" /\ sync.pc = "query" /\ sync'.at = sync.at
            /\ sync'.ans = exch[sync.at]
<1>1. CASE SyncNext
  <2>1. ASSUME NEW o \in Orders, SyncQuery(o)
        PROVE  sync'.pc = "query" /\ sync'.at \in Orders /\ sync'.at \in sync.todo
    BY <2>1 DEF SyncQuery, TypeOK, SyncState
  <2>2. CASE SyncAnswer
    BY <2>2 DEF SyncAnswer, TypeOK, SyncState
  <2>3. CASE SyncApply
    <3>1. sync' = SyncOff \/ sync' = [sync EXCEPT !.pc = "scan", !.at = "none", !.ans = "none"]
      BY <2>3, Rests, Zenon DEF SyncApply
    <3>2. CASE sync' = SyncOff
      BY <3>2, Rests
    <3>3. CASE sync' = [sync EXCEPT !.pc = "scan", !.at = "none", !.ans = "none"]
      BY <3>3 DEF TypeOK, SyncState
    <3> QED BY <3>1, <3>2, <3>3
  <2>4. CASE SyncAck
    BY <2>4 DEF SyncAck, TypeOK, SyncState
  <2>5. CASE SyncSucceed \/ SyncBreaks
    BY <2>5, Rests, Zenon DEF SyncSucceed, SyncBreaks
  <2> QED BY <1>1, <2>1, <2>2, <2>3, <2>4, <2>5 DEF SyncNext
<1>2. CASE PollNext
  BY <1>2, Rests, ZenonT(40) DEF PollNext, PollBegin, PollScan, PollAnswer, PollResolve, PollEnd
<1>3. CASE LifeNext
  <2>1. sync' \in {sync, SyncOff, StartSync("reconnect")}
    BY <1>3, Rests, Zenon DEF LifeNext, Start, Disconnect, Reconnect, ReconnectFails, FatalExit,
         Crash, procVars
  <2> QED BY <2>1, Rests, Zenon
<1>4. CASE HandleReport \/ CancelNext \/ ExchangeNext \/ \E o \in Orders : SubmitNext(o)
  BY <1>4 DEF HandleReport, CancelNext, CancelOrder, FlushCancel, CancelReply, CancelAnswer,
       CancelResolve, ExchangeNext, ExAccept, ExRefuse, ExLose, ExMove, ExCancel, procVars,
       SubmitNext, Submit, SubmitExisting, SubmitReply, SubmitRejected, SubmitError, SubmitCancelled
<1> QED BY <1>1, <1>2, <1>3, <1>4 DEF Next

\* ... and to the cancel task.
LEMMA CancelAnswers ==
  ASSUME TypeOK, Next, cancel'.pc # "off"
  PROVE  \/ cancel' = cancel
         \/ cancel'.pc = "cancelling" /\ cancel'.at \in cancelReq
         \/ /\ cancel.pc # "off" /\ cancel'.at = cancel.at
            /\ \/ cancel'.pc = "querying"
               \/ cancel'.ans \in {exch[cancel.at], "FAILED"}
               \/ cancel'.ans = "CANCELLED" /\ exch'[cancel.at] = "CANCELLED"
<1>1. CASE CancelNext
  <2>1. ASSUME NEW o \in Orders, CancelOrder(o) \/ FlushCancel(o)
        PROVE  cancel' = cancel \/ (cancel'.pc = "cancelling" /\ cancel'.at \in cancelReq)
    BY <2>1 DEF CancelOrder, FlushCancel, CancelOf
  <2>2. CASE CancelReply
    <3>1. cancel' = CancelOff
          \/ cancel' = [cancel EXCEPT !.pc = "querying", !.ans = "none", !.held = wal[cancel.at]]
      BY <2>2 DEF CancelReply
    <3>2. cancel \in CancelState /\ cancel.pc = "replied"
      BY <2>2 DEF CancelReply, TypeOK
    <3>3. CASE cancel' = [cancel EXCEPT !.pc = "querying", !.ans = "none", !.held = wal[cancel.at]]
      BY <3>2, <3>3 DEF CancelState
    <3> QED BY <3>1, <3>3, Rests
  <2>3. CASE CancelAnswer
    <3>1. PICK x \in {exch[cancel.at], "FAILED"} :
               cancel' = [cancel EXCEPT !.pc = "answered", !.ans = x]
      BY <2>3 DEF CancelAnswer
    <3> QED BY <2>3, <3>1 DEF CancelAnswer, TypeOK, CancelState
  <2>4. CASE CancelResolve
    BY <2>4 DEF CancelResolve, CancelOff
  <2> QED BY <1>1, <2>1, <2>2, <2>3, <2>4 DEF CancelNext
<1>2. CASE ExCancel
  <2>1. PICK x \in {"CANCELLED", "FAILED"} :
             /\ cancel' = [cancel EXCEPT !.pc = "replied", !.ans = x]
             /\ x = "CANCELLED" => exch'[cancel.at] = "CANCELLED"
    BY <1>2, ZenonT(40) DEF ExCancel, TypeOK
  <2>2. cancel \in CancelState /\ cancel.pc = "cancelling"
    BY <1>2 DEF ExCancel, TypeOK
  <2>3. cancel'.at = cancel.at /\ cancel'.ans = x
    BY <2>1, <2>2 DEF CancelState
  <2> QED BY <2>1, <2>2, <2>3
<1>3. CASE SyncNext \/ LifeNext
  <2>1. cancel' \in {cancel, CancelOff}
    BY <1>3, Rests, Zenon DEF SyncNext, SyncQuery, SyncAnswer, SyncApply, SyncAck, SyncSucceed, SyncBreaks,
         LifeNext, Start, Disconnect, Reconnect, ReconnectFails, FatalExit, Crash, procVars
  <2> QED BY <2>1, Rests
<1>4. CASE HandleReport \/ PollNext \/ \E o \in Orders : SubmitNext(o)
  BY <1>4, Zenon DEF HandleReport, PollNext, PollBegin, PollScan, PollAnswer, PollResolve, PollEnd,
       SubmitNext, Submit, SubmitExisting, SubmitReply, SubmitRejected, SubmitError, SubmitCancelled
<1>5. CASE \E o \in Orders : ExAccept(o) \/ ExRefuse(o) \/ ExLose(o) \/ \E s \in Moves : ExMove(o, s)
  BY <1>5, Zenon DEF ExAccept, ExRefuse, ExLose, ExMove, procVars
<1> QED BY <1>1, <1>2, <1>3, <1>4, <1>5 DEF Next, ExchangeNext

\* Reports on the stream: a step removes some, or appends one that is true.
LEMMA StreamSteps ==
  ASSUME TypeOK, Evidence, Next, NEW i \in 1..Len(stream')
  PROVE  \/ \E j \in 1..Len(stream) : stream'[i] = stream[j]
         \/ /\ stream'[i].o \in Orders
            /\ StatusHolds(exch'[stream'[i].o], net'[stream'[i].o], stream'[i].s)
<1> USE OrdersAssumption
<1>0. stream \in Seq(Report)
  BY Zenon DEF TypeOK
<1>1. ASSUME NEW o \in Orders, NEW s \in ExchangeStatus, Emit(o, s),
             StatusHolds(exch'[o], net'[o], s)
      PROVE  \/ \E j \in 1..Len(stream) : stream'[i] = stream[j]
             \/ /\ stream'[i].o \in Orders
                /\ StatusHolds(exch'[stream'[i].o], net'[stream'[i].o], stream'[i].s)
  <2>1. CASE stream' = stream
    BY <2>1
  <2>2. CASE stream' = Append(stream, [o |-> o, s |-> s])
    <3>1. [o |-> o, s |-> s] \in Report
      BY DEF Report
    <3>2. /\ Len(stream') = Len(stream) + 1
          /\ stream'[Len(stream) + 1] = [o |-> o, s |-> s]
          /\ \A j \in 1..Len(stream) : stream'[j] = stream[j]
      BY <1>0, <2>2, <3>1, AppendFacts
    <3>3. i \in 1..Len(stream) \/ i = Len(stream) + 1
      BY <1>0, <3>2
    <3> QED BY <1>1, <3>2, <3>3
  <2> QED BY <1>1, <2>1, <2>2 DEF Emit
<1>2. CASE UNCHANGED stream \/ stream' = <<>>
  BY <1>2
<1>3. CASE HandleReport
  <2>1. stream' = <<>> \/ (stream # <<>> /\ stream' = Tail(stream))
    BY <1>3, Zenon DEF HandleReport
  <2> QED BY <1>0, <1>2, <2>1, TailFacts
<1>4. CASE Disconnect
  <2>1. PICK k \in 0..Len(stream) : stream' = SubSeq(stream, 1, k)
    BY <1>4 DEF Disconnect
  <2>2. Len(stream') = k /\ \A j \in 1..k : stream'[j] = stream[j]
    BY <1>0, <2>1, PrefixOf, Zenon
  <2> QED BY <1>0, <2>1, <2>2
<1>5. ASSUME NEW o \in Orders, ExAccept(o)
      PROVE  Emit(o, "NEW") /\ StatusHolds(exch'[o], net'[o], "NEW")
  BY <1>5 DEF ExAccept, TypeOK, StatusHolds
<1>6. ASSUME NEW o \in Orders, NEW s \in Moves, ExMove(o, s)
      PROVE  Emit(o, s) /\ StatusHolds(exch'[o], net'[o], s)
  BY <1>6 DEF ExMove, TypeOK, StatusHolds
<1>7. CASE ExCancel
  <2>1. \/ stream' = stream
        \/ Emit(cancel.at, "CANCELLED") /\ exch'[cancel.at] = "CANCELLED"
    BY <1>7 DEF ExCancel, TypeOK
  <2>2. cancel.at \in Orders
    BY <1>7 DEF ExCancel, TypeOK
  <2> QED BY <1>1, <1>2, <2>1, <2>2, Zenon DEF StatusHolds, ExchangeStatus, Terminal
<1>8. CASE SyncNext \/ LifeNext
  BY <1>2, <1>4, <1>8, ZenonT(40) DEF SyncNext, SyncQuery, SyncAnswer, SyncApply, SyncAck, SyncSucceed, SyncBreaks,
       SyncFails, Down, LifeNext, Start, Reconnect, ReconnectFails,
       FatalExit, Crash, linkVars
<1>9. CASE PollNext \/ CancelNext \/ \E o \in Orders : SubmitNext(o)
  BY <1>2, <1>9, Zenon DEF PollNext, PollBegin, PollScan, PollAnswer, PollResolve, PollEnd,
       CancelNext, CancelOrder, FlushCancel, CancelReply, CancelAnswer, CancelResolve,
       SubmitNext, Submit, SubmitExisting, SubmitReply, SubmitRejected, SubmitError,
       SubmitCancelled, linkVars
<1>10. CASE ExchangeNext
  <2>1. CASE \E o \in Orders : ExRefuse(o) \/ ExLose(o)
    BY <1>2, <2>1 DEF ExRefuse, ExLose, linkVars
  <2>2. "NEW" \in ExchangeStatus /\ Moves \subseteq ExchangeStatus
    BY DEF ExchangeStatus, Terminal
  <2> QED BY <1>1, <1>5, <1>6, <1>7, <1>10, <2>1, <2>2, ZenonT(40) DEF ExchangeNext
<1> QED BY <1>3, <1>8, <1>9, <1>10 DEF Next

-----------------------------------------------------------------------------
(* The inductive invariant and the theorems *)

\* Who holds an order after a step held it before, or found it in the WAL.
LEMMA Holders ==
  ASSUME TypeOK, Next
  PROVE  \A o \in task' \cup poll'.todo \cup sync'.todo \cup cancelReq' :
            o \in Orders /\ (wal'[o] # NoRow \/ wal[o] # NoRow
                               \/ o \in task \cup poll.todo \cup sync.todo \cup cancelReq)
<1>0. PollOff.todo = {} /\ SyncOff.todo = {} /\ (\A pc, r : PollRest(pc, r).todo = {})
      /\ PollPass.todo = Unknowns /\ (\A by : StartSync(by).todo = SyncTodo)
  BY DEF PollOff, PollRest, SyncOff, PollPass, StartSync
<1>1. \A o \in Unknowns \cup SyncTodo : o \in Orders /\ wal[o] # NoRow
  BY DEF Unknowns, SyncTodo, Unresolved, NoRow
<1>2. task \subseteq Orders /\ poll.todo \subseteq Orders /\ sync.todo \subseteq Orders
      /\ cancelReq \subseteq Orders
  BY DEF TypeOK, PollState, SyncState
<1>3. \A o \in task' : o \in task \/ (o \in Orders /\ wal'[o] # NoRow)
  <2>1. CASE \E o \in Orders : SubmitNext(o)
    <3>1. ASSUME NEW o \in Orders, Submit(o)
          PROVE  task' = task \cup {o} /\ wal'[o] # NoRow
      BY <3>1 DEF Submit, TypeOK, NoRow, IntentRow
    <3>2. ASSUME NEW o \in Orders,
                 SubmitExisting(o) \/ SubmitReply(o) \/ SubmitRejected(o) \/ SubmitError(o)
                   \/ SubmitCancelled(o)
          PROVE  task' \subseteq task
      BY <3>2, Zenon DEF SubmitExisting, SubmitReply, SubmitRejected, SubmitError, SubmitCancelled
    <3> QED BY <2>1, <3>1, <3>2 DEF SubmitNext
  <2>2. CASE SyncNext \/ LifeNext
    BY <2>2, Zenon DEF SyncNext, SyncQuery, SyncAnswer, SyncApply, SyncAck, SyncSucceed, SyncBreaks,
         SyncFails, Down, LifeNext, Start, Disconnect, Reconnect, ReconnectFails, FatalExit,
         Crash, procVars
  <2>3. CASE HandleReport \/ PollNext \/ CancelNext \/ ExchangeNext
    BY <2>3, Zenon DEF HandleReport, PollNext, PollBegin, PollScan, PollAnswer, PollResolve, PollEnd,
         CancelNext, CancelOrder, FlushCancel, CancelReply, CancelAnswer, CancelResolve,
         ExchangeNext, ExAccept, ExRefuse, ExLose, ExMove, ExCancel, procVars
  <2> QED BY <2>1, <2>2, <2>3 DEF Next
<1>4. poll'.todo \subseteq poll.todo \cup Unknowns
  <2>1. CASE PollNext
    <3>1. ASSUME NEW o \in Orders, PollScan(o)
          PROVE  poll'.todo \subseteq poll.todo
      <4>1. \/ poll' = [poll EXCEPT !.todo = @ \ {o}]
            \/ poll' = [poll EXCEPT !.todo = @ \ {o}, !.pc = "query", !.at = o]
        BY <3>1 DEF PollScan
      <4>2. poll \in PollState
        BY DEF TypeOK
      <4>3. poll'.todo = poll.todo \ {o}
        BY <4>1, <4>2, Zenon DEF PollState
      <4> QED BY <4>3
    <3>2. CASE PollAnswer
      <4>1. \E x : poll' = [poll EXCEPT !.pc = "answer", !.ans = x]
        BY <3>2, Zenon DEF PollAnswer
      <4> QED BY <4>1 DEF TypeOK, PollState
    <3>3. CASE PollResolve
      BY <3>3 DEF PollResolve, TypeOK, PollState
    <3>4. CASE PollBegin \/ PollEnd
      <4>1. poll' \in {PollPass, PollOff, PollRest("idle", poll.recon), [poll EXCEPT !.pc = "sync"]}
        BY <3>4 DEF PollBegin, PollEnd
      <4>2. [poll EXCEPT !.pc = "sync"].todo = poll.todo
        BY DEF TypeOK, PollState
      <4> QED BY <1>0, <4>1, <4>2, Zenon
    <3> QED BY <2>1, <3>1, <3>2, <3>3, <3>4 DEF PollNext
  <2>2. CASE SyncNext
    <3>1. poll' \in {poll, PollOff, PollRest("idle", TRUE), PollRest("idle", FALSE)}
      BY <2>2, Rests, Zenon DEF SyncNext, SyncQuery, SyncAnswer, SyncApply, SyncAck, SyncSucceed, SyncBreaks
    <3> QED BY <1>0, <3>1, Zenon
  <2>3. CASE LifeNext
    <3>1. poll' \in {poll, PollOff, PollPass}
      BY <2>3, Rests, SMTT(30) DEF LifeNext, Start, Disconnect, Reconnect, ReconnectFails, FatalExit,
           Crash, procVars
    <3> QED BY <1>0, <3>1
  <2>4. CASE HandleReport \/ CancelNext \/ ExchangeNext \/ \E o \in Orders : SubmitNext(o)
    BY <2>4, Zenon DEF HandleReport, CancelNext, CancelOrder, FlushCancel, CancelReply, CancelAnswer,
         CancelResolve, ExchangeNext, ExAccept, ExRefuse, ExLose, ExMove, ExCancel, procVars,
         SubmitNext, Submit, SubmitExisting, SubmitReply, SubmitRejected, SubmitError,
         SubmitCancelled
  <2> QED BY <2>1, <2>2, <2>3, <2>4 DEF Next
<1>5. sync'.todo \subseteq sync.todo \cup SyncTodo
  <2>1. CASE SyncNext
    <3>1. CASE SyncApply
      <4>1. sync' = SyncOff \/ sync' = [sync EXCEPT !.pc = "scan", !.at = "none", !.ans = "none"]
        BY <3>1, Rests, Zenon DEF SyncApply
      <4> QED BY <1>0, <4>1, ZenonT(40) DEF TypeOK, SyncState
    <3>2. CASE SyncSucceed \/ SyncBreaks
      BY <1>0, <3>2, Rests, Zenon DEF SyncSucceed, SyncBreaks
    <3>3. ASSUME NEW o \in Orders, SyncQuery(o)
          PROVE  sync'.todo \subseteq sync.todo
      <4>1. sync'.todo = sync.todo \ {o}
        BY <3>3 DEF SyncQuery, TypeOK, SyncState
      <4> QED BY <4>1
    <3>4. CASE SyncAnswer \/ SyncAck
      <4>1. sync'.todo = sync.todo
        BY <3>4, Zenon DEF SyncAnswer, SyncAck, TypeOK, SyncState
      <4> QED BY <4>1
    <3> QED BY <2>1, <3>1, <3>2, <3>3, <3>4 DEF SyncNext
  <2>2. CASE PollNext
    <3>1. sync' \in {sync, StartSync("startup"), StartSync("poller")}
      BY <2>2, Zenon DEF PollNext, PollBegin, PollScan, PollAnswer, PollResolve, PollEnd
    <3> QED BY <1>0, <3>1
  <2>3. CASE LifeNext
    <3>1. sync' \in {sync, SyncOff, StartSync("reconnect")}
      BY <2>3, Rests, SMTT(30) DEF LifeNext, Start, Disconnect, Reconnect, ReconnectFails, FatalExit,
           Crash, procVars
    <3> QED BY <1>0, <3>1
  <2>4. CASE HandleReport \/ CancelNext \/ ExchangeNext \/ \E o \in Orders : SubmitNext(o)
    BY <2>4, ZenonT(40) DEF HandleReport, CancelNext, CancelOrder, FlushCancel, CancelReply, CancelAnswer,
         CancelResolve, ExchangeNext, ExAccept, ExRefuse, ExLose, ExMove, ExCancel, procVars,
         SubmitNext, Submit, SubmitExisting, SubmitReply, SubmitRejected, SubmitError,
         SubmitCancelled
  <2> QED BY <2>1, <2>2, <2>3, <2>4 DEF Next
<1>6. \A o \in cancelReq' : o \in cancelReq \/ (o \in Orders /\ wal[o] # NoRow)
  <2>1. CASE CancelNext
    BY <2>1 DEF CancelNext, CancelOrder, FlushCancel, CancelReply, CancelAnswer, CancelResolve, NoRow
  <2>2. CASE SyncNext \/ LifeNext
    BY <2>2, Zenon DEF SyncNext, SyncQuery, SyncAnswer, SyncApply, SyncAck, SyncSucceed, SyncBreaks,
         SyncFails, Down, LifeNext, Start, Disconnect, Reconnect, ReconnectFails, FatalExit,
         Crash, procVars
  <2>3. CASE HandleReport \/ PollNext \/ ExchangeNext \/ \E o \in Orders : SubmitNext(o)
    BY <2>3, Zenon DEF HandleReport, PollNext, PollBegin, PollScan, PollAnswer, PollResolve, PollEnd,
         ExchangeNext, ExAccept, ExRefuse, ExLose, ExMove, ExCancel, procVars,
         SubmitNext, Submit, SubmitExisting, SubmitReply, SubmitRejected, SubmitError,
         SubmitCancelled
  <2> QED BY <2>1, <2>2, <2>3 DEF Next
<1> QED BY <1>1, <1>2, <1>3, <1>4, <1>5, <1>6

\* Requests go out only behind the first intent row.
LEMMA Requests ==
  ASSUME TypeOK, Known, Next, NEW o \in Orders
  PROVE  /\ posts'[o] <= 1
         /\ posts'[o] # 0 \/ net'[o] # "none" =>
              posts[o] # 0 \/ net[o] # "none" \/ wal'[o] # NoRow
<1>0. (posts' = posts /\ net' = net) =>
         /\ posts'[o] <= 1
         /\ posts'[o] # 0 \/ net'[o] # "none" =>
              posts[o] # 0 \/ net[o] # "none" \/ wal'[o] # NoRow
  BY Zenon DEF Known
<1>1. CASE \E p \in Orders : Submit(p)
  <2>1. PICK p \in Orders : Submit(p)
    BY <1>1, Zenon
  <2>2. /\ wal[p] = NoRow /\ wal' = [wal EXCEPT ![p] = IntentRow]
        /\ posts' = [posts EXCEPT ![p] = @ + 1] /\ net' = [net EXCEPT ![p] = "sent"]
    BY <2>1, Zenon DEF Submit
  <2>3. IntentRow # NoRow
    BY DEF NoRow, IntentRow
  <2> QED BY <2>2, <2>3 DEF Known, TypeOK
<1>2. CASE \E p \in Orders : ExAccept(p) \/ ExRefuse(p) \/ ExLose(p)
  <2>1. posts' = posts /\ \A q \in Orders : net'[q] # net[q] => net[q] # "none"
    BY <1>2 DEF ExAccept, ExRefuse, ExLose, TypeOK
  <2> QED BY <2>1, Zenon DEF Known
<1>3. CASE ExCancel \/ \E p \in Orders, s \in Moves : ExMove(p, s)
  BY <1>0, <1>3, SMTT(30) DEF ExMove, ExCancel
<1>5. CASE \E p \in Orders : \/ SubmitExisting(p) \/ SubmitReply(p) \/ SubmitRejected(p)
                            \/ SubmitError(p) \/ SubmitCancelled(p)
  BY <1>0, <1>5, Zenon DEF SubmitExisting, SubmitReply, SubmitRejected, SubmitError, SubmitCancelled, exVars
<1>6. CASE HandleReport \/ PollNext
  BY <1>0, <1>6, Zenon DEF HandleReport, PollNext, PollBegin, PollScan, PollAnswer, PollResolve, PollEnd,
                    exVars
<1>7. CASE SyncNext \/ CancelNext
  BY <1>0, <1>7, ZenonT(40) DEF SyncNext, SyncQuery, SyncAnswer, SyncApply, SyncAck, SyncSucceed, SyncBreaks,
       CancelNext, CancelOrder, FlushCancel, CancelReply, CancelAnswer, CancelResolve, exVars
<1>8. CASE LifeNext
  BY <1>0, <1>8, ZenonT(40) DEF LifeNext, Start, Disconnect, Reconnect, ReconnectFails, FatalExit, Crash, exVars
<1> QED BY <1>1, <1>2, <1>3, <1>5, <1>6, <1>7, <1>8, ZenonT(40) DEF Next, SubmitNext, ExchangeNext

\* The inductive invariant holds initially.
LEMMA ExecutionInit == Init => ExecutionInv
<1>1. Init => Known /\ Evidence /\ FactsAreTrue
  BY DEF Init, Known, Evidence, FactsAreTrue, Happened, StatusHolds, NoRow,
         PollOff, PollRest, SyncOff, CancelOff
<1>2. Init => Recovered
  BY DEF Init, Recovered, Stages, Accounted, PollOff, PollRest
<1> QED BY <1>1, <1>2, Zenon DEF ExecutionInv

\* Preservation: one step per conjunct of the invariant.
LEMMA ExecutionStep ==
  ASSUME TypeOK, TypeOK', ExecutionInv, [Next]_vars
  PROVE  ExecutionInv'
<1>1. CASE UNCHANGED vars
  <2>1. (Known /\ Evidence /\ FactsAreTrue)'
    BY <1>1, Zenon DEF vars, exVars, procVars, linkVars, ExecutionInv, Known, Evidence, FactsAreTrue,
                Happened
  <2>2. Recovered'
    BY <1>1, Zenon DEF vars, procVars, lifeVars, ExecutionInv, Recovered, Stages, Accounted
  <2> QED BY <2>1, <2>2 DEF ExecutionInv
<1>2. CASE Next
  <2>1. WalStep /\ ExStep /\ Known /\ Evidence
    BY <1>2, WalSteps, ExSteps DEF ExecutionInv
  <2>2. FactsAreTrue'
    BY <2>1, FactsStayTrue
  <2>3. \A o \in Orders : wal[o] # NoRow => wal'[o] # NoRow
    BY <2>1, WalKept, Zenon
  <2>4. Known'
    <3>1. \A o \in Orders : posts'[o] <= 1 /\ (posts'[o] # 0 \/ net'[o] # "none" => wal'[o] # NoRow)
      BY <1>2, <2>1, <2>3, Requests, ZenonT(40) DEF Known
    <3>2. \A o \in task' \cup poll'.todo \cup sync'.todo \cup cancelReq' : wal'[o] # NoRow
      BY <1>2, <2>1, <2>3, Holders, ZenonT(40) DEF Known
    <3>3. poll'.pc \in {"query", "answer"} => wal'[poll'.at] # NoRow
      BY <1>2, <2>1, <2>3, PollAnswers, ZenonT(40) DEF Known, TypeOK
    <3>4. ASSUME sync'.pc \in {"query", "answer"}
          PROVE  wal'[sync'.at] # NoRow
      <4>1. sync'.at \in Orders /\ wal[sync'.at] # NoRow
        <5>1. \/ sync' = sync
              \/ sync'.at \in Orders /\ sync'.at \in sync.todo
              \/ sync.pc = "query" /\ sync'.at = sync.at
          BY <1>2, <3>4, SyncAnswers, Zenon
        <5>2. sync'.at \in Orders
          BY <3>4 DEF TypeOK
        <5>3. CASE sync'.at \in sync.todo
          BY <2>1, <5>2, <5>3, Zenon DEF Known
        <5>4. CASE sync.pc \in {"query", "answer"} /\ sync'.at = sync.at
          BY <2>1, <5>2, <5>4, Zenon DEF Known
        <5> QED BY <3>4, <5>1, <5>2, <5>3, <5>4, Zenon
      <4> QED BY <2>3, <4>1, Zenon
    <3>5. cancel'.pc # "off" => wal'[cancel'.at] # NoRow
      BY <1>2, <2>1, <2>3, CancelAnswers DEF Known, TypeOK
    <3> QED BY <3>1, <3>2, <3>3, <3>4, <3>5, Zenon DEF Known
  <2>5. Evidence'
    <3>1. \A o \in Orders : exch'[o] # "REJECTED" /\ (exch'[o] # "ABSENT" <=> net'[o] = "accepted")
      BY <2>1, Zenon DEF Evidence, ExStep
    <3>2. ASSUME NEW i \in 1..Len(stream')
          PROVE  StatusHolds(exch'[stream'[i].o], net'[stream'[i].o], stream'[i].s)
      <4>1. ASSUME NEW j \in 1..Len(stream)
            PROVE  StatusHolds(exch'[stream[j].o], net'[stream[j].o], stream[j].s)
        <5>1. stream[j].o \in Orders
          <6>1. stream[j] \in Report
            BY DEF TypeOK
          <6> QED BY <6>1 DEF Report
        <5>2. StatusHolds(exch[stream[j].o], net[stream[j].o], stream[j].s)
          BY <2>1 DEF Evidence, Happened
        <5> QED BY <2>1, <5>1, <5>2, StillHolds, Zenon
      <4> QED BY <1>2, <2>1, <4>1, StreamSteps, Zenon
    <3>3. ASSUME poll'.pc = "answer"
          PROVE  StatusHolds(exch'[poll'.at], net'[poll'.at], poll'.ans)
      <4>1. poll'.at \in Orders
        BY <3>3 DEF TypeOK
      <4>2. StatusHolds(exch[poll'.at], net[poll'.at], poll'.ans)
        <5>1. CASE poll' = poll
          BY <2>1, <3>3, <5>1 DEF Evidence, Happened
        <5>2. CASE poll'.at = poll.at /\ poll'.ans \in {exch[poll.at], "FAILED"}
          BY <2>1, <4>1, <5>2, StateHolds, Zenon
        <5> QED BY <1>2, <3>3, <5>1, <5>2, PollAnswers, Zenon
      <4> QED BY <2>1, <4>1, <4>2, StillHolds, Zenon
    <3>4. ASSUME sync'.pc = "answer"
          PROVE  StatusHolds(exch'[sync'.at], net'[sync'.at], sync'.ans)
      <4>1. sync'.at \in Orders
        BY <3>4 DEF TypeOK
      <4>2. StatusHolds(exch[sync'.at], net[sync'.at], sync'.ans)
        <5>1. CASE sync' = sync
          BY <2>1, <3>4, <5>1 DEF Evidence, Happened
        <5>2. CASE sync'.at = sync.at /\ sync'.ans = exch[sync.at]
          BY <2>1, <4>1, <5>2, StateHolds, Zenon
        <5> QED BY <1>2, <3>4, <5>1, <5>2, SyncAnswers
      <4> QED BY <2>1, <4>1, <4>2, StillHolds
    <3>5. ASSUME cancel'.pc \in {"replied", "answered"}
          PROVE  StatusHolds(exch'[cancel'.at], net'[cancel'.at], cancel'.ans)
      <4>1. cancel'.at \in Orders
        BY <3>5, Zenon DEF TypeOK, CancelState
      <4>2. CASE cancel' = cancel
        BY <2>1, <3>5, <4>1, <4>2, StillHolds, Zenon DEF Evidence, Happened
      <4>3. CASE cancel'.at = cancel.at /\ cancel'.ans \in {exch[cancel.at], "FAILED"}
        BY <2>1, <4>1, <4>3, StateHolds, StillHolds, Zenon
      <4>4. CASE /\ cancel'.at = cancel.at /\ cancel'.ans = "CANCELLED"
                 /\ exch'[cancel.at] = "CANCELLED"
        BY <4>4 DEF StatusHolds
      <4> QED BY <1>2, <3>5, <4>2, <4>3, <4>4, CancelAnswers
    <3> QED BY <3>1, <3>2, <3>3, <3>4, <3>5, ZenonT(40) DEF Evidence, Happened
  <2>6. Recovered'
    BY <1>2, StagesStep, AccountedStep DEF ExecutionInv, Recovered
  <2> QED BY <2>2, <2>4, <2>5, <2>6 DEF ExecutionInv
<1> QED BY <1>1, <1>2

\* The inductive invariant of the execution process: whoever has to do with an
\* order finds its WAL row, and everything on its way to the WAL is true.
THEOREM ExecutionInvariant == Spec => [](TypeOK /\ ExecutionInv)
<1>1. Init => TypeOK /\ ExecutionInv
  BY TypeInit, ExecutionInit
<1>2. TypeOK /\ ExecutionInv /\ [Next]_vars => (TypeOK /\ ExecutionInv)'
  BY TypeStep, ExecutionStep
<1> QED BY <1>1, <1>2, PTL DEF Spec

\* submit() never posts an order twice, and never before its intent row.
THEOREM PostedOnce == Spec => []PostedOnceAfterIntent
<1>1. ExecutionInv => PostedOnceAfterIntent
  BY DEF ExecutionInv, Known, PostedOnceAfterIntent
<1> QED BY <1>1, ExecutionInvariant, PTL

\* The WAL never records a status the exchange did not give the order.
THEOREM WalIsTrue == Spec => []FactsAreTrue
<1>1. ExecutionInv => FactsAreTrue
  BY DEF ExecutionInv
<1> QED BY <1>1, ExecutionInvariant, PTL

\* run() serves strategies only after every intent of an earlier life was looked
\* up: a ready process has no bare intent row but those of its own submit tasks.
THEOREM NoOrphan == Spec => []NoOrphanIntent
<1>1. ExecutionInv => NoOrphanIntent
  BY Zenon DEF ExecutionInv, Recovered, Accounted, NoOrphanIntent
<1> QED BY <1>1, ExecutionInvariant, PTL

\* While the process is ready a symbol with an order of unknown outcome takes no
\* new entries, whichever of the concurrent tasks touched the order last.
THEOREM DoubtBlocks == Spec => []UnknownBlocksSymbol
<1>1. ExecutionInv => UnknownBlocksSymbol
  BY DEF ExecutionInv, Recovered, Accounted, UnknownBlocksSymbol
<1> QED BY <1>1, ExecutionInvariant, PTL

\* The WAL implements the abstract history of orders: doubts never replace
\* facts, ends are final, nothing is forgotten.
THEOREM WalRefinesOrderFacts == Spec => ImplementsOrderFacts
<1>1. Init => Facts!Init
  BY DEF Init, Facts!Init, fact, FactOf, NoRow
<1>2. ASSUME TypeOK, ExecutionInv, [Next]_vars
      PROVE  [Facts!Next]_fact
  <2>0. UNCHANGED wal => fact' = fact
    BY DEF fact
  <2>1. CASE UNCHANGED vars
    BY <2>0, <2>1, SMTT(30) DEF vars
  <2>2. CASE Next
    <3>1. WalStep
      BY <1>2, <2>2, WalSteps
    <3>2. CASE \A p \in Orders : wal'[p].status = wal[p].status /\ wal'[p].type = wal[p].type
      BY <3>2, SMTT(30) DEF fact, FactOf
    <3>3. ASSUME NEW o \in Orders, \A p \in Orders \ {o} : wal'[p] = wal[p],
                 FactMove(FactOf(wal[o]), FactOf(wal'[o]))
          PROVE  [Facts!Next]_fact
      <4>1. fact[o] = FactOf(wal[o]) /\ fact'[o] = FactOf(wal'[o])
        BY DEF fact
      <4>2. fact' = [fact EXCEPT ![o] = FactOf(wal'[o])]
        BY <3>3, Zenon DEF fact
      <4>3. CASE FactOf(wal'[o]) = FactOf(wal[o])
        BY <4>1, <4>2, <4>3, Zenon DEF fact
      <4>4. CASE fact[o] = "none" /\ FactOf(wal'[o]) = "intent"
        BY <4>2, <4>4, Zenon DEF Facts!Next, Facts!Intend
      <4>5. CASE fact[o] = "intent" /\ FactOf(wal'[o]) = "SUBMIT_UNKNOWN"
        BY <4>2, <4>5, Zenon DEF Facts!Next, Facts!Doubt
      <4>6. CASE /\ FactOf(wal'[o]) \in ExchangeStatus
                 /\ fact[o] = "intent" \/ FactOf(wal'[o]) \in ValidTransitions(fact[o])
        BY <4>2, <4>6, Zenon DEF Facts!Next, Facts!Learn, ExchangeStatus, Terminal, ValidTransitions,
             Facts!ExchangeStatus, Facts!Terminal, Facts!ValidTransitions
      <4> QED BY <3>3, <4>1, <4>3, <4>4, <4>5, <4>6, SMTT(30) DEF FactMove
    <3> QED BY <3>1, <3>2, <3>3 DEF WalStep
  <2> QED BY <1>2, <2>1, <2>2
<1> QED BY <1>1, <1>2, ExecutionInvariant, PTL DEF Spec, ImplementsOrderFacts, Facts!Spec

=============================================================================
