--------------------------- MODULE DeliveryProofs ---------------------------
(***************************************************************************)
(* Proofs about NotificationDelivery, for any sets of workers and           *)
(* deliveries and any bounds.                                               *)
(*                                                                          *)
(* The argument.  claim_deliveries counts an attempt in the row before      *)
(* anything is sent, and a claim sends at most once.  So the messages       *)
(* received and the claims that may still send, together, never exceed the  *)
(* attempts counted, whoever holds the row by then.  A claim beyond         *)
(* max_attempts may not send: it only marks the row dead.                   *)
(***************************************************************************)
EXTENDS NotificationDelivery, FiniteSetTheorems, TLAPS

Rows == [status : Statuses, attempts : Nat, owner : Workers \union {NoWorker}]
Claims == [step : Steps, attempt : Nat]

\* The invariant of one delivery.
Sound(d) ==
    /\ row[d].status = "sent" => received[d] > 0
    /\ IsFiniteSet(Senders(d))
    /\ received[d] + Cardinality(Senders(d)) <= MaxAttempts * manual[d] + Attempted(d)
    /\ row[d].status = "sending" /\ ~Orphaned(d) =>
         /\ claim[row[d].owner][d].attempt = row[d].attempts
         /\ claim[row[d].owner][d].step # "alert"
    /\ row[d].attempts <= MaxAttempts + faults
    /\ row[d].status \in {"absent", "pending", "retry"} \/ d \in lapsed \/ Orphaned(d) =>
         row[d].attempts < MaxAttempts + faults
    /\ \A w \in Workers :
         /\ claim[w][d].step = "ready" => claim[w][d].attempt <= MaxAttempts
         /\ claim[w][d].step = "retry" => claim[w][d].attempt < MaxAttempts
         /\ claim[w][d].step = "sent" => received[d] > 0

\* The types that the steps keep by themselves; the bound on attempts follows
\* from the invariant.
Typed ==
    /\ row \in [Deliveries -> Rows]
    /\ \A d \in Deliveries : row[d].status = "sending" <=> row[d].owner # NoWorker
    /\ lapsed \subseteq {d \in Deliveries : row[d].status = "sending"}
    /\ claim \in [Workers -> [Deliveries -> Claims]]
    /\ received \in [Deliveries -> Nat] /\ manual \in [Deliveries -> Nat]
    /\ faults \in 0..MaxFaults

Inductive == Typed /\ \A d \in Deliveries : Sound(d)

\* Delivery by delivery, the inductive invariant is DeliveryInv.
LEMMA SoundIsInv ==
  ASSUME Typed
  PROVE  (\A d \in Deliveries : Sound(d)) <=> DeliveryInv
BY DEF Sound, DeliveryInv, SentWasReceived, SendsAreCounted, LeasesAreClaimed, ClaimsAreTrue

\* What _process_claim's going on to its next step changes: one claim of one worker.
LEMMA Stepped ==
  ASSUME Typed, NEW w \in Workers, NEW d \in Deliveries, NEW s \in Steps, Step(w, d, s)
  PROVE  /\ claim' \in [Workers -> [Deliveries -> Claims]]
         /\ claim'[w][d] = [step |-> s, attempt |-> claim[w][d].attempt]
         /\ \A v \in Workers, e \in Deliveries : v # w \/ e # d => claim'[v][e] = claim[v][e]
<1>1. claim[w][d] \in Claims
  BY DEF Typed
<1>2. claim' = [claim EXCEPT ![w] = [claim[w] EXCEPT ![d] = [claim[w][d] EXCEPT !.step = s]]]
  BY DEF Step
<1>3. [claim[w][d] EXCEPT !.step = s] = [step |-> s, attempt |-> claim[w][d].attempt]
  BY <1>1 DEF Claims
<1>4. [step |-> s, attempt |-> claim[w][d].attempt] \in Claims
  BY <1>1 DEF Claims
<1> QED BY <1>2, <1>3, <1>4 DEF Typed

\* What the end of _process_claim changes: one claim of one worker.
LEMMA Left ==
  ASSUME Typed, NEW w \in Workers, NEW d \in Deliveries, Leave(w, d)
  PROVE  /\ claim' \in [Workers -> [Deliveries -> Claims]]
         /\ claim'[w][d] = NoClaim
         /\ \A v \in Workers, e \in Deliveries : v # w \/ e # d => claim'[v][e] = claim[v][e]
<1>1. NoClaim \in Claims
  BY DEF NoClaim, Claims, Steps
<1> QED BY <1>1 DEF Typed, Leave

\* A step about one delivery leaves the others sound.
LEMMA OtherKept ==
  ASSUME ConstantsOK, Typed, NEW e \in Deliveries, Sound(e), row'[e] = row[e],
         \A v \in Workers : claim'[v][e] = claim[v][e],
         received'[e] = received[e], manual'[e] = manual[e],
         e \in lapsed' => e \in lapsed, faults' \in Nat, faults' >= faults
  PROVE  Sound(e)'
<1>1. Senders(e)' = Senders(e) /\ Attempted(e)' = Attempted(e)
  BY DEF Senders, Attempted
<1>2. row[e].status = "sending" => row[e].owner \in Workers
  BY DEF Typed, Rows
<1>3. Orphaned(e)' = Orphaned(e)
  BY <1>2 DEF Orphaned
<1>4. row[e].attempts \in Nat /\ MaxAttempts \in Nat /\ faults \in Nat
  BY DEF Typed, Rows, ConstantsOK
<1> QED BY <1>1, <1>2, <1>3, <1>4 DEF Sound

\* So only the delivery of the step needs an argument.
LEMMA OneDelivery ==
  ASSUME ConstantsOK, Inductive, NEW d \in Deliveries, Typed', Sound(d)',
         faults' \in Nat, faults' >= faults,
         \A e \in Deliveries \ {d} :
            /\ row'[e] = row[e] /\ \A v \in Workers : claim'[v][e] = claim[v][e]
            /\ received'[e] = received[e] /\ manual'[e] = manual[e]
            /\ e \in lapsed' => e \in lapsed
  PROVE  Inductive'
<1>1. ASSUME NEW e \in Deliveries, e # d PROVE Sound(e)'
  BY <1>1, OtherKept DEF Inductive
<1> QED BY <1>1 DEF Inductive

-----------------------------------------------------------------------------
(* The steps of one delivery *)

\* publish_event: a new row has no attempts.
LEMMA PublishStep ==
  ASSUME ConstantsOK, Inductive, NEW d \in Deliveries, Publish(d)
  PROVE  Inductive'
<1>1. row[d] \in Rows /\ row[d].status = "absent" /\ Sound(d) /\ d \notin lapsed
  BY DEF Inductive, Typed, Publish
<1>2. row' = [row EXCEPT ![d] = Row("pending", row[d].attempts, row[d].owner)]
  <2>1. [row[d] EXCEPT !.status = "pending"] = Row("pending", row[d].attempts, row[d].owner)
    BY <1>1 DEF Row, Rows
  <2> QED BY <2>1, Zenon DEF Publish
<1>3. Row("pending", row[d].attempts, row[d].owner) \in Rows
  BY <1>1 DEF Row, Rows, Statuses
<1>4. /\ row' \in [Deliveries -> Rows] /\ row'[d].status = "pending"
      /\ row'[d].attempts = row[d].attempts /\ row'[d].owner = row[d].owner
      /\ \A e \in Deliveries \ {d} : row'[e] = row[e]
  BY <1>2, <1>3 DEF Inductive, Typed, Row
<1>5. UNCHANGED <<lapsed, claim, received, manual, faults>>
  BY DEF Publish
<1>6. Typed'
  BY <1>1, <1>4, <1>5, Zenon DEF Inductive, Typed
<1>7. Sound(d)'
  BY <1>1, <1>4, <1>5 DEF Sound, Senders, Attempted, Orphaned
<1>8. faults' \in Nat /\ faults' >= faults
  BY <1>5 DEF Inductive, Typed
<1> QED BY <1>4, <1>5, <1>6, <1>7, <1>8, OneDelivery

\* The end of a lease: a lease whose claim is at work costs a fault.
LEMMA LapseStep ==
  ASSUME ConstantsOK, Inductive, NEW d \in Deliveries, Lapse(d)
  PROVE  Inductive'
<1>1. /\ row[d] \in Rows /\ row[d].status = "sending" /\ Sound(d) /\ row[d].owner \in Workers
      /\ faults \in Nat /\ MaxFaults \in Nat /\ faults <= MaxFaults
  BY DEF Inductive, Typed, Lapse, Rows, ConstantsOK
<1>2. UNCHANGED <<row, claim, received, manual>> /\ lapsed' = lapsed \union {d}
  BY DEF Lapse
<1>3. /\ faults' \in 0..MaxFaults /\ faults' >= faults
      /\ ~Orphaned(d) => faults' = faults + 1
  BY <1>1 DEF Lapse, Orphaned
<1>4. Typed'
  BY <1>1, <1>2, <1>3 DEF Inductive, Typed
<1>5. Sound(d)'
  <2>1. Senders(d)' = Senders(d) /\ Attempted(d)' = Attempted(d) /\ Orphaned(d)' = Orphaned(d)
    BY <1>2 DEF Senders, Attempted, Orphaned
  <2>2. row[d].attempts < MaxAttempts + faults' /\ row[d].attempts <= MaxAttempts + faults'
    <3>1. row[d].attempts \in Nat /\ MaxAttempts \in Nat
      BY <1>1 DEF Rows, ConstantsOK
    <3>2. CASE Orphaned(d)
      <4>1. row[d].attempts < MaxAttempts + faults
        BY <1>1, <3>2 DEF Sound
      <4> QED BY <1>1, <1>3, <3>1, <4>1
    <3>3. CASE ~Orphaned(d)
      <4>1. row[d].attempts <= MaxAttempts + faults
        BY <1>1 DEF Sound
      <4> QED BY <1>1, <1>3, <3>1, <3>3, <4>1
    <3> QED BY <3>2, <3>3
  <2> QED BY <1>1, <1>2, <2>1, <2>2 DEF Sound
<1> QED BY <1>1, <1>2, <1>3, <1>4, <1>5, OneDelivery

\* retry_delivery: the attempts start again, and the manual retry pays for the old ones.
LEMMA ManualRetryStep ==
  ASSUME ConstantsOK, Inductive, NEW d \in Deliveries, ManualRetry(d)
  PROVE  Inductive'
<1>1. /\ row[d] \in Rows /\ row[d].status \in {"dead", "retry"} /\ Sound(d) /\ d \notin lapsed
      /\ faults \in Nat /\ MaxAttempts \in Nat /\ MaxAttempts > 0
  BY DEF Inductive, Typed, ManualRetry, ConstantsOK
<1>2. /\ row' = [row EXCEPT ![d] = Row("pending", 0, NoWorker)]
      /\ manual' = [manual EXCEPT ![d] = @ + 1] /\ UNCHANGED <<lapsed, claim, received, faults>>
  BY DEF ManualRetry
<1>3. Row("pending", 0, NoWorker) \in Rows
  BY DEF Row, Rows, Statuses
<1>4. /\ row' \in [Deliveries -> Rows] /\ row'[d].status = "pending"
      /\ row'[d].attempts = 0 /\ row'[d].owner = NoWorker
      /\ \A e \in Deliveries \ {d} : row'[e] = row[e]
  BY <1>2, <1>3 DEF Inductive, Typed, Row
<1>5. /\ manual' \in [Deliveries -> Nat] /\ manual'[d] = manual[d] + 1 /\ manual[d] \in Nat
      /\ \A e \in Deliveries \ {d} : manual'[e] = manual[e]
  BY <1>2 DEF Inductive, Typed
<1>6. Typed'
  BY <1>1, <1>2, <1>4, <1>5 DEF Inductive, Typed
<1>7. Sound(d)'
  <2>1. Senders(d)' = Senders(d) /\ Attempted(d)' = 0 /\ ~Orphaned(d)'
    BY <1>1, <1>2, <1>4 DEF Senders, Attempted, Orphaned
  <2>2. received[d] + Cardinality(Senders(d)) <= MaxAttempts * (manual[d] + 1)
    <3>1. Attempted(d) <= MaxAttempts /\ Attempted(d) \in Nat
      BY <1>1 DEF Attempted, Rows
    <3>2. MaxAttempts * (manual[d] + 1) = MaxAttempts * manual[d] + MaxAttempts
      BY <1>1, <1>5
    <3>3. MaxAttempts * manual[d] \in Nat /\ received[d] \in Nat /\ Cardinality(Senders(d)) \in Nat
      BY <1>1, <1>5, FS_CardinalityType DEF Inductive, Typed, Sound
    <3>4. received[d] + Cardinality(Senders(d)) <= MaxAttempts * manual[d] + Attempted(d)
      BY <1>1 DEF Sound
    <3> QED BY <1>1, <3>1, <3>2, <3>3, <3>4
  <2>3. received[d] \in Nat /\ MaxAttempts * (manual[d] + 1) + 0 = MaxAttempts * (manual[d] + 1)
    BY <1>1, <1>5 DEF Inductive, Typed
  <2> QED BY <1>1, <1>2, <1>4, <1>5, <2>1, <2>2, <2>3 DEF Sound
<1>8. faults' \in Nat /\ faults' >= faults
  BY <1>1, <1>2
<1> QED BY <1>2, <1>4, <1>5, <1>6, <1>7, <1>8, OneDelivery

\* A worker that gives up its claim, or has nothing to send any more, leaves
\* the other conditions as they are.
LEMMA ClaimChanges ==
  ASSUME Inductive, NEW w \in Workers, NEW d \in Deliveries,
         \A v \in Workers \ {w} : claim'[v][d] = claim[v][d],
         MaySend(claim'[w][d]) => MaySend(claim[w][d])
  PROVE  /\ IsFiniteSet(Senders(d)') /\ Cardinality(Senders(d)') <= Cardinality(Senders(d))
         /\ Cardinality(Senders(d)) \in Nat /\ Cardinality(Senders(d)') \in Nat
         /\ MaySend(claim[w][d]) /\ ~MaySend(claim'[w][d])
              => Cardinality(Senders(d)') = Cardinality(Senders(d)) - 1
<1>1. IsFiniteSet(Senders(d))
  BY DEF Inductive, Sound
<1>2. Senders(d)' = {v \in Workers : MaySend(claim'[v][d])}
  BY DEF Senders, MaySend
<1>3. CASE MaySend(claim'[w][d]) <=> MaySend(claim[w][d])
  <2>1. Senders(d)' = Senders(d)
    BY <1>2, <1>3 DEF Senders
  <2> QED BY <1>1, <1>3, <2>1, FS_CardinalityType
<1>4. CASE MaySend(claim[w][d]) /\ ~MaySend(claim'[w][d])
  <2>1. Senders(d)' = Senders(d) \ {w} /\ w \in Senders(d)
    BY <1>2, <1>4 DEF Senders
  <2>2. /\ IsFiniteSet(Senders(d) \ {w})
        /\ Cardinality(Senders(d) \ {w}) = Cardinality(Senders(d)) - 1
    BY <1>1, <2>1, FS_RemoveElement
  <2>3. Cardinality(Senders(d)) \in Nat /\ Cardinality(Senders(d) \ {w}) \in Nat
    BY <1>1, <2>2, FS_CardinalityType
  <2> QED BY <2>1, <2>2, <2>3
<1> QED BY <1>3, <1>4

\* What a step may do to a delivery whose row it leaves alone: nothing that the
\* row of the invariant counts, ...
RowStays(d) ==
    /\ row'[d] = row[d] /\ manual'[d] = manual[d] /\ (d \in lapsed' => d \in lapsed)
    /\ faults' \in 0..MaxFaults /\ faults' >= faults

\* ... at most one message more, from the worker that was counted for it, ...
SendsPaid(w, d) ==
    /\ \A v \in Workers \ {w} : claim'[v][d] = claim[v][d]
    /\ MaySend(claim'[w][d]) => MaySend(claim[w][d])
    /\ \/ received'[d] = received[d]
       \/ received'[d] = received[d] + 1 /\ MaySend(claim[w][d]) /\ ~MaySend(claim'[w][d])

\* ... and a claim of that worker that is still true of the row.
ClaimHonest(w, d) ==
    /\ claim'[w][d].step = "ready" => claim'[w][d].attempt <= MaxAttempts
    /\ claim'[w][d].step = "retry" => claim'[w][d].attempt < MaxAttempts
    /\ claim'[w][d].step = "sent" => received'[d] > 0
    /\ row[d].status = "sending" /\ row[d].owner = w =>
         \/ /\ claim[w][d] # NoClaim /\ claim'[w][d] # NoClaim
            /\ claim'[w][d].attempt = claim[w][d].attempt /\ claim'[w][d].step # "alert"
         \/ claim'[w][d] = NoClaim /\ faults' > faults
         \/ claim'[w][d] = claim[w][d]

\* A change of one worker's claim that leaves the row alone.
LEMMA SoundKept ==
  ASSUME ConstantsOK, Inductive, NEW w \in Workers, NEW d \in Deliveries,
         RowStays(d), SendsPaid(w, d), ClaimHonest(w, d)
  PROVE  Sound(d)'
<1>1. Typed /\ Sound(d)
  BY Zenon DEF Inductive
<1>2. row[d] \in Rows /\ received[d] \in Nat /\ manual[d] \in Nat /\ faults \in Nat
  BY <1>1 DEF Typed
<1>3. MaxAttempts \in Nat /\ MaxFaults \in Nat
  BY Zenon DEF ConstantsOK
<1>4. /\ row'[d] = row[d] /\ manual'[d] = manual[d] /\ (d \in lapsed' => d \in lapsed)
      /\ faults' \in 0..MaxFaults /\ faults' >= faults
  BY Zenon DEF RowStays
<1>5. row[d].attempts \in Nat /\ (row[d].status = "sending" => row[d].owner \in Workers)
  BY <1>1, <1>2 DEF Typed, Rows
<1>6. /\ IsFiniteSet(Senders(d)') /\ Cardinality(Senders(d)') <= Cardinality(Senders(d))
      /\ Cardinality(Senders(d)) \in Nat /\ Cardinality(Senders(d)') \in Nat
      /\ MaySend(claim[w][d]) /\ ~MaySend(claim'[w][d])
           => Cardinality(Senders(d)') = Cardinality(Senders(d)) - 1
  BY ClaimChanges, Zenon DEF SendsPaid
<1>7. /\ received'[d] >= received[d] /\ received'[d] \in Nat
      /\ received'[d] + Cardinality(Senders(d)') <= received[d] + Cardinality(Senders(d))
  BY <1>2, <1>6 DEF SendsPaid
<1>8. received'[d] + Cardinality(Senders(d)') <= MaxAttempts * manual'[d] + Attempted(d)'
  <2>1. Attempted(d)' = Attempted(d) /\ Attempted(d) \in Nat
    BY <1>3, <1>4, <1>5 DEF Attempted
  <2>2. received[d] + Cardinality(Senders(d)) <= MaxAttempts * manual[d] + Attempted(d)
    BY <1>1, Zenon DEF Sound
  <2>3. MaxAttempts * manual'[d] = MaxAttempts * manual[d] /\ MaxAttempts * manual[d] \in Nat
    BY <1>2, <1>3, <1>4
  <2> QED BY <1>2, <1>6, <1>7, <2>1, <2>2, <2>3
<1>9. row'[d].status = "sending" /\ ~Orphaned(d)' =>
        /\ claim'[row'[d].owner][d].attempt = row'[d].attempts
        /\ claim'[row'[d].owner][d].step # "alert"
  <2>1. SUFFICES ASSUME row[d].status = "sending", claim'[row[d].owner][d] # NoClaim
        PROVE  /\ claim'[row[d].owner][d].attempt = row[d].attempts
               /\ claim'[row[d].owner][d].step # "alert"
    BY <1>4, Zenon DEF Orphaned
  <2>2. CASE claim'[row[d].owner][d] = claim[row[d].owner][d]
    BY <1>1, <2>1, <2>2, Zenon DEF Sound, Orphaned
  <2>3. CASE /\ row[d].owner = w /\ claim[w][d] # NoClaim
             /\ claim'[w][d].attempt = claim[w][d].attempt /\ claim'[w][d].step # "alert"
    BY <1>1, <2>1, <2>3, Zenon DEF Sound, Orphaned
  <2> QED BY <1>5, <2>1, <2>2, <2>3, Zenon DEF SendsPaid, ClaimHonest
<1>10. Orphaned(d)' => Orphaned(d) \/ faults' > faults
  BY <1>4, <1>5, Zenon DEF Orphaned, SendsPaid, ClaimHonest
<1>11. /\ row'[d].attempts <= MaxAttempts + faults'
       /\ row'[d].status \in {"absent", "pending", "retry"} \/ d \in lapsed' \/ Orphaned(d)' =>
            row'[d].attempts < MaxAttempts + faults'
  <2>1. /\ row[d].attempts <= MaxAttempts + faults
        /\ row[d].status \in {"absent", "pending", "retry"} \/ d \in lapsed \/ Orphaned(d) =>
             row[d].attempts < MaxAttempts + faults
    BY <1>1, Zenon DEF Sound
  <2> QED BY <1>2, <1>3, <1>4, <1>5, <1>10, <2>1
<1>12. ASSUME NEW v \in Workers
       PROVE  /\ claim'[v][d].step = "ready" => claim'[v][d].attempt <= MaxAttempts
              /\ claim'[v][d].step = "retry" => claim'[v][d].attempt < MaxAttempts
              /\ claim'[v][d].step = "sent" => received'[d] > 0
  <2>1. CASE v = w
    BY <2>1, Zenon DEF ClaimHonest
  <2>2. CASE v # w
    <3>1. claim'[v][d] = claim[v][d]
      BY <2>2, Zenon DEF SendsPaid
    <3>2. /\ claim[v][d].step = "ready" => claim[v][d].attempt <= MaxAttempts
          /\ claim[v][d].step = "retry" => claim[v][d].attempt < MaxAttempts
          /\ claim[v][d].step = "sent" => received[d] > 0
      BY <1>1, Zenon DEF Sound
    <3> QED BY <1>2, <1>7, <3>1, <3>2
  <2> QED BY <2>1, <2>2
<1>13. row'[d].status = "sent" => received'[d] > 0
  <2>1. row[d].status = "sent" => received[d] > 0
    BY <1>1, Zenon DEF Sound
  <2> QED BY <1>2, <1>4, <1>7, <2>1
<1> QED BY <1>6, <1>8, <1>9, <1>11, <1>12, <1>13, Zenon DEF Sound

\* The steps of _process_claim that leave the row alone.
LEMMA ClaimStep ==
  ASSUME ConstantsOK, Inductive, NEW w \in Workers, NEW d \in Deliveries,
         UNCHANGED <<row, lapsed, manual>>, faults' \in 0..MaxFaults, faults' >= faults,
         claim' \in [Workers -> [Deliveries -> Claims]],
         \A v \in Workers, e \in Deliveries : v # w \/ e # d => claim'[v][e] = claim[v][e],
         received' \in [Deliveries -> Nat],
         \A e \in Deliveries \ {d} : received'[e] = received[e],
         SendsPaid(w, d), ClaimHonest(w, d)
  PROVE  Inductive'
<1>1. Typed'
  BY DEF Inductive, Typed
<1>2. Sound(d)'
  <2>1. RowStays(d)
    BY Zenon DEF RowStays
  <2> QED BY <2>1, SoundKept, Zenon
<1>3. faults' \in Nat
  BY DEF ConstantsOK
<1> QED BY <1>1, <1>2, <1>3, OneDelivery

\* _process_claim: an attempt beyond max_attempts, or of an expired event, is not sent.
LEMMA BeginStep ==
  ASSUME ConstantsOK, Inductive, NEW w \in Workers, NEW d \in Deliveries, Begin(w, d)
  PROVE  Inductive'
<1>1. /\ Typed /\ claim[w][d].step = "begin" /\ claim[w][d] \in Claims
      /\ UNCHANGED <<row, lapsed, received, manual, faults>>
  BY DEF Inductive, Begin, Typed
<1>2. PICK s \in {"dead", "ready"} :
         Step(w, d, s) /\ (s = "ready" => claim[w][d].attempt <= MaxAttempts)
  <2>1. MaxAttempts \in Nat /\ claim[w][d].attempt \in Nat
    BY <1>1 DEF ConstantsOK, Claims
  <2> QED BY <2>1 DEF Begin
<1>3. /\ claim' \in [Workers -> [Deliveries -> Claims]]
      /\ claim'[w][d] = [step |-> s, attempt |-> claim[w][d].attempt]
      /\ \A v \in Workers, e \in Deliveries : v # w \/ e # d => claim'[v][e] = claim[v][e]
  <2>1. s \in Steps
    BY <1>2 DEF Steps
  <2> QED BY <1>1, <1>2, <2>1, Stepped
<1>4. /\ claim'[w][d].step = s /\ claim'[w][d].attempt = claim[w][d].attempt
      /\ claim'[w][d] # NoClaim /\ claim[w][d] # NoClaim
  BY <1>1, <1>2, <1>3 DEF NoClaim
<1>5. MaySend(claim'[w][d]) => MaySend(claim[w][d])
  BY <1>1, <1>2, <1>4 DEF MaySend
<1>6. faults' \in 0..MaxFaults /\ faults' >= faults /\ received' \in [Deliveries -> Nat]
  BY <1>1 DEF Typed
<1>7. SendsPaid(w, d)
  BY <1>1, <1>3, <1>5, Zenon DEF SendsPaid
<1>8. ClaimHonest(w, d)
  BY <1>2, <1>4 DEF ClaimHonest
<1> QED BY <1>1, <1>3, <1>6, <1>7, <1>8, ClaimStep, Zenon

\* A message that counts as sent has been received.
LEMMA VerdictIsTrue ==
  ASSUME NEW d, NEW a \in Answers
  PROVE  Verdict(d, a) \in {"sent", "dead", "retry"} /\ (Verdict(d, a) = "sent" => Received(a))
<1>1. TelegramVerdict(a) \in {"sent", "dead", "retry"} /\ (TelegramVerdict(a) = "sent" => Received(a))
  BY DEF TelegramVerdict, Answers, Received
<1>2. WebhookVerdict(a) \in {"sent", "dead", "retry"} /\ (WebhookVerdict(a) = "sent" => Received(a))
  BY DEF WebhookVerdict, Answers, Received
<1> QED BY <1>1, <1>2, Zenon DEF Verdict

\* The send: the message received is one that the sender was counted for.
LEMMA SendStep ==
  ASSUME ConstantsOK, Inductive, NEW w \in Workers, NEW d \in Deliveries, Send(w, d)
  PROVE  Inductive'
<1>1. /\ Typed /\ claim[w][d].step = "ready" /\ claim[w][d] \in Claims
      /\ UNCHANGED <<row, lapsed, manual, faults>> /\ received[d] \in Nat
      /\ claim[w][d].attempt <= MaxAttempts /\ MaxAttempts \in Nat
  BY DEF Inductive, Send, Typed, Sound, ConstantsOK
<1>2. PICK a \in Answers :
         /\ received' = [received EXCEPT ![d] = @ + IF Received(a) THEN 1 ELSE 0]
         /\ \E s \in IF Verdict(d, a) = "retry" THEN AfterFailure(w, d) ELSE {Verdict(d, a)} :
               Step(w, d, s)
  BY Zenon DEF Send
<1>3. PICK s \in IF Verdict(d, a) = "retry" THEN AfterFailure(w, d) ELSE {Verdict(d, a)} :
               Step(w, d, s)
  BY <1>2
<1>4. /\ s \in {"sent", "dead", "retry"} /\ (s = "sent" => Received(a))
      /\ s = "retry" => claim[w][d].attempt < MaxAttempts
  <2>1. CASE Verdict(d, a) = "retry"
    <3>1. claim[w][d].attempt \in Nat
      BY <1>1 DEF Claims
    <3> QED BY <1>1, <1>3, <2>1, <3>1 DEF AfterFailure
  <2>2. CASE Verdict(d, a) # "retry"
    BY <1>3, <2>2, VerdictIsTrue
  <2> QED BY <2>1, <2>2
<1>5. /\ received' \in [Deliveries -> Nat]
      /\ \A e \in Deliveries \ {d} : received'[e] = received[e]
      /\ received'[d] = received[d] \/ received'[d] = received[d] + 1
      /\ Received(a) => received'[d] > 0
  <2>1. PICK n \in {0, 1} : n = (IF Received(a) THEN 1 ELSE 0)
    OBVIOUS
  <2>2. received' = [received EXCEPT ![d] = received[d] + n] /\ received[d] + n \in Nat
    BY <1>1, <1>2, <2>1
  <2>3. received'[d] = received[d] + n /\ received' \in [Deliveries -> Nat]
    BY <1>1, <2>2 DEF Typed
  <2> QED BY <1>1, <2>1, <2>2, <2>3 DEF Typed
<1>6. /\ claim' \in [Workers -> [Deliveries -> Claims]]
      /\ claim'[w][d] = [step |-> s, attempt |-> claim[w][d].attempt]
      /\ \A v \in Workers, e \in Deliveries : v # w \/ e # d => claim'[v][e] = claim[v][e]
  <2>1. s \in Steps
    BY <1>4 DEF Steps
  <2> QED BY <1>1, <1>3, <2>1, Stepped
<1>7. /\ claim'[w][d].step = s /\ claim'[w][d].attempt = claim[w][d].attempt
      /\ claim'[w][d] # NoClaim /\ claim[w][d] # NoClaim
  BY <1>1, <1>4, <1>6 DEF NoClaim
<1>8. MaySend(claim[w][d]) /\ ~MaySend(claim'[w][d])
  BY <1>1, <1>4, <1>7 DEF MaySend
<1>9. faults' \in 0..MaxFaults /\ faults' >= faults
  BY <1>1 DEF Typed
<1>10. SendsPaid(w, d)
  BY <1>5, <1>6, <1>8, Zenon DEF SendsPaid
<1>11. ClaimHonest(w, d)
  BY <1>4, <1>5, <1>7 DEF ClaimHonest
<1> QED BY <1>1, <1>5, <1>6, <1>9, <1>10, <1>11, ClaimStep, Zenon

\* A failed update loses the claim and costs a fault.
LEMMA MarkFailsStep ==
  ASSUME ConstantsOK, Inductive, NEW w \in Workers, NEW d \in Deliveries, MarkFails(w, d)
  PROVE  Inductive'
<1>1. /\ Typed /\ UNCHANGED <<row, lapsed, received, manual>> /\ faults' = faults + 1
      /\ faults \in Nat /\ faults < MaxFaults /\ MaxFaults \in Nat /\ Leave(w, d)
  BY DEF Inductive, MarkFails, Typed, ConstantsOK
<1>2. /\ claim' \in [Workers -> [Deliveries -> Claims]] /\ claim'[w][d] = NoClaim
      /\ \A v \in Workers, e \in Deliveries : v # w \/ e # d => claim'[v][e] = claim[v][e]
  BY <1>1, Left
<1>3. ~MaySend(claim'[w][d]) /\ claim'[w][d].step = "none"
  BY <1>2 DEF NoClaim, MaySend
<1>4. faults' \in 0..MaxFaults /\ faults' > faults /\ faults' >= faults
  BY <1>1
<1>5. received' \in [Deliveries -> Nat]
  BY <1>1, Zenon DEF Typed
<1>6. SendsPaid(w, d) /\ ClaimHonest(w, d)
  BY <1>1, <1>2, <1>3, <1>4, Zenon DEF SendsPaid, ClaimHonest
<1> QED BY <1>1, <1>2, <1>4, <1>5, <1>6, ClaimStep, Zenon

\* A worker that leaves a claim it does not hold was not the owner.
LEMMA LeaveStep ==
  ASSUME ConstantsOK, Inductive, NEW w \in Workers, NEW d \in Deliveries, Leave(w, d),
         UNCHANGED <<row, lapsed, received, manual, faults>>,
         ~(row[d].status = "sending" /\ row[d].owner = w)
  PROVE  Inductive'
<1>1. Typed
  BY DEF Inductive
<1>2. /\ claim' \in [Workers -> [Deliveries -> Claims]] /\ claim'[w][d] = NoClaim
      /\ \A v \in Workers, e \in Deliveries : v # w \/ e # d => claim'[v][e] = claim[v][e]
  BY <1>1, Left
<1>3. ~MaySend(claim'[w][d]) /\ claim'[w][d].step = "none"
  BY <1>2 DEF NoClaim, MaySend
<1>4. faults' \in 0..MaxFaults /\ faults' >= faults /\ received' \in [Deliveries -> Nat]
  BY <1>1 DEF Typed
<1>5. SendsPaid(w, d) /\ ClaimHonest(w, d)
  BY <1>2, <1>3, Zenon DEF SendsPaid, ClaimHonest
<1> QED BY <1>1, <1>2, <1>4, <1>5, ClaimStep, Zenon

\* _publish_dead_letter_event.
LEMMA AlertStep ==
  ASSUME ConstantsOK, Inductive, NEW w \in Workers, NEW d \in Deliveries, Alert(w, d)
  PROVE  Inductive'
<1>1. claim[w][d].step = "alert" /\ Leave(w, d) /\ UNCHANGED <<row, lapsed, received, manual, faults>>
  BY DEF Alert
<1>2. ~(row[d].status = "sending" /\ row[d].owner = w)
  BY <1>1 DEF Inductive, Sound, Orphaned, NoClaim
<1> QED BY <1>1, <1>2, LeaveStep

\* _finish_delivery: the row takes the status that the claim found out, if the claim still holds it.
LEMMA MarkStep ==
  ASSUME ConstantsOK, Inductive, NEW w \in Workers, NEW d \in Deliveries, Mark(w, d)
  PROVE  Inductive'
<1>1. /\ Typed /\ Sound(d) /\ row[d] \in Rows /\ claim[w][d].step \in {"sent", "retry", "dead"}
      /\ UNCHANGED <<received, manual, faults>> /\ faults \in Nat /\ MaxAttempts \in Nat
  <2>1. Typed /\ Sound(d) /\ MaxAttempts \in Nat
    BY Zenon DEF Inductive, ConstantsOK
  <2>2. row[d] \in Rows /\ faults \in Nat
    BY <2>1 DEF Typed
  <2> QED BY <2>1, <2>2, Zenon DEF Mark
<1>2. CASE ~Holds(w, d)
  <2>1. ~(row[d].status = "sending" /\ row[d].owner = w)
    BY <1>1, <1>2 DEF Holds, Sound, Orphaned, NoClaim
  <2> QED BY <1>1, <1>2, <2>1, LeaveStep DEF Mark
<1>3. CASE Holds(w, d)
  <2> DEFINE s == claim[w][d].step
  <2>1. /\ row' = [row EXCEPT ![d] = Row(s, row[d].attempts, NoWorker)] /\ lapsed' = lapsed \ {d}
        /\ Step(w, d, "alert") \/ Leave(w, d)
    BY <1>3 DEF Mark
  <2>2. Row(s, row[d].attempts, NoWorker) \in Rows
    BY <1>1 DEF Row, Rows, Statuses
  <2>3. /\ row' \in [Deliveries -> Rows] /\ row'[d].status = s
        /\ row'[d].attempts = row[d].attempts /\ row'[d].owner = NoWorker
        /\ \A e \in Deliveries \ {d} : row'[e] = row[e]
    BY <1>1, <2>1, <2>2 DEF Typed, Row
  <2>4. /\ claim' \in [Workers -> [Deliveries -> Claims]]
        /\ claim'[w][d].step \in {"alert", "none"}
        /\ \A v \in Workers, e \in Deliveries : v # w \/ e # d => claim'[v][e] = claim[v][e]
    <3>1. CASE Step(w, d, "alert")
      <4>1. "alert" \in Steps
        BY DEF Steps
      <4>2. /\ claim' \in [Workers -> [Deliveries -> Claims]]
            /\ claim'[w][d] = [step |-> "alert", attempt |-> claim[w][d].attempt]
            /\ \A v \in Workers, e \in Deliveries : v # w \/ e # d => claim'[v][e] = claim[v][e]
        BY <1>1, <3>1, <4>1, Stepped
      <4>3. claim'[w][d].step = "alert"
        BY <4>2
      <4> QED BY <4>2, <4>3
    <3>2. CASE Leave(w, d)
      BY <1>1, <3>2, Left DEF NoClaim
    <3> QED BY <2>1, <3>1, <3>2
  <2>5. Typed'
    BY <1>1, <2>1, <2>3, <2>4 DEF Typed
  <2>6. Sound(d)'
    <3>1. ~MaySend(claim'[w][d]) /\ ~MaySend(claim[w][d])
      BY <1>1, <2>4 DEF MaySend
    <3>2. Senders(d)' = Senders(d)
      BY <2>4, <3>1 DEF Senders, MaySend
    <3>3. Attempted(d)' = Attempted(d)
      BY <2>3 DEF Attempted
    <3>4. ~Orphaned(d)' /\ row'[d].status # "sending" /\ d \notin lapsed'
      BY <1>1, <2>1, <2>3, Zenon DEF Orphaned
    <3>5. /\ s = "sent" => received[d] > 0
          /\ s = "retry" => row[d].attempts < MaxAttempts
      BY <1>1, <1>3, Zenon DEF Holds, Sound
    <3>6. row[d].attempts \in Nat /\ row[d].attempts <= MaxAttempts + faults
      <4>1. row[d].attempts <= MaxAttempts + faults
        BY <1>1, Zenon DEF Sound
      <4> QED BY <1>1, <4>1 DEF Rows
    <3>7. s = "retry" => row[d].attempts < MaxAttempts + faults
      BY <1>1, <3>5, <3>6
    <3>8. \A v \in Workers :
            /\ claim'[v][d].step = "ready" => claim'[v][d].attempt <= MaxAttempts
            /\ claim'[v][d].step = "retry" => claim'[v][d].attempt < MaxAttempts
            /\ claim'[v][d].step = "sent" => received[d] > 0
      BY <1>1, <2>4 DEF Sound
    <3>9. s \notin {"absent", "pending"}
      BY <1>1
    <3> HIDE DEF s
    <3> QED BY <1>1, <2>3, <3>2, <3>3, <3>4, <3>5, <3>6, <3>7, <3>8, <3>9, Zenon DEF Sound
  <2> QED BY <1>1, <2>1, <2>3, <2>4, <2>5, <2>6, OneDelivery
<1> QED BY <1>2, <1>3

-----------------------------------------------------------------------------
(* The steps of all deliveries of a worker *)

\* The death of a worker loses all of its claims at once.
LEMMA DieStep ==
  ASSUME ConstantsOK, Inductive, NEW w \in Workers, Die(w)
  PROVE  Inductive'
<1>1. /\ Typed /\ UNCHANGED <<row, lapsed, received, manual>> /\ faults' = faults + 1
      /\ faults \in Nat /\ MaxFaults \in Nat /\ faults < MaxFaults
      /\ claim' = [claim EXCEPT ![w] = [d \in Deliveries |-> NoClaim]]
  BY DEF Inductive, Die, Typed, ConstantsOK
<1>2. NoClaim \in Claims
  BY DEF NoClaim, Claims, Steps
<1>3. /\ claim' \in [Workers -> [Deliveries -> Claims]]
      /\ \A d \in Deliveries : claim'[w][d] = NoClaim
      /\ \A d \in Deliveries, v \in Workers \ {w} : claim'[v][d] = claim[v][d]
  BY <1>1, <1>2 DEF Typed
<1>4. faults' \in 0..MaxFaults /\ faults' > faults /\ faults' >= faults
  BY <1>1
<1>5. Typed'
  BY <1>1, <1>3, <1>4 DEF Typed
<1>6. ASSUME NEW d \in Deliveries PROVE Sound(d)'
  <2>1. ~MaySend(claim'[w][d]) /\ claim'[w][d].step = "none"
    BY <1>3 DEF NoClaim, MaySend
  <2>2. RowStays(d) /\ SendsPaid(w, d) /\ ClaimHonest(w, d)
    BY <1>1, <1>3, <1>4, <2>1, Zenon DEF RowStays, SendsPaid, ClaimHonest
  <2> QED BY <2>2, SoundKept, Zenon
<1> QED BY <1>5, <1>6 DEF Inductive

\* The first statements of claim_deliveries: a row is left alone, or it is
\* released with the attempts it had.
LEMMA SweptRow ==
  ASSUME Typed, NEW d \in Deliveries
  PROVE  /\ Swept(d) \in Rows /\ Swept(d).attempts = row[d].attempts
         /\ \/ Swept(d) = row[d]
            \/ /\ Swept(d).status = "retry" /\ Swept(d).owner = NoWorker
               /\ row[d].status = "sending" /\ d \in lapsed
            \/ Swept(d).status = "dead" /\ Swept(d).owner = NoWorker
         /\ row[d].status \in {"sent", "dead"} => Swept(d) = row[d]
<1>1. row[d] \in Rows /\ (row[d].status = "sending" <=> row[d].owner # NoWorker)
  BY DEF Typed
<1> DEFINE r == IF row[d].status = "sending" /\ d \in lapsed
                THEN Row("retry", row[d].attempts, NoWorker) ELSE row[d]
<1>2. /\ r \in Rows /\ r.attempts = row[d].attempts
      /\ r = row[d] \/ (/\ r.status = "retry" /\ r.owner = NoWorker
                       /\ row[d].status = "sending" /\ d \in lapsed)
  BY <1>1 DEF Row, Rows, Statuses
<1>3. Swept(d) = IF r.status \in {"pending", "retry"} /\ d \in expired
                 THEN Row("dead", r.attempts, r.owner) ELSE r
  BY DEF Swept
<1> HIDE DEF r
<1>4. CASE r.status \in {"pending", "retry"} /\ d \in expired
  <2>1. r.owner = NoWorker
    BY <1>1, <1>2, <1>4
  <2> QED BY <1>2, <1>3, <1>4, <2>1 DEF Row, Rows, Statuses
<1>5. CASE ~(r.status \in {"pending", "retry"} /\ d \in expired)
  BY <1>2, <1>3, <1>5
<1> QED BY <1>4, <1>5

\* claim_deliveries for a row it does not lease.
LEMMA NotLeased ==
  ASSUME ConstantsOK, Inductive, NEW d \in Deliveries,
         row'[d] = Swept(d), d \in lapsed' => d \in lapsed /\ row'[d] = row[d],
         \A v \in Workers : claim'[v][d] = claim[v][d],
         UNCHANGED <<received, manual, faults>>
  PROVE  Sound(d)'
<1>1. Typed /\ Sound(d) /\ row[d] \in Rows /\ MaxAttempts \in Nat /\ faults \in Nat
  BY DEF Inductive, Typed, ConstantsOK
<1>2. CASE row'[d] = row[d]
  <2>1. faults' \in Nat /\ faults' >= faults
    BY <1>1
  <2> QED BY <1>1, <1>2, <2>1, OtherKept, Zenon
<1>3. CASE row'[d] # row[d]
  <2>1. /\ row'[d].attempts = row[d].attempts /\ d \notin lapsed'
        /\ \/ row'[d].status = "retry" /\ d \in lapsed
           \/ row'[d].status = "dead"
    BY <1>1, <1>3, SweptRow
  <2>2. Senders(d)' = Senders(d)
    BY DEF Senders
  <2>3. Attempted(d)' = Attempted(d)
    BY <2>1 DEF Attempted
  <2>4. ~Orphaned(d)' /\ row'[d].status \notin {"sending", "sent", "absent", "pending"}
    BY <2>1 DEF Orphaned
  <2>5. row'[d].status = "retry" => row[d].attempts < MaxAttempts + faults
    BY <1>1, <2>1, Zenon DEF Sound
  <2> QED BY <1>1, <2>1, <2>2, <2>3, <2>4, <2>5 DEF Sound
<1> QED BY <1>2, <1>3

\* claim_deliveries for a row it leases: the attempt it counts pays for the
\* message that the worker may send.
LEMMA Leased ==
  ASSUME ConstantsOK, Inductive, NEW w \in Workers, NEW d \in Deliveries, NEW n \in Nat,
         claim[w][d].step = "none", Swept(d).status \in {"pending", "retry"}, row[d].attempts = n,
         row'[d].status = "sending", row'[d].attempts = n + 1, row'[d].owner = w, d \notin lapsed',
         claim'[w][d].step = "begin", claim'[w][d].attempt = n + 1,
         \A v \in Workers \ {w} : claim'[v][d] = claim[v][d],
         UNCHANGED <<received, manual, faults>>
  PROVE  Sound(d)'
<1>1. Typed /\ Sound(d)
  BY DEF Inductive
<1>2. n < MaxAttempts + faults
  <2>1. row[d].status \in {"pending", "retry"} \/ d \in lapsed
    BY <1>1, SweptRow
  <2> QED BY <1>1, <2>1, Zenon DEF Sound
<1>3. MaxAttempts \in Nat /\ faults \in Nat /\ received[d] \in Nat /\ manual[d] \in Nat
  BY <1>1 DEF Typed, ConstantsOK
<1>4. ~Orphaned(d)'
  BY DEF Orphaned, NoClaim
<1>5. w \notin Senders(d) /\ IsFiniteSet(Senders(d)) /\ Cardinality(Senders(d)) \in Nat
  <2>1. w \notin Senders(d)
    BY Zenon DEF Senders, MaySend
  <2>2. IsFiniteSet(Senders(d))
    BY <1>1 DEF Sound
  <2> QED BY <2>1, <2>2, FS_CardinalityType
<1>6. /\ IsFiniteSet(Senders(d)') /\ Cardinality(Senders(d)') \in Nat
      /\ received[d] + Cardinality(Senders(d)') <= MaxAttempts * manual[d] + Attempted(d)'
  <2>1. /\ received[d] + Cardinality(Senders(d)) <= MaxAttempts * manual[d] + Attempted(d)
        /\ MaxAttempts * manual[d] \in Nat /\ Attempted(d) \in Nat
    <3>1. MaxAttempts * manual[d] \in Nat /\ Attempted(d) \in Nat
      BY <1>3 DEF Attempted
    <3> QED BY <1>1, <3>1, Zenon DEF Sound
  <2>2. CASE n < MaxAttempts
    <3>1. MaySend(claim'[w][d])
      BY <1>3, <2>2 DEF MaySend
    <3>2. Senders(d)' = Senders(d) \union {w}
      BY <3>1 DEF Senders
    <3>3. IsFiniteSet(Senders(d)') /\ Cardinality(Senders(d)') = Cardinality(Senders(d)) + 1
      BY <1>5, <3>2, FS_AddElement
    <3>4. Attempted(d)' = Attempted(d) + 1
      BY <1>3, <2>2 DEF Attempted
    <3> QED BY <1>3, <1>5, <2>1, <3>3, <3>4
  <2>3. CASE ~(n < MaxAttempts)
    <3>1. ~MaySend(claim'[w][d])
      BY <1>3, <2>3 DEF MaySend
    <3>2. Senders(d)' = Senders(d)
      BY <1>5, <3>1 DEF Senders
    <3>3. Attempted(d)' = Attempted(d)
      BY <1>3, <2>3 DEF Attempted
    <3> QED BY <1>5, <2>1, <3>2, <3>3
  <2> QED BY <2>2, <2>3
<1>7. n + 1 <= MaxAttempts + faults
  BY <1>3, <1>2
<1>8. \A v \in Workers :
        /\ claim'[v][d].step = "ready" => claim'[v][d].attempt <= MaxAttempts
        /\ claim'[v][d].step = "retry" => claim'[v][d].attempt < MaxAttempts
        /\ claim'[v][d].step = "sent" => received[d] > 0
  BY <1>1 DEF Sound
<1> QED BY <1>4, <1>6, <1>7, <1>8, Zenon DEF Sound

\* claim_deliveries as a whole.
LEMMA ClaimBatchStep ==
  ASSUME ConstantsOK, Inductive, NEW w \in Workers, Claim(w)
  PROVE  Inductive'
<1>1. /\ Typed /\ UNCHANGED <<received, manual, faults>> /\ \A d \in Deliveries : claim[w][d] = NoClaim
      /\ \A d \in Deliveries : Swept(d) \in Rows /\ Swept(d).attempts = row[d].attempts
      /\ NoWorker \notin Workers
  BY SweptRow DEF Inductive, Claim, Idle, ConstantsOK
<1> DEFINE swept == [d \in Deliveries |-> Swept(d)]
           due == {d \in Deliveries : swept[d].status \in {"pending", "retry"}}
<1>2. PICK got \in SUBSET due :
        /\ row' = [d \in Deliveries |->
              IF d \in got THEN Row("sending", swept[d].attempts + 1, w) ELSE swept[d]]
        /\ lapsed' = lapsed \ {d \in lapsed : row'[d] # row[d]}
        /\ claim' = [claim EXCEPT ![w] =
              [d \in Deliveries |->
                 IF d \in got THEN [step |-> "begin", attempt |-> row'[d].attempts] ELSE NoClaim]]
  BY Zenon DEF Claim
<1>2a. /\ \A d \in Deliveries : swept[d] = Swept(d)
      /\ \A d \in got : d \in Deliveries /\ Swept(d).status \in {"pending", "retry"}
  BY Zenon
<1> HIDE DEF swept, due
<1>3. \A d \in Deliveries :
        /\ d \in got => row'[d] = Row("sending", row[d].attempts + 1, w)
        /\ d \notin got => row'[d] = Swept(d)
  BY <1>1, <1>2, <1>2a
<1>4. ASSUME NEW d \in Deliveries
      PROVE  /\ row'[d] \in Rows /\ (row'[d].status = "sending" <=> row'[d].owner # NoWorker)
             /\ d \in got => row'[d].attempts = row[d].attempts + 1 /\ row'[d] # row[d]
  <2>1. row[d] \in Rows /\ row[d].attempts \in Nat
    BY <1>1 DEF Typed, Rows
  <2>2. CASE d \in got
    <3>1. Row("sending", row[d].attempts + 1, w) \in Rows
      BY <2>1 DEF Row, Rows, Statuses
    <3>2. row'[d].attempts = row[d].attempts + 1 /\ row'[d].status = "sending" /\ row'[d].owner = w
      <4>1. row'[d] = Row("sending", row[d].attempts + 1, w)
        BY <1>3, <2>2
      <4> QED BY <4>1 DEF Row
    <3>3. row'[d] # row[d]
      BY <2>1, <3>2
    <3> QED BY <1>1, <1>3, <2>2, <3>1, <3>2, <3>3
  <2>3. CASE d \notin got
    BY <1>1, <1>3, <2>3, SweptRow DEF Typed
  <2> QED BY <2>2, <2>3
<1>5. /\ \A d \in Deliveries : d \in lapsed' => d \in lapsed /\ row'[d] = row[d]
      /\ lapsed' \subseteq lapsed /\ got \intersect lapsed' = {}
  BY <1>2, <1>2a, <1>4, Zenon
<1>6. \A d \in Deliveries :
        /\ d \in got => claim'[w][d] = [step |-> "begin", attempt |-> row[d].attempts + 1]
        /\ d \notin got => claim'[w][d] = NoClaim
        /\ \A v \in Workers \ {w} : claim'[v][d] = claim[v][d]
  BY <1>1, <1>2, <1>4 DEF Typed
<1>7. Typed'
  <2>1. row' \in [Deliveries -> Rows]
    BY <1>2, <1>4
  <2>2. lapsed' \subseteq {d \in Deliveries : row'[d].status = "sending"}
    BY <1>1, <1>5 DEF Typed
  <2>3. claim' \in [Workers -> [Deliveries -> Claims]]
    <3>1. \A d \in Deliveries :
            (IF d \in got THEN [step |-> "begin", attempt |-> row'[d].attempts] ELSE NoClaim) \in Claims
      BY <1>4 DEF Rows, Claims, Steps, NoClaim
    <3> QED BY <1>1, <1>2, <3>1 DEF Typed
  <2> QED BY <1>1, <1>4, <2>1, <2>2, <2>3 DEF Typed
<1>8. ASSUME NEW d \in Deliveries PROVE Sound(d)'
  <2>1. CASE d \in got
    <3>1. PICK n \in Nat : row[d].attempts = n
      BY <1>1 DEF Typed, Rows
    <3>2. /\ row'[d].status = "sending" /\ row'[d].attempts = n + 1 /\ row'[d].owner = w
          /\ d \notin lapsed' /\ Swept(d).status \in {"pending", "retry"}
      <4>1. row'[d] = Row("sending", n + 1, w)
        BY <1>3, <2>1, <3>1
      <4> QED BY <1>2a, <1>5, <2>1, <4>1 DEF Row
    <3>3. claim[w][d].step = "none" /\ claim'[w][d].step = "begin" /\ claim'[w][d].attempt = n + 1
      <4>1. claim'[w][d] = [step |-> "begin", attempt |-> n + 1]
        BY <1>6, <2>1, <3>1
      <4>2. claim[w][d] = NoClaim
        BY <1>1
      <4> QED BY <4>1, <4>2 DEF NoClaim
    <3>4. \A v \in Workers \ {w} : claim'[v][d] = claim[v][d]
      BY <1>6, Zenon
    <3> QED BY <1>1, <3>1, <3>2, <3>3, <3>4, Leased
  <2>2. CASE d \notin got
    <3>1. \A v \in Workers : claim'[v][d] = claim[v][d]
      BY <1>1, <1>6, <2>2, Zenon
    <3> QED BY <1>1, <1>3, <1>5, <2>2, <3>1, NotLeased
  <2> QED BY <2>1, <2>2, Zenon
<1> QED BY <1>7, <1>8 DEF Inductive

-----------------------------------------------------------------------------
(* The theorems *)

\* An empty table is sound.
LEMMA DeliveryInit ==
  ASSUME ConstantsOK, Init
  PROVE  Inductive
<1>1. /\ MaxAttempts \in Nat /\ MaxAttempts > 0 /\ MaxFaults \in Nat /\ faults = 0
      /\ row = [d \in Deliveries |-> Row("absent", 0, NoWorker)] /\ lapsed = {}
      /\ claim = [w \in Workers |-> [d \in Deliveries |-> NoClaim]]
      /\ received = [d \in Deliveries |-> 0] /\ manual = [d \in Deliveries |-> 0]
  BY DEF ConstantsOK, Init
<1>2. NoClaim \in Claims /\ Row("absent", 0, NoWorker) \in Rows
  BY DEF NoClaim, Claims, Steps, Row, Rows, Statuses
<1>3. \A d \in Deliveries :
        /\ row[d].status = "absent" /\ row[d].attempts = 0 /\ row[d].owner = NoWorker
        /\ \A w \in Workers : claim[w][d].step = "none"
        /\ received[d] = 0 /\ manual[d] = 0
  BY <1>1 DEF NoClaim, Row
<1>4. Typed
  BY <1>1, <1>2, <1>3 DEF Typed
<1>5. ASSUME NEW d \in Deliveries PROVE Sound(d)
  <2>1. Senders(d) = {} /\ Attempted(d) = 0
    BY <1>1, <1>3 DEF Senders, MaySend, Attempted
  <2>2. IsFiniteSet(Senders(d)) /\ Cardinality(Senders(d)) = 0
    BY <2>1, FS_EmptySet, Zenon
  <2> QED BY <1>1, <1>3, <2>1, <2>2 DEF Sound, Orphaned
<1> QED BY <1>4, <1>5 DEF Inductive

\* Steps that change neither rows nor claims: expires_at passes.
LEMMA FrameStep ==
  ASSUME Inductive, UNCHANGED <<row, lapsed, claim, received, manual, faults>>
  PROVE  Inductive'
BY ZenonT(30) DEF Inductive, Typed, Sound, Senders, Attempted, Orphaned

\* Every step keeps the invariant.
LEMMA DeliveryStep ==
  ASSUME ConstantsOK, Inductive, [Next]_vars
  PROVE  Inductive'
<1>1. CASE UNCHANGED vars
  BY <1>1, FrameStep DEF vars
<1>2. ASSUME NEW d \in Deliveries, Publish(d) \/ Expire(d) \/ Lapse(d) \/ ManualRetry(d)
      PROVE  Inductive'
  <2>1. CASE Expire(d)
    BY <2>1, FrameStep DEF Expire
  <2> QED BY <1>2, <2>1, PublishStep, LapseStep, ManualRetryStep
<1>3. ASSUME NEW w \in Workers, NEW d \in Deliveries,
             Begin(w, d) \/ Send(w, d) \/ Mark(w, d) \/ Alert(w, d) \/ MarkFails(w, d)
      PROVE  Inductive'
  BY <1>3, BeginStep, SendStep, MarkStep, AlertStep, MarkFailsStep
<1>4. ASSUME NEW w \in Workers, Claim(w) \/ Die(w)
      PROVE  Inductive'
  BY <1>4, ClaimBatchStep, DieStep
<1> QED BY <1>1, <1>2, <1>3, <1>4 DEF Next, Work

\* What a step does to a delivery that has ended.
LEMMA EndedStep ==
  ASSUME ConstantsOK, Inductive, [Next]_vars, NEW d \in Deliveries,
         row[d].status \in {"sent", "dead"}
  PROVE  \/ row'[d].status = row[d].status
         \/ row[d].status = "dead" /\ manual'[d] > manual[d]
<1>1. Typed /\ manual[d] \in Nat
  BY DEF Inductive, Typed
<1>2. CASE UNCHANGED row
  BY <1>2
<1>3. ASSUME NEW e \in Deliveries, Publish(e) PROVE row'[d] = row[d]
  BY <1>1, <1>3 DEF Publish, Typed
<1>4. ASSUME NEW e \in Deliveries, ManualRetry(e)
      PROVE  row'[d] = row[d] \/ (row[d].status = "dead" /\ manual'[d] > manual[d])
  <2>1. CASE e = d
    BY <1>1, <1>4, <2>1 DEF ManualRetry, Typed
  <2>2. CASE e # d
    BY <1>1, <1>4, <2>2 DEF ManualRetry, Typed
  <2> QED BY <2>1, <2>2
<1>5. ASSUME NEW w \in Workers, NEW e \in Deliveries, Mark(w, e) PROVE row'[d] = row[d]
  BY <1>1, <1>5 DEF Mark, Holds, Typed
<1>6. ASSUME NEW w \in Workers, Claim(w) PROVE row'[d] = row[d]
  <2>1. Swept(d) = row[d]
    BY <1>1, SweptRow
  <2> DEFINE swept == [e \in Deliveries |-> Swept(e)]
  <2>2. PICK got \in SUBSET {e \in Deliveries : swept[e].status \in {"pending", "retry"}} :
          row' = [e \in Deliveries |->
             IF e \in got THEN Row("sending", swept[e].attempts + 1, w) ELSE swept[e]]
    BY <1>6 DEF Claim
  <2>3. swept[d] = row[d]
    BY <2>1
  <2> HIDE DEF swept
  <2> QED BY <2>2, <2>3
<1>7. \/ UNCHANGED row
      \/ \E e \in Deliveries : Publish(e) \/ ManualRetry(e)
      \/ \E w \in Workers : Claim(w) \/ \E e \in Deliveries : Mark(w, e)
  BY Zenon DEF Next, Work, vars, Expire, Lapse, Begin, Send, Alert, MarkFails, Die
<1> QED BY <1>2, <1>3, <1>4, <1>5, <1>6, <1>7

\* However leases lapse, workers die and updates get lost: the sends of a
\* delivery are counted by the attempts of its row before they happen, a lease
\* is backed by a claim until that claim is lost, and the attempts of a row
\* exceed max_attempts by no more than the faults.
THEOREM DeliveryInvariant ==
  ASSUME ConstantsOK
  PROVE  Spec => [](TypeOK /\ DeliveryInv)
<1>1. Init => Inductive
  BY DeliveryInit
<1>2. Inductive /\ [Next]_vars => Inductive'
  BY DeliveryStep
<1>3. Inductive => TypeOK /\ DeliveryInv
  <2> SUFFICES ASSUME Inductive PROVE TypeOK /\ DeliveryInv
    OBVIOUS
  <2>1. DeliveryInv
    BY SoundIsInv DEF Inductive
  <2>2. ASSUME NEW d \in Deliveries
        PROVE  row[d] \in [status : Statuses, attempts : 0..(MaxAttempts + MaxFaults),
                           owner : Workers \union {NoWorker}]
    <3>1. /\ row[d] \in Rows /\ row[d].attempts \in Nat /\ row[d].attempts <= MaxAttempts + faults
          /\ MaxAttempts \in Nat /\ MaxFaults \in Nat /\ faults \in 0..MaxFaults
      <4>1. Typed /\ Sound(d)
        BY Zenon DEF Inductive
      <4>2. row[d] \in Rows /\ faults \in 0..MaxFaults
        BY <4>1, Zenon DEF Typed
      <4>3. row[d].attempts <= MaxAttempts + faults
        BY <4>1, Zenon DEF Sound
      <4> QED BY <4>2, <4>3 DEF Rows, ConstantsOK
    <3>2. row[d].attempts \in 0..(MaxAttempts + MaxFaults)
      BY <3>1
    <3> QED BY <3>1, <3>2 DEF Rows
  <2> QED BY <2>1, <2>2 DEF Inductive, Typed, TypeOK, Claims
<1> QED BY <1>1, <1>2, <1>3, PTL DEF Spec

\* A delivery shown as sent has reached its channel (_mark_sent after a 2xx), and
\* a channel gets at most max_attempts messages for it, and as many again for
\* every manual retry.
THEOREM DeliveriesAreHonest ==
  ASSUME ConstantsOK
  PROVE  Spec => [](SentWasReceived /\ SendsAreBounded)
<1>1. Init => Inductive
  BY DeliveryInit
<1>2. Inductive /\ [Next]_vars => Inductive'
  BY DeliveryStep
<1>3. Inductive => SentWasReceived /\ SendsAreBounded
  <2> SUFFICES ASSUME Inductive, NEW d \in Deliveries
               PROVE  /\ row[d].status = "sent" => received[d] > 0
                      /\ received[d] <= MaxAttempts * (1 + manual[d])
    BY DEF SentWasReceived, SendsAreBounded
  <2>1. /\ Sound(d) /\ MaxAttempts \in Nat /\ received[d] \in Nat /\ manual[d] \in Nat
        /\ row[d].attempts \in Nat
    BY DEF Inductive, Typed, ConstantsOK, Rows
  <2>2. Attempted(d) <= MaxAttempts /\ Attempted(d) \in Nat
    BY <2>1 DEF Attempted
  <2>3. /\ Cardinality(Senders(d)) \in Nat
        /\ received[d] + Cardinality(Senders(d)) <= MaxAttempts * manual[d] + Attempted(d)
    BY <2>1, FS_CardinalityType DEF Sound
  <2>4. PICK p \in Nat : p = MaxAttempts * manual[d]
    BY <2>1
  <2>5. MaxAttempts * (1 + manual[d]) = MaxAttempts + p
    BY <2>1, <2>4
  <2>6. received[d] <= MaxAttempts + p
    BY <2>1, <2>2, <2>3, <2>4
  <2> QED BY <2>1, <2>5, <2>6 DEF Sound
<1> QED BY <1>1, <1>2, <1>3, PTL DEF Spec

\* A delivery that was sent stays sent: neither a late worker (_finish_delivery)
\* nor the API (retry_delivery) changes it.
THEOREM SentStaysSent ==
  ASSUME ConstantsOK
  PROVE  Spec => SentIsFinal
<1>1. Init => Inductive
  BY DeliveryInit
<1>2. Inductive /\ [Next]_vars => Inductive'
  BY DeliveryStep
<1>3. Inductive /\ [Next]_vars =>
        [\A d \in Deliveries : row[d].status = "sent" => row'[d].status = "sent"]_vars
  BY EndedStep
<1> QED BY <1>1, <1>2, <1>3, PTL DEF Spec, SentIsFinal

\* A dead delivery comes back only by a manual retry (retry_delivery).
THEOREM DeadStaysDead ==
  ASSUME ConstantsOK
  PROVE  Spec => DeadNeedsOperator
<1>1. Init => Inductive
  BY DeliveryInit
<1>2. Inductive /\ [Next]_vars => Inductive'
  BY DeliveryStep
<1>3. Inductive /\ [Next]_vars =>
        [\A d \in Deliveries :
           row[d].status = "dead" /\ row'[d].status # "dead" => manual'[d] > manual[d]]_vars
  BY EndedStep
<1> QED BY <1>1, <1>2, <1>3, PTL DEF Spec, DeadNeedsOperator

====
