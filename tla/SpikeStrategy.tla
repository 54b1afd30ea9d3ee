--------------------------- MODULE SpikeStrategy ---------------------------
(***************************************************************************)
(* The single-symbol spike strategy and the adapter around it: detection,  *)
(* the signal with its entry tiers, the two exit policies, the rotation    *)
(* into a new signal and the recovery of a Campaign, against the account   *)
(* and the executor of a backtest or of a live process.                    *)
(* Times are seconds, a tier is two lots, every entry fills at one price.  *)
(***************************************************************************)
EXTENDS Integers, Sequences, FiniteSets, FiniteSetsExt, Functions

CONSTANTS
  Policy,             \* "candidate-v1" or "execution-test-d007"
  Live,               \* a live account: cancels are confirmed later, the process may crash
  Queued,             \* intents wait in the execution queue; exits go first
  Tiers,              \* entry levels of a signal with a weight
  Bars,               \* [close, invalid: high reaches the invalid price, fails]
  Features,           \* candidate snapshots: [known, decay, breakout, down]
  Closes,             \* closes of the completed 1m klines
  Config,             \* exit thresholds, see ConfigOK
  BarBuffer, Cooldown, OrderTtl, TimeoutAfter,
  MaxTime, MaxSignals, MaxCrashes, MaxPauses

None == "none"
NoTime == -1
Stages == {"continuity", "rise", "volume", "low12h", "riseLow", "box_data", "box",
           "premature", "vwap", "origin", "spike_high", "prior", "atr", "scored",
           "origin_floor", "below_current", "prior_high", "consecutive", "metrics",
           "maturity", "caps"}

ConfigFields == {"entry", "origin", "fee", "hardStop", "confirm", "unlock", "drawdown",
                 "peak", "early", "riskStart", "medium", "strict", "strongStrict",
                 "weakStrict", "strongBucket", "weakBucket", "flat",
                 "grace", "graceLoss", "review", "minAge", "agreement",
                 "oi", "oiLoss"}

ConstantsOK ==
  /\ Policy \in {"candidate-v1", "execution-test-d007"}
  /\ Live \in BOOLEAN /\ Queued \in BOOLEAN /\ (Queued => Live)
  /\ \A b \in Bars : b.close \in Nat /\ b.invalid \in BOOLEAN /\ b.fails \subseteq Stages
  /\ DOMAIN Config = ConfigFields
  /\ BarBuffer \in Nat \ {0} /\ OrderTtl \in Nat \ {0} /\ TimeoutAfter > OrderTtl

Candidate == Policy = "candidate-v1"

VARIABLES
  time,       \* second of the latest bar
  cached,     \* number of bars in bars_1s, at most BarBuffer
  run,        \* how many of them end in an unbroken run of seconds
  last,       \* last_signal_time
  signal,     \* the active signal: [at, placed], or NoSignal
  camp,       \* what reset_campaign_timing resets
  owner,      \* active_symbol of the adapter is this symbol
  enabled,    \* execution_enabled
  orders,     \* the account's orders by client id
  cancels,    \* cancellations not yet confirmed
  pos,        \* lots short
  queue,      \* intents not yet submitted
  arbiter,    \* the Campaign whose entries may be queued, active_campaign_id
  lease,      \* the Campaign and its exit state in Redis
  made,       \* signals so far
  kept,       \* history: signals taken while the timing of an earlier Campaign stood
  up, crashes, pauses

vars == <<time, cached, run, last, signal, camp, owner, enabled, orders, cancels, pos,
          queue, arbiter, lease, made, kept, up, crashes, pauses>>

NoExitState == [checked |-> FALSE, reduced |-> FALSE, requested |-> FALSE]

NoFeatures == [known |-> FALSE, decay |-> NoTime, breakout |-> FALSE, down |-> FALSE]

\* reset_campaign_timing
NoCampaign ==
  [fill |-> NoTime, id |-> NoTime, origin |-> FALSE, st |-> NoExitState, early |-> FALSE,
   bucket |-> None, peak |-> NoTime, peak1m |-> NoTime, unlocked |-> FALSE,
   drawdown |-> FALSE, armed |-> NoTime, features |-> NoFeatures, close1m |-> NoTime,
   rotation |-> NoTime, rotating |-> FALSE, waiting |-> FALSE, timedOut |-> FALSE,
   exiting |-> FALSE, oiDone |-> FALSE]

NoSignal == [at |-> NoTime, placed |-> FALSE]
NoLease == [id |-> NoTime, st |-> NoExitState]
Open == {"NEW", "SUBMIT_UNKNOWN"}
Entries(c) == {o \in DOMAIN orders : orders[o].kind = "entry" /\ orders[o].camp = c}
TypeOK ==
  /\ time \in 0..MaxTime /\ cached \in 0..BarBuffer /\ run \in 0..BarBuffer
  /\ pos \in 0..(2 * Tiers * MaxSignals) /\ cancels \subseteq DOMAIN orders
  /\ signal \in [at : {NoTime} \cup 0..MaxTime, placed : BOOLEAN]
  /\ \A o \in DOMAIN orders : orders[o].status \in Open \cup {"FILLED", "CANCELED"}
  /\ DOMAIN camp = DOMAIN NoCampaign /\ lease.id \in {NoTime} \cup 0..MaxTime

Init ==
  /\ time = 0 /\ cached = 0 /\ run = 0 /\ last = NoTime /\ signal = NoSignal
  /\ camp = NoCampaign /\ owner = FALSE /\ enabled = TRUE
  /\ orders = <<>> /\ cancels = {} /\ pos = 0
  /\ queue = <<>> /\ arbiter = NoTime /\ lease = NoLease
  /\ made = 0 /\ kept = {} /\ up = TRUE /\ crashes = 0 /\ pauses = 0

-----------------------------------------------------------------------------
(* Exit policy *)

\* candidate_v1_risks: the age from which one sign of decay is enough, by the
\* bucket the entry was put in, else by whether momentum still decays.
StrictAge(f, bucket) ==
  LET or(x) == IF x = NoTime THEN Config.strict ELSE x
      alive == f.decay >= 1
  IN  CASE bucket = "strong" -> or(Config.strongBucket)
        [] bucket = "weak"   -> or(Config.weakBucket)
        [] OTHER             -> IF alive THEN or(Config.strongStrict) ELSE or(Config.weakStrict)

Required(elapsed, f, c) ==
  IF c.unlocked THEN 1
  ELSE IF elapsed < Config.riskStart THEN NoTime
  ELSE IF Config.flat # NoTime THEN Config.flat
  ELSE IF elapsed < Config.medium THEN 3
  ELSE IF elapsed < StrictAge(f, c.bucket) THEN 2 ELSE 1

MomentumRisk(elapsed, f, c) ==
  /\ f.decay # NoTime
  /\ Required(elapsed, f, c) # NoTime /\ f.decay >= Required(elapsed, f, c)

TimeRisk(elapsed, f, c, net) ==
  LET strict == StrictAge(f, c.bucket)
      late   == elapsed >= strict
      grace  == Config.grace > 0 /\ late /\ elapsed < strict + Config.grace
  IN  \/ late /\ net <= 0 /\ (grace => -net >= Config.graceLoss)
      \/ elapsed >= Config.review /\ ~f.down

\* SpikeExitPolicyState.evaluate: [action, st].
Evaluate(s, minAge, obs) ==
  LET exit == [action |-> "all", st |-> [s EXCEPT !.requested = TRUE]]
      hold == [action |-> "hold", st |-> s]
      half == [action |-> "half", st |-> [s EXCEPT !.checked = TRUE, !.reduced = TRUE]]
  IN  IF s.requested THEN hold
      ELSE IF obs.hardStop \/ obs.breakout THEN exit
      ELSE IF ~s.checked /\ obs.price <= Config.origin /\ obs.decay # NoTime
           THEN IF obs.decay >= Config.agreement THEN half
                ELSE [hold EXCEPT !.st.checked = TRUE]
      ELSE IF obs.elapsed >= minAge /\ (obs.timeRisk \/ obs.momentumRisk) THEN exit
      ELSE IF obs.drawdown THEN exit
      ELSE hold

-----------------------------------------------------------------------------
(* Campaign bookkeeping *)

HasLiveCampaign(sg, ord) ==
  sg # NoSignal \/ pos > 0 \/ \E o \in DOMAIN ord : ord[o].status \in Open

NetPnl(p) == (Config.entry - p) * pos - Config.fee

\* The hard stop arms on a loss, is confirmed by a loss later, and disarms
\* only when the loss is gone.
HardStop(p, t) ==
  LET loss   == p - Config.entry
      hit    == Config.hardStop # NoTime /\ loss >= Config.hardStop
      armed  == IF hit /\ (camp.armed = NoTime \/ Config.confirm = 0) THEN t
                ELSE IF ~hit /\ Config.confirm > 0 /\ loss <= 0 THEN NoTime
                ELSE camp.armed
      stop   == /\ hit
                /\ Config.confirm = 0
                   \/ (camp.armed # NoTime /\ t - camp.armed >= Config.confirm)
  IN  [armed |-> armed, stop |-> stop]

Lowest(a, b) == IF a = NoTime \/ b < a THEN b ELSE a

\* The part of _manage_candidate_exit that follows the position: best price,
\* profit unlock, drawdown from the best 1m close, early risk.
Follow(p, t) ==
  LET peak     == Lowest(camp.peak, p)
      peak1m   == IF camp.close1m = NoTime THEN camp.peak1m
                  ELSE Lowest(camp.peak1m, camp.close1m)
      unlocked == \/ camp.unlocked
                  \/ Config.unlock # NoTime /\ Config.entry - peak >= Config.unlock
      armedDd  == \/ camp.drawdown
                  \/ /\ Config.drawdown # NoTime /\ Config.peak # NoTime
                     /\ camp.close1m # NoTime /\ Config.entry - peak1m >= Config.peak
  IN  [camp EXCEPT !.armed = HardStop(p, t).armed, !.peak = peak, !.peak1m = peak1m,
                   !.unlocked = unlocked, !.drawdown = armedDd,
                   !.early = @ \/ (Config.early # NoTime /\ Config.entry - p > Config.early)]

ProfitDrawdown(c, p) ==
  /\ Config.drawdown # NoTime /\ c.close1m # NoTime
  /\ IF Config.peak # NoTime
     THEN c.drawdown /\ c.close1m - c.peak1m >= Config.drawdown
     ELSE (Config.unlock = NoTime \/ c.unlocked) /\ p - c.peak >= Config.drawdown

Observe(c, p, t) ==
  LET f       == c.features
      elapsed == t - c.fill
      risky   == IF c.early THEN Max({elapsed, Config.riskStart}) ELSE elapsed
  IN  [price |-> p, elapsed |-> elapsed, decay |-> f.decay, breakout |-> f.breakout,
       hardStop |-> HardStop(p, t).stop, drawdown |-> ProfitDrawdown(c, p),
       timeRisk |-> TimeRisk(risky, f, c, NetPnl(p)),
       momentumRisk |-> MomentumRisk(risky, f, c)]

\* `old`: the intent is a job the execution queue restored.
Intent(kind, id, c, q) == [kind |-> kind, id |-> id, camp |-> c, q |-> q, old |-> FALSE]

Cancellable(ids) == {o \in ids : orders[o].status = "NEW"}

\* What an exit has to wait for: _cancel_signal_orders over the active signal
\* and _block_exit_for_campaign_entries over the account.
EntriesToCancel(c) == {o \in Entries(c) : orders[o].status \in Open}

ManagesExit == camp.fill # NoTime /\ pos > 0 /\ (Candidate => camp.origin)

\* _manage_candidate_exit with the entries to wait for: [camp, cancel, intents].
CandidateExit(p, t, toWait) ==
  LET c       == Follow(p, t)
      stopped == HardStop(p, t)
      obs     == Observe(c, p, t)
      verdict == Evaluate(c.st, IF c.early THEN 0 ELSE Config.minAge, obs)
      half    == verdict.action = "half"
  IN  IF ~ManagesExit
      THEN [camp |-> camp, cancel |-> {}, intents |-> <<>>]
      ELSE IF (~camp.features.known /\ ~stopped.stop) \/ t < camp.fill
      THEN [camp |-> [camp EXCEPT !.armed = stopped.armed], cancel |-> {}, intents |-> <<>>]
      ELSE IF verdict.action = "hold"
      THEN [camp |-> [c EXCEPT !.st = verdict.st, !.waiting = FALSE],
            cancel |-> {}, intents |-> <<>>]
      ELSE IF toWait # {} \/ cancels # {}
      THEN [camp |-> [c EXCEPT !.waiting = TRUE], cancel |-> Cancellable(toWait),
            intents |-> <<>>]
      ELSE [camp |-> [c EXCEPT !.st = verdict.st, !.waiting = FALSE,
                               !.exiting = @ \/ ~half],
            cancel |-> {},
            intents |-> <<Intent(IF half THEN "half" ELSE "candidate", <<"x", t, verdict.action>>,
                                 c.id, IF half THEN pos \div 2 ELSE pos)>>]

\* v2.1 asks for the open interest first, once in a Campaign: at the first point
\* after the signal, Config.oi seconds later, which has risen, a loss exits.  While
\* entries have to be cancelled the question stays open and the policy is asked.
OiExit(p, t) ==
  LET due   == /\ Config.oi # NoTime /\ camp.fill # NoTime /\ pos > 0 /\ ~camp.oiDone
               /\ t >= camp.id + Config.oi
      loss  == p - Config.entry >= Config.oiLoss
      open  == EntriesToCancel(camp.id)
      rest  == CandidateExit(p, t, IF due /\ loss /\ ~Live THEN {} ELSE open)
  IN  IF due /\ loss /\ open = {} /\ cancels = {}
      THEN [camp |-> [camp EXCEPT !.oiDone = TRUE, !.exiting = TRUE, !.st.requested = TRUE],
            cancel |-> {}, intents |-> <<Intent("candidate", <<"x", t, "all">>, camp.id, pos)>>]
      ELSE [rest EXCEPT !.camp.oiDone = @ \/ (due /\ ~loss),
                        !.cancel = @ \cup IF due /\ loss THEN Cancellable(open) ELSE {}]

\* _manage_non_positive_timeout (D-007).
TimeoutExit(p, t) ==
  LET due == /\ ManagesExit /\ ~camp.timedOut /\ ~camp.exiting
             /\ t >= camp.fill + TimeoutAfter
      out == due /\ NetPnl(p) <= 0
  IN  [camp    |-> [camp EXCEPT !.timedOut = @ \/ due, !.exiting = @ \/ out],
       cancel  |-> {},
       intents |-> IF out THEN <<Intent("timeout", <<"x", camp.fill, "timeout">>, camp.id, pos)>>
                   ELSE <<>>]

-----------------------------------------------------------------------------
(* Detection *)

\* _detect_signal up to the 12 hour low: an unbroken buffer, the cooldown, and
\* the rise.  _accel_exempt never lifts the last: it counts one minute more than
\* the number of rises it then asks for.
BaseTrigger(bar, t, n, prior) ==
  /\ n >= BarBuffer
  /\ prior = NoTime \/ t - prior >= Cooldown
  /\ {"continuity", "rise", "volume", "low12h", "riseLow"} \cap bar.fails = {}

\* A box broken long enough spares the signal the premature filter.
EntryFilters(bar) ==
  /\ "box_data" \notin bar.fails
  /\ "box" \in bar.fails => "premature" \notin bar.fails
  /\ "vwap" \notin bar.fails

PriceSanity(bar) ==
  {"origin", "spike_high", "prior", "atr", "scored", "origin_floor", "below_current",
   "prior_high"} \cap bar.fails = {}

\* _entry_filter_decision of v2.1: minutes that rose in a row, open interest
\* and long/short ratio, and the maturity of the top.
ConsecutiveUp(bar) == "consecutive" \in bar.fails
MetricsRejection(bar) == "metrics" \in bar.fails
TopMaturity(bar) == "maturity" \in bar.fails

VersionFilters(bar) ==
  ~ConsecutiveUp(bar) /\ ~MetricsRejection(bar) /\ ~TopMaturity(bar) /\ "caps" \notin bar.fails

DetectSignal(bar, t, n, prior) ==
  /\ BaseTrigger(bar, t, n, prior) /\ EntryFilters(bar) /\ PriceSanity(bar) /\ VersionFilters(bar)
  /\ made < MaxSignals

\* _prepare_rotation (D-009).
MayRotate(c, p, t) ==
  /\ c.rotation = NoTime /\ ~c.rotating /\ ~c.waiting /\ ~c.st.requested
  /\ c.fill # NoTime /\ t >= c.fill + TimeoutAfter
  /\ pos > 0 /\ NetPnl(p) > 0

-----------------------------------------------------------------------------
(* Bars *)

Expire(sg) == sg.at + 1 + OrderTtl

\* Orders after a cancellation: a backtest cancels at once.
AfterCancel(ids) ==
  [o \in DOMAIN orders |-> IF ~Live /\ o \in ids
                           THEN [orders[o] EXCEPT !.status = "CANCELED"] ELSE orders[o]]

\* Orders the executor submits for intents.
Submitted(ord, intents) ==
  LET new == Range(intents)
      of(id) == CHOOSE i \in new : i.id = id
  IN  [o \in DOMAIN ord \cup {i.id : i \in new} |->
         IF o \in DOMAIN ord THEN ord[o]
         ELSE [kind |-> of(o).kind, camp |-> of(o).camp, q |-> of(o).q,
               old |-> of(o).old, status |-> "NEW", at |-> NoTime]]

ExitsOf(q) == SelectSeq(q, LAMBDA i : i.kind # "entry")
EntriesOf(q) == SelectSeq(q, LAMBDA i : i.kind = "entry")

\* _arbitrate_entry_campaigns: a live process takes the entries of one Campaign
\* at a time.
Arbitrated(intents) == IF Live /\ arbiter # NoTime THEN ExitsOf(intents) ELSE intents
Holder(intents) ==
  IF Live /\ EntriesOf(intents) # <<>> THEN Head(EntriesOf(intents)).camp ELSE arbiter

\* Exits wait before entries.
Enqueue(q, intents) == ExitsOf(q) \o ExitsOf(intents) \o EntriesOf(q) \o EntriesOf(intents)

TierIntents(sg) ==
  [n \in 1..Tiers |-> Intent("entry", <<"e", sg.at, n>>, sg.at, 2)]

\* _manage_signals: [signal, cancel, intents].
ManageSignals(sg, bar, t) ==
  LET quiet == [signal |-> sg, cancel |-> {}, intents |-> <<>>]
  IN  IF sg = NoSignal THEN quiet
      ELSE IF t >= Expire(sg) \/ bar.invalid
      THEN [quiet EXCEPT !.signal = NoSignal, !.cancel = Cancellable(Entries(sg.at))]
      ELSE IF t < sg.at + 1 \/ sg.placed THEN quiet
      ELSE [quiet EXCEPT !.signal.placed = TRUE, !.intents = TierIntents(sg)]

\* _pending_rotation: the signal that waits for the old Campaign to be over
\* becomes the active one: [signal, camp, last].
Activate(c) ==
  IF c.rotation # NoTime /\ ~HasLiveCampaign(signal, orders)
  THEN [signal |-> [at |-> c.rotation, placed |-> FALSE], camp |-> NoCampaign,
        last |-> c.rotation]
  ELSE [signal |-> signal, camp |-> c, last |-> last]

\* A new signal becomes active when no Campaign lives, else it may replace the
\* living one: [signal, camp, last, cancel, intents].
TakeSignal(bar, t, n, s) ==
  LET new  == DetectSignal(bar, t, n, s.last)
      live == HasLiveCampaign(s.signal, orders)
      of(sg, c, l, ids, intents) ==
        [signal |-> sg, camp |-> c, last |-> l, cancel |-> ids, intents |-> intents]
  IN  IF new /\ ~live
      THEN of([at |-> t, placed |-> FALSE], s.camp, t, {}, <<>>)
      ELSE IF new /\ MayRotate(s.camp, bar.close, t + 1)
      THEN of(NoSignal, [s.camp EXCEPT !.rotation = t, !.rotating = TRUE], s.last,
              IF s.signal = NoSignal THEN {} ELSE Cancellable(Entries(s.signal.at)),
              <<Intent("rotation", <<"x", t, "rotation">>, s.camp.id, pos)>>)
      ELSE of(s.signal, s.camp, s.last, {}, <<>>)

\* The tiers _manage_signals places or cancels, on top of that.
WithTiers(s, out) ==
  [s EXCEPT !.signal = out.signal, !.cancel = @ \cup out.cancel, !.intents = @ \o out.intents]

\* An exit ends the bar; else signals are looked for and managed.
AfterExit(bar, t, m, n, exit) ==
  LET s == TakeSignal(bar, t, n, Activate(exit.camp))
      done == [signal |-> signal, camp |-> exit.camp, last |-> last,
               cancel |-> exit.cancel, intents |-> exit.intents]
  IN  IF exit.intents # <<>> \/ m < BarBuffer THEN done
      ELSE WithTiers([s EXCEPT !.cancel = @ \cup exit.cancel], ManageSignals(s.signal, bar, t))

\* on_bar1s of the strategy, with m bars cached, n of them unbroken:
\* [signal, camp, last, cancel, intents].
OnBar(bar, t, m, n) ==
  IF enabled
  THEN AfterExit(bar, t, m, n, IF Candidate THEN OiExit(bar.close, t + 1)
                               ELSE TimeoutExit(bar.close, t + 1))
  ELSE [signal |-> signal, camp |-> camp, last |-> last, cancel |-> {}, intents |-> <<>>]

\* maybe_release_campaign once nothing of the Campaign is left at the exchange;
\* what waits in the queue does not count.
MayRelease(ord, lots) == lots = 0 /\ \A o \in DOMAIN ord : ord[o].status \notin Open
Release(l, holder, ord, lots) ==
  IF MayRelease(ord, lots)
  THEN lease' = NoLease /\ arbiter' = (IF holder = l.id THEN NoTime ELSE holder)
  ELSE lease' = l /\ arbiter' = holder

\* _persist_exit_state; the Campaign is acquired with its first entry.
Leased(l, i, c) ==
  IF i.kind = "entry" THEN [l EXCEPT !.id = i.camp]
  ELSE IF l.id = NoTime \/ c.fill = NoTime THEN l ELSE [l EXCEPT !.st = c.st]

\* A 1s bar, after `skip` missing seconds: the strategy, the adapter's
\* bookkeeping, and the execution of the intents.
Bar(bar, skip) ==
  LET t     == time + 1 + skip
      m     == IF cached = BarBuffer THEN cached ELSE cached + 1
      n     == IF skip > 0 THEN 1 ELSE IF run = BarBuffer THEN run ELSE run + 1
  IN  /\ up /\ t <= MaxTime
      /\ time' = t /\ cached' = m /\ run' = n
      /\ \E r \in {OnBar(bar, t, m, n)} : \E ord \in {AfterCancel(r.cancel)} :
           /\ last' = r.last /\ signal' = r.signal
           /\ owner' = HasLiveCampaign(r.signal, ord)
           /\ camp' = IF owner /\ ~owner' THEN NoCampaign ELSE r.camp
           /\ cancels' = IF Live THEN cancels \cup r.cancel ELSE {}
           /\ made' = IF r.last = t \/ r.camp.rotation = t THEN made + 1 ELSE made
           /\ kept' = IF r.last = t /\ r.camp.fill # NoTime THEN kept \cup {t} ELSE kept
           /\ \E intents \in {Arbitrated(r.intents)} :
                IF Queued
                THEN /\ queue' = Enqueue(queue, intents) /\ arbiter' = Holder(intents)
                     /\ UNCHANGED <<orders, lease>>
                ELSE /\ orders' = Submitted(ord, intents)
                     /\ Release(IF intents = <<>> THEN lease
                                ELSE Leased(lease, intents[Len(intents)], r.camp),
                                Holder(intents), orders', pos)
                     /\ UNCHANGED queue
      /\ UNCHANGED <<enabled, pos, up, crashes, pauses>>

\* The worker takes the next intent.  An entry is dropped when execution stops,
\* its signal is gone or over, or another Campaign has the arbiter or the lease;
\* an exit waits for execution, and a restored one is dropped without a position
\* and waits while an order is in doubt.
Work ==
  LET i     == Head(queue)
      job   == IF i.old /\ i.q > pos THEN [i EXCEPT !.q = pos] ELSE i
      valid == IF i.kind = "entry"
               THEN /\ enabled /\ arbiter = i.camp
                    /\ signal # NoSignal /\ signal.at = i.camp /\ time < Expire(signal)
                    /\ lease.id \in {NoTime, i.camp}
               ELSE i.old => pos > 0
  IN  /\ up /\ queue # <<>> /\ (i.kind # "entry" => enabled)
      /\ i.old => \A o \in DOMAIN orders : orders[o].status # "SUBMIT_UNKNOWN"
      /\ queue' = Tail(queue)
      /\ IF valid
         THEN orders' = Submitted(orders, <<job>>) /\ Release(Leased(lease, i, camp), arbiter, orders', pos)
         ELSE /\ orders' = orders
              /\ IF i.kind = "entry" /\ lease = NoLease /\ arbiter = i.camp
                 THEN arbiter' = NoTime /\ lease' = lease
                 ELSE Release(lease, arbiter, orders, pos)
      /\ UNCHANGED <<time, cached, run, last, signal, camp, owner, enabled, cancels, pos,
                     made, kept, up, crashes, pauses>>

-----------------------------------------------------------------------------
(* Klines, fills and faults *)

\* on_kline: a completed 1m kline opened before or after the first fill, and
\* the refreshed snapshot.
Kline(p, f) ==
  /\ up /\ Candidate /\ camp.fill # NoTime
  /\ camp' = [camp EXCEPT !.features = f,
                          !.close1m = IF time > camp.fill THEN p ELSE @]
  /\ UNCHANGED <<time, cached, run, last, signal, owner, enabled, orders, cancels, pos,
                 queue, arbiter, lease, made, kept, up, crashes, pauses>>

\* The process ends; what the account and Redis hold stays, and the exits of the
\* queue stay in ExecutionJobStore.
Down ==
  /\ up' = FALSE /\ signal' = NoSignal /\ camp' = NoCampaign /\ owner' = FALSE
  /\ cancels' = {} /\ arbiter' = NoTime
  /\ queue' = [n \in DOMAIN ExitsOf(queue) |-> [ExitsOf(queue)[n] EXCEPT !.old = TRUE]]

\* Mutant: every fill starts the timing anew.
FirstFill_every(o) == orders[o].status = "NEW"

FirstFill(o) == camp.fill = NoTime

\* on_fill of an entry: the first one starts the timing.  candidate-v1 needs
\* the signal for the origin and the bucket, and raises when it is gone: the
\* stream records the failure and the process ends.
Fill(o, bucket, f) ==
  LET c == orders[o].camp
      known == signal # NoSignal /\ signal.at = c
  IN  /\ up /\ orders[o].kind = "entry" /\ orders[o].status = "NEW"
      /\ orders' = [orders EXCEPT ![o].status = "FILLED", ![o].at = time + 1]
      /\ pos' = pos + orders[o].q
      /\ IF FirstFill(o) /\ Candidate /\ ~known
         THEN Down
         ELSE /\ camp' = IF ~FirstFill(o) THEN camp
                         ELSE [camp EXCEPT !.fill = time + 1, !.id = c, !.origin = Candidate,
                                           !.bucket = bucket,
                                           !.features = IF Candidate THEN f ELSE NoFeatures]
              /\ cancels' = cancels \ {o}
              /\ UNCHANGED <<up, signal, owner, queue, arbiter>>
      /\ UNCHANGED <<time, cached, run, last, enabled, lease, made, kept, crashes, pauses>>

\* A reduce-only market order closes at most what is open.
ExitFill(o) ==
  /\ orders[o].kind # "entry" /\ orders[o].status = "NEW"
  /\ orders' = [orders EXCEPT ![o].status = "FILLED"]
  /\ pos' = IF orders[o].q > pos THEN 0 ELSE pos - orders[o].q
  /\ Release(lease, arbiter, orders', pos')
  /\ UNCHANGED <<time, cached, run, last, signal, camp, owner, enabled, cancels, queue,
                 made, kept, up, crashes, pauses>>

\* A cancellation is confirmed, or an order's time is over at the executor.
Canceled(o) ==
  /\ Live /\ orders[o].kind = "entry" /\ orders[o].status = "NEW"
  /\ o \in cancels \/ time >= orders[o].camp + 1 + OrderTtl
  /\ orders' = [orders EXCEPT ![o].status = "CANCELED"] /\ cancels' = cancels \ {o}
  /\ Release(lease, arbiter, orders', pos)
  /\ UNCHANGED <<time, cached, run, last, signal, camp, owner, enabled, pos, queue, made, kept,
                 up, crashes, pauses>>

\* The answer to an entry's submission is lost: execution stops until a query
\* finds the order, or finds that there is none.
Doubt(o) ==
  /\ Live /\ up /\ pauses < MaxPauses
  /\ orders[o].kind = "entry" /\ orders[o].status = "NEW" /\ o \notin cancels
  /\ orders' = [orders EXCEPT ![o].status = "SUBMIT_UNKNOWN"]
  /\ enabled' = FALSE /\ pauses' = pauses + 1
  /\ UNCHANGED <<time, cached, run, last, signal, camp, owner, cancels, pos, queue, arbiter, lease,
                 made, kept, up, crashes>>

Resolve(o, found) ==
  /\ orders[o].status = "SUBMIT_UNKNOWN"
  /\ orders' = [orders EXCEPT ![o].status = IF found THEN "NEW" ELSE "CANCELED"]
  /\ UNCHANGED <<time, cached, run, last, signal, camp, owner, enabled, cancels, pos, queue,
                 arbiter, lease, made, kept, up, crashes, pauses>>

\* The gate opens again, before every order in doubt is settled or after.
Resume ==
  /\ up /\ ~enabled /\ enabled' = TRUE
  /\ UNCHANGED <<time, cached, run, last, signal, camp, owner, orders, cancels, pos, queue,
                 arbiter, lease, made, kept, up, crashes, pauses>>

Crash ==
  /\ Live /\ up /\ crashes < MaxCrashes /\ crashes' = crashes + 1 /\ Down
  /\ UNCHANGED <<time, cached, run, last, enabled, orders, pos, lease, made, kept, pauses>>

\* restore_campaign_timing once the market orders of the last process are
\* done: from the Campaign's orders and trades and what Redis holds of it.
Restored ==
  LET reduced == \E o \in DOMAIN orders : /\ orders[o].kind = "half"
                                          /\ orders[o].camp = lease.id
                                          /\ orders[o].status = "FILLED"
      first == Min({orders[o].at : o \in {e \in Entries(lease.id) : orders[e].status = "FILLED"}})
  IN  IF pos > 0
      THEN [NoCampaign EXCEPT !.fill = first, !.id = lease.id, !.origin = Candidate,
              !.st = [checked |-> reduced \/ lease.st.checked, reduced |-> reduced,
                      requested |-> FALSE]]
      ELSE IF Candidate /\ lease.id # NoTime
      THEN [NoCampaign EXCEPT !.id = lease.id, !.origin = TRUE]
      ELSE NoCampaign

Recover ==
  /\ ~up
  /\ \A o \in DOMAIN orders : orders[o].kind # "entry" => orders[o].status = "FILLED"
  /\ \A o \in DOMAIN orders : orders[o].status # "SUBMIT_UNKNOWN"
  /\ lease' = IF MayRelease(orders, pos) THEN NoLease ELSE lease
  /\ arbiter' = lease'.id
  /\ up' = TRUE /\ enabled' = TRUE /\ cached' = 0 /\ run' = 0 /\ last' = NoTime
  /\ camp' = IF lease' = NoLease THEN NoCampaign ELSE Restored
  /\ owner' = (lease' # NoLease)
  /\ UNCHANGED <<time, signal, orders, cancels, pos, queue, made, kept, crashes, pauses>>

Next ==
  \/ \E bar \in Bars, skip \in 0..1 : Bar(bar, skip)
  \/ Work
  \/ \E p \in Closes, f \in Features : Kline(p, f)
  \/ \E o \in DOMAIN orders :
       \/ \E bucket \in {None, "strong"}, f \in Features : Fill(o, bucket, f)
       \/ ExitFill(o) \/ Canceled(o) \/ Doubt(o)
       \/ \E found \in BOOLEAN : Resolve(o, found)
  \/ Resume \/ Crash \/ Recover

Spec == Init /\ [][Next]_vars

-----------------------------------------------------------------------------
(* Properties *)

Filled == {o \in DOMAIN orders : orders[o].kind = "entry" /\ orders[o].status = "FILLED"}
Opener == Max({orders[o].camp : o \in Filled})
FirstFillOf(c) == Min({orders[o].at : o \in Filled \cap Entries(c)})

\* A short position is managed by the timing of the Campaign that opened it, from
\* that Campaign's first fill on, in every running process: across restarts, late
\* fills and rotations on_bar1s has an exit rule to apply.  One case is excepted:
\* a signal that comes with the first bar after the closing fill finds the timing
\* not yet reset, and its Campaign inherits it (kept).  A backtest is never ended
\* by a fill without a signal.
PositionIsManaged ==
  /\ up /\ pos > 0 =>
       /\ ManagesExit
       /\ (camp.id = Opener /\ camp.fill = FirstFillOf(Opener)) \/ Opener \in kept
  /\ ~Live => up

\* An entry of the Campaign waited in the queue behind the exit, and filled later.
PassedByExit ==
  Queued /\ \E e \in Filled, o \in DOMAIN orders :
    orders[o].kind = "candidate" /\ orders[o].camp = orders[e].camp /\ orders[e].at >= o[2]

\* While a position is open and its Campaign has asked for the exit of it, the exit
\* is at the exchange or in the queue: the rules ask once only, and never rest on
\* an exit that is done.  Excepted are a Campaign with the timing of another, and an
\* entry that the execution queue submits after the exit.
RequestHasExit ==
  up /\ pos > 0 /\ (camp.exiting \/ camp.st.requested) =>
    \/ \E o \in DOMAIN orders : orders[o].kind # "entry" /\ orders[o].status = "NEW"
    \/ ExitsOf(queue) # <<>>
    \/ Opener \in kept \/ PassedByExit

\* candidate-v1 covers nothing while an entry of the Campaign may still fill:
\* an exit finds every entry done, so no fill can add to the position after it.
ExitFollowsEntries ==
  \A o, e \in DOMAIN orders :
    orders[o].kind \in {"candidate", "half"} /\ e \in Entries(orders[o].camp)
      => orders[e].status \notin Open

\* The halving at the origin is done once in a Campaign, restarts included: only
\* one that the execution queue restores, of which neither the orders nor Redis
\* know when the Campaign is recovered, may come on top of another.
HalvedOnce ==
  \A o, e \in DOMAIN orders :
    /\ orders[o].kind = "half" /\ orders[e].kind = "half"
    /\ orders[o].camp = orders[e].camp /\ ~orders[o].old /\ ~orders[e].old
    => o = e

\* A tier of a signal is placed once, and a Campaign has no more lots than tiers.
NoMoreThanTiers ==
  \A c \in {orders[o].camp : o \in DOMAIN orders} : Cardinality(Entries(c)) <= Tiers
=============================================================================
