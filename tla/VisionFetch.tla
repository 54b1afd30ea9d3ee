---------------------------- MODULE VisionFetch ----------------------------
(***************************************************************************)
(* How the workers of a history download fetch archives of Binance Vision: *)
(* BinanceVisionHTTPFetcher streams an archive into a temporary file, one  *)
(* of a bounded number, asks two mirrors in turn and again after a pause,  *)
(* and yields the file once it has the published checksum;                 *)
(* BinanceVisionWorkerPoolFetcher repeats that over free proxies, none of  *)
(* them twice for one archive, and goes direct on its last attempt.        *)
(*                                                                         *)
(* An archive is a version number; 0 is one not published yet.  Binance    *)
(* corrects an archive by publishing a higher version, and its two mirrors *)
(* follow one another.  A response is one step.                            *)
(***************************************************************************)
EXTENDS Integers, FiniteSets

CONSTANTS
    Workers,        \* the numbers of the download workers, from 1
    Proxies,        \* how many proxies there are; 0: no pool
    Attempts,       \* of the pool
    Tries,          \* of one fetcher
    Slots,          \* temporary files at a time
    LastVersion,
    MaxFetches,     \* bound on the archives fetched
    MaxFaults       \* bound on failures of direct requests

VARIABLES
    mirrors,        \* what each mirror has: the versions of archive and checksum
    worker,         \* what each worker is doing
    busy,           \* the proxies in use
    turn,           \* the proxy _acquire looks at first
    slots,          \* free temporary slots
    fetches, faults

vars == <<mirrors, worker, busy, turn, slots, fetches, faults>>

ConstantsOK ==
    /\ Workers = 1 .. Cardinality(Workers)
    /\ Proxies = 0 => Attempts = 1
    /\ {Attempts, Tries, Slots} \subseteq Nat \ {0}

Direct     == 0
Routes     == 0 .. Proxies
Candidates == 1 .. 2
Versions   == 1 .. LastVersion
Things     == {"zip", "sum"}

\* The temporary file: a version, or the rest of an unfinished transfer as well.
Empty   == [version |-> 0, rest |-> FALSE]
Content == [version : 0 .. LastVersion, rest : BOOLEAN]

Ended   == {"idle", "read", "missing", "failed"}
Holding == {"get", "reading"}          \* phases with a temporary file
Routed  == {"slot", "get"}             \* phases with a route

Begun == [pc |-> "route", attempt |-> 1, excluded |-> {}, route |-> Direct,
          what |-> "zip", try |-> 1, cand |-> 1, missing |-> 0, file |-> Empty,
          digest |-> 0, there |-> FALSE, steady |-> FALSE, unlucky |-> FALSE]

\* What is left of a fetch that is over.
Over(me, pc) ==
    [Begun EXCEPT !.pc = pc, !.there = me.there, !.steady = me.steady, !.unlucky = me.unlucky]

Init ==
    /\ mirrors \in [Candidates -> [zip : {0, 1}, sum : {0, 1}]]
    /\ \A c \in Candidates : mirrors[c].sum <= mirrors[c].zip
    /\ \A t \in Things : mirrors[2][t] <= mirrors[1][t]
    /\ worker = [w \in Workers |-> [Begun EXCEPT !.pc = "idle"]]
    /\ busy = {}
    /\ turn = 1
    /\ slots = Slots
    /\ fetches = 0
    /\ faults = 0

-----------------------------------------------------------------------------
(* Binance Vision *)

There  == \A t \in Things : \E c \in Candidates : mirrors[c][t] > 0
Steady == \E v \in Versions : \A c \in Candidates : mirrors[c] = [zip |-> v, sum |-> v]

\* A mirror gets the next version of the archive or of the checksum; the
\* second one follows the first, and no checksum precedes its archive.
Publish ==
    /\ \E c \in Candidates, t \in Things :
        /\ mirrors[c][t] < IF c = 2 THEN mirrors[1][t]
                           ELSE IF t = "sum" THEN mirrors[1].zip ELSE LastVersion
        /\ mirrors' = [mirrors EXCEPT ![c][t] = @ + 1]
    /\ worker' = [w \in Workers |-> [worker[w] EXCEPT !.steady = FALSE]]
    /\ UNCHANGED <<busy, turn, slots, fetches, faults>>

-----------------------------------------------------------------------------
(* The pool *)

\* download_history gives an idle worker the next archive.
StartFetch(w) ==
    /\ worker[w].pc \in Ended
    /\ fetches < MaxFetches
    /\ fetches' = fetches + 1
    /\ worker' = [worker EXCEPT ![w] = [Begun EXCEPT !.there = There, !.steady = Steady]]
    /\ UNCHANGED <<mirrors, busy, turn, slots, faults>>

\* The proxies free for a worker, and the first of them in turn.
Free(w)  == 1 .. Proxies \ (worker[w].excluded \cup busy)
Ahead(i) == (i - turn + Proxies) % Proxies
First(S) == CHOOSE i \in S : \A j \in S : Ahead(i) <= Ahead(j)

\* _acquire: a free proxy not tried for this archive; direct when there is
\* none, for workers beyond the proxies, and on the last attempt.
RouteOf(w) ==
    IF worker[w].attempt = Attempts \/ w > Proxies \/ Free(w) = {}
    THEN Direct ELSE First(Free(w))

Acquire(w) ==
    /\ worker[w].pc = "route"
    /\ LET r == RouteOf(w) IN
        /\ worker' = [worker EXCEPT ![w].pc = "slot", ![w].route = r]
        /\ busy' = busy \cup ({r} \ {Direct})
        /\ turn' = IF r = Direct THEN turn ELSE (r % Proxies) + 1
    /\ UNCHANGED <<mirrors, slots, fetches, faults>>

\* Leaving an attempt: the slot and the proxy are free again.
Leave(w, after) ==
    /\ busy' = busy \ {worker[w].route}
    /\ slots' = slots + 1
    /\ worker' = [worker EXCEPT ![w] = after]

\* An attempt failed with anything but ArchiveNotFoundError: the proxy is not
\* tried again for this archive.
FailAttempt(w) ==
    LET me == worker[w] IN
    Leave(w, IF me.attempt = Attempts THEN Over(me, "failed")
             ELSE [me EXCEPT !.pc = "route", !.attempt = @ + 1, !.file = Empty,
                             !.excluded = @ \cup ({me.route} \ {Direct})])

-----------------------------------------------------------------------------
(* One fetcher *)

\* open_archive takes a slot, creates the temporary file and starts to download.
TakeSlot(w) ==
    /\ worker[w].pc = "slot"
    /\ slots > 0
    /\ slots' = slots - 1
    /\ worker' = [worker EXCEPT ![w].pc = "get", ![w].what = "zip", ![w].try = 1,
                                ![w].cand = 1, ![w].missing = 0, ![w].file = Empty]
    /\ UNCHANGED <<mirrors, busy, turn, fetches, faults>>

\* target.seek(0), target.truncate() and the chunks of a whole response.
Written(file, version) == [version |-> version, rest |-> FALSE]

\* The rest of _download_to and _get when a candidate answered 404 (gone) or
\* failed: the other candidate, the next try, ArchiveNotFoundError when both
\* candidates answered 404 in this try, or the last error.
Continue(w, me, gone) ==
    LET missing == me.missing + gone IN
    \/ /\ me.cand = 1
       /\ worker' = [worker EXCEPT ![w] = [me EXCEPT !.cand = 2, !.missing = missing]]
       /\ UNCHANGED <<busy, slots>>
    \/ /\ me.cand = 2 /\ missing = 2
       /\ Leave(w, Over(me, "missing"))
    \/ /\ me.cand = 2 /\ missing < 2 /\ me.try < Tries
       /\ worker' = [worker EXCEPT ![w] = [me EXCEPT !.cand = 1, !.try = @ + 1, !.missing = 0]]
       /\ UNCHANGED <<busy, slots>>
    \/ /\ me.cand = 2 /\ missing < 2 /\ me.try = Tries
       /\ FailAttempt(w)

\* The archive arrived whole: on to its checksum.
ReceiveArchive(w) ==
    LET me == worker[w] version == mirrors[me.cand].zip IN
    /\ me.pc = "get" /\ me.what = "zip" /\ version > 0
    /\ worker' = [worker EXCEPT ![w] =
         [me EXCEPT !.file = Written(me.file, version), !.digest = version,
                    !.what = "sum", !.try = 1, !.cand = 1, !.missing = 0]]
    /\ UNCHANGED <<mirrors, busy, turn, slots, fetches, faults>>

\* _verify_checksum.
Verified(digest, sum) == digest = sum

\* The checksum arrived: the file is yielded, its proxy released; or the
\* attempt failed.
ReceiveChecksum(w) ==
    LET me == worker[w] sum == mirrors[me.cand].sum IN
    /\ me.pc = "get" /\ me.what = "sum" /\ sum > 0
    /\ IF Verified(me.digest, sum)
       THEN /\ worker' = [worker EXCEPT ![w].pc = "reading"]
            /\ busy' = busy \ {me.route}
            /\ UNCHANGED slots
       ELSE FailAttempt(w)
    /\ UNCHANGED <<mirrors, turn, fetches, faults>>

\* A candidate answers 404.
ReceiveNotFound(w) ==
    LET me == worker[w] IN
    /\ me.pc = "get" /\ mirrors[me.cand][me.what] = 0
    /\ Continue(w, [me EXCEPT !.file = IF me.what = "zip" THEN Empty ELSE @], 1)
    /\ UNCHANGED <<mirrors, turn, fetches, faults>>

\* A request fails, possibly in the middle of a transfer.  Proxies fail at
\* any time.
FailRequest(w) ==
    LET me == worker[w] IN
    /\ me.pc = "get"
    /\ faults' = IF me.route = Direct THEN faults + 1 ELSE faults
    /\ faults' <= MaxFaults
    /\ \E rest \in {FALSE, me.what = "zip" /\ mirrors[me.cand].zip > 0} :
        Continue(w, [me EXCEPT !.unlucky = @ \/ me.route = Direct,
                               !.file = IF me.what = "sum" THEN @
                                        ELSE [version |-> 0, rest |-> rest]], 0)
    /\ UNCHANGED <<mirrors, turn, fetches>>

\* The parser is done with the file, or raised.
Close(w) ==
    /\ worker[w].pc = "reading"
    /\ worker' = [worker EXCEPT ![w] = Over(@, "read")]
    /\ slots' = slots + 1
    /\ UNCHANGED <<mirrors, busy, turn, fetches, faults>>

Step(w) ==
    \/ StartFetch(w) \/ Acquire(w) \/ TakeSlot(w) \/ ReceiveArchive(w)
    \/ ReceiveChecksum(w) \/ ReceiveNotFound(w) \/ FailRequest(w) \/ Close(w)

Next == Publish \/ \E w \in Workers : Step(w)

Spec == Init /\ [][Next]_vars

\* Workers are threads, requests have a time limit, and Semaphore.acquire
\* returns in the end when slots keep being released.
Fairness ==
    \A w \in Workers :
        /\ WF_vars(Acquire(w)) /\ WF_vars(TakeSlot(w)) /\ WF_vars(Close(w))
        /\ WF_vars(ReceiveArchive(w) \/ ReceiveChecksum(w)
                   \/ ReceiveNotFound(w) \/ FailRequest(w))

-----------------------------------------------------------------------------
(* Properties *)

TypeOK ==
    /\ mirrors \in [Candidates -> [zip : 0 .. LastVersion, sum : 0 .. LastVersion]]
    /\ \A w \in Workers :
        /\ worker[w].pc \in Ended \cup Holding \cup Routed \cup {"route"}
        /\ worker[w].attempt \in 1 .. Attempts
        /\ worker[w].excluded \subseteq 1 .. Proxies
        /\ worker[w].route \in Routes
        /\ worker[w].file \in Content
    /\ busy \subseteq 1 .. Proxies
    /\ slots \in 0 .. Slots

\* Whatever fails where, a slot is taken for as long as a temporary file is
\* open and no longer, and a proxy is busy exactly while one worker, and only
\* one, uses it (the finally of open_archive, _release on every path).
NothingLeaks ==
    /\ slots + Cardinality({w \in Workers : worker[w].pc \in Holding}) = Slots
    /\ \A i \in 1 .. Proxies :
        Cardinality({w \in Workers : worker[w].pc \in Routed /\ worker[w].route = i})
          = IF i \in busy THEN 1 ELSE 0

\* A parser reads one published version and nothing else, also after transfers
\* that broke off (the digest is of the chunks, not of the file) and while
\* Binance replaces the archive.
ReadIsWhole ==
    \A w \in Workers : worker[w].pc = "reading" =>
        /\ worker[w].file = [version |-> worker[w].digest, rest |-> FALSE]
        /\ worker[w].digest \in 1 .. mirrors[1].sum

\* An archive is reported as not published only if, when the fetch began,
\* neither mirror had the archive or neither had its checksum: an error of one
\* mirror and a 404 of the other, which lags behind, do not add up.
MissingIsTrue ==
    \A w \in Workers : worker[w].pc = "missing" => ~ worker[w].there

\* When both mirrors have an archive throughout and no direct request fails, the
\* fetch succeeds whatever the proxies do: the last attempt goes direct.
ProxiesDontMatter ==
    \A w \in Workers : worker[w].pc = "failed" => ~ worker[w].steady \/ worker[w].unlucky

FetchesAreSound == NothingLeaks /\ ReadIsWhole /\ MissingIsTrue /\ ProxiesDontMatter

\* Every fetch ends: nobody waits forever for a slot or a proxy.
FetchesEnd ==
    \A w \in Workers : worker[w].pc \notin Ended ~> worker[w].pc \in Ended
=============================================================================
