--------------------------- MODULE BacktestLoader ---------------------------
(***************************************************************************)
(* The event stream of a backtest (backtest/loader.py): the candle archive *)
(* is validated before the first event, then read in chunks of available   *)
(* time; one-second bars may be shifted in time, longer candles never are. *)
(*                                                                         *)
(* Time is in seconds.  The program's close times are the last millisecond *)
(* of a candle; here a candle ends where the next one may begin.           *)
(***************************************************************************)
EXTENDS Integers, Sequences, FiniteSets, SequencesExt, FiniteSetsExt

CONSTANTS
    Symbols,        \* the requested symbols, in the order of their names
    Step,           \* length of the required kline interval
    DayLength,      \* a 1s partition holds one day
    Archives,       \* what the archive may hold: sets of files [sym, tf, rows]
    Traded,         \* the seconds in which a symbol was traded
    Identified,     \* the 1s rows have aggregate trade ids
    Windows,        \* start_ms and end_ms: a set of pairs
    Chunks,         \* chunk_hours
    Shift           \* bar1s_time_shift_ms

VARIABLES
    archive,        \* the files of the archive
    window,         \* [from, to, chunk]
    source,         \* _source_index: the files validation has selected
    pc,             \* "open", "stream", "refused" or "done"
    at,             \* chunk_start_ms
    out             \* the events that were yielded

vars == <<archive, window, source, pc, at, out>>

ConstantsOK ==
    /\ {Step, DayLength} \subseteq Nat \ {0} /\ Shift \in Int
    /\ \A a \in Archives : \A f \in a : f.rows # {} /\ f.sym \in ToSet(Symbols)
    /\ \A w \in Windows : w[1] < w[2]

Length(tf) == IF tf = "1s" THEN 1 ELSE Step

Init ==
    /\ archive \in Archives
    /\ \E w \in Windows, c \in Chunks : window = [from |-> w[1], to |-> w[2], chunk |-> c]
    /\ source = {} /\ pc = "open" /\ at = 0 /\ out = <<>>

-----------------------------------------------------------------------------
(* Files and rows *)

FirstOpen(f) == Min(f.rows)
LastClose(f) == Max(f.rows) + Length(f.tf)

\* The window in the archive's own time.
RawFrom(tf) == window.from - (IF tf = "1s" THEN Shift ELSE 0)
RawTo(tf)   == window.to - (IF tf = "1s" THEN Shift ELSE 0)

\* A 1s row belongs to the window it opens in, a kline to the one it closes in.
InWindow(tf, open) ==
    IF tf = "1s" THEN RawFrom(tf) <= open /\ open < RawTo(tf)
    ELSE RawFrom(tf) < open + Step /\ open + Step <= RawTo(tf)

\* _validate_stream_datasets_from_index
Matching(sym, tf) ==
    {f \in archive : /\ f.sym = sym /\ f.tf = tf
                     /\ FirstOpen(f) < RawTo(tf) /\ LastClose(f) > RawFrom(tf)}

Of(files, sym, tf) == {f \in files : f.sym = sym /\ f.tf = tf}

\* The rows of these files in the window, and how many copies there are.
RowsOf(files, tf)   == {r \in UNION {f.rows : f \in files} : InWindow(tf, r)}
CopiesOf(files, tf) ==
    FoldSet(LAMBDA f, sum : sum + Cardinality({r \in f.rows : InWindow(tf, r)}), 0, files)

\* count, distinct count, first and last row are those of the grid
IsGrid(files, tf, first, stop) ==
    /\ CopiesOf(files, tf) = (stop - first) \div Length(tf)
    /\ Cardinality(RowsOf(files, tf)) = (stop - first) \div Length(tf)
    /\ Min(RowsOf(files, tf)) = first /\ Max(RowsOf(files, tf)) = stop - Length(tf)

Floor(t) == (t \div Step) * Step

\* _validate_complete_klines
KlinesComplete(files) ==
    \/ Floor(window.from) = Floor(window.to)
    \/ RowsOf(files, "kline") # {}
         /\ IsGrid(files, "kline", Floor(window.from), Floor(window.to))

\* The ids of a row continue those of the row before it in the window exactly
\* when no traded second in between is missing.
Continuous(sym, rows) ==
    \A r \in rows : \A t \in Traded[sym] :
        (\E p \in rows : p < t) /\ t < r => t \in rows

\* _validate_complete_seconds
SecondsComplete(sym, files) ==
    /\ \A t \in RawFrom("1s") .. RawTo("1s") - 1 :
         \E f \in files : \E r \in f.rows : r \div DayLength = t \div DayLength
    /\ IF Identified /\ RowsOf(files, "1s") # {}
       THEN /\ CopiesOf(files, "1s") = Cardinality(RowsOf(files, "1s"))
            /\ Continuous(sym, RowsOf(files, "1s"))
       ELSE /\ RowsOf(files, "1s") # {}
            /\ IsGrid(files, "1s", RawFrom("1s"), RawTo("1s"))

-----------------------------------------------------------------------------
(* Reading *)

\* Mutant: the files are chosen without the margin of a second
SourceFiles_exact(from, to) ==
    {f \in source : FirstOpen(f) < to - Shift /\ LastClose(f) > from - Shift}

\* _source_files_for_chunk: the same bounds for both kinds of files.
SourceFiles(from, to) ==
    {f \in source : FirstOpen(f) < to - Shift /\ LastClose(f) >= from - Shift - 1}

Event(f, open) ==
    [sym |-> f.sym, tf |-> f.tf, open |-> open,
     available |-> IF f.tf = "1s" THEN open + 1 + Shift ELSE open + Step]

Position(sym) == CHOOSE k \in DOMAIN Symbols : Symbols[k] = sym

\* ORDER BY available_time, 1s before klines, symbol, open_time
Before(x, y) ==
    LET Key(e) == <<e.available, IF e.tf = "1s" THEN 1 ELSE 2, Position(e.sym), e.open>>
        k == Key(x)
        m == Key(y)
    IN  \E i \in 1 .. 4 : k[i] < m[i] /\ \A j \in 1 .. i - 1 : k[j] = m[j]

Sorted(S) ==
    [k \in 1 .. Cardinality(S) |-> CHOOSE e \in S : Cardinality({x \in S : Before(x, e)}) = k - 1]

\* _execute_stream_query and _stream_row_to_event
ChunkEvents(from, to) ==
    Sorted({e \in UNION {{Event(f, r) : r \in f.rows} : f \in SourceFiles(from, to)} :
              InWindow(e.tf, e.open) /\ from <= e.available /\ e.available < to})

\* Everything is validated before the first event; what is missing or doubled
\* stops the run here.
Validate ==
    /\ pc = "open"
    /\ LET files == UNION {Matching(s, tf) : s \in ToSet(Symbols), tf \in {"1s", "kline"}}
           ok == /\ \A s \in ToSet(Symbols), tf \in {"1s", "kline"} : Matching(s, tf) # {}
                 /\ \A s \in ToSet(Symbols) :
                      /\ KlinesComplete(Of(files, s, "kline"))
                      /\ SecondsComplete(s, Of(files, s, "1s"))
       IN  IF ok THEN source' = files /\ pc' = "stream" ELSE pc' = "refused" /\ UNCHANGED source
    /\ at' = window.from
    /\ UNCHANGED <<archive, window, out>>

\* stream_end_ms, one millisecond more than a second after the end
StreamEnd == window.to + 2

ReadChunk ==
    /\ pc = "stream" /\ at < StreamEnd
    /\ LET end == Min({at + window.chunk, StreamEnd})
       IN  out' = out \o ChunkEvents(at, end) /\ at' = end
    /\ UNCHANGED <<archive, window, source, pc>>

EndStream ==
    /\ pc = "stream" /\ at >= StreamEnd
    /\ pc' = "done"
    /\ UNCHANGED <<archive, window, source, at, out>>

Next == Validate \/ ReadChunk \/ EndStream

Spec == Init /\ [][Next]_vars

-----------------------------------------------------------------------------
(* Properties *)

TypeOK ==
    /\ archive \in Archives /\ source \subseteq archive
    /\ pc \in {"open", "stream", "refused", "done"}
    /\ at \in 0 .. StreamEnd
    /\ \A k \in DOMAIN out : out[k].tf \in {"1s", "kline"} /\ InWindow(out[k].tf, out[k].open)

\* The stream is ordered across chunks and no candle comes twice: the strategy
\* sees no candle before it was complete and the one-second bar of an instant
\* before the klines that close at it (iter_all).
StreamOrdered ==
    /\ \A k \in 1 .. Len(out) - 1 : Before(out[k], out[k + 1])
    /\ pc = "stream" => \A k \in DOMAIN out : out[k].available < at

Emitted(sym, tf) == {out[k].open : k \in {j \in DOMAIN out : out[j].sym = sym /\ out[j].tf = tf}}

\* A stream that is read to its end has every kline of the window and every
\* second; with trade ids, every traded second between the first and the last
\* one: validation runs before the first event and what it accepted is not lost
\* while the chunks are read.
StreamComplete ==
    pc = "done" => \A s \in ToSet(Symbols) :
        /\ \A t \in 0 .. window.to - Step : t % Step = 0 /\ InWindow("kline", t)
             => t \in Emitted(s, "kline")
        /\ IF Identified THEN Continuous(s, Emitted(s, "1s"))
           ELSE RawFrom("1s") .. RawTo("1s") - 1 \subseteq Emitted(s, "1s")
=============================================================================
