---------------------------- MODULE SamplingPlugin ----------------------------
(***************************************************************************)
(* src/plugins/sampling-plugin.ts with transports: a record sampled out is *)
(* buffered under its trace, and a record at elevateAt has the whole trace *)
(* written straight to the transports.  A record has the fields id, trace, *)
(* severe (its level reaches elevateAt) and refused (format() or write()   *)
(* throws on it).  An operation takes the plugin's state and returns it    *)
(* with the verdict and the records it wrote.                              *)
(***************************************************************************)
EXTENDS RecencyMap

CONSTANTS
    NoTrace,            \* meta[traceKey] is undefined
    MaxTraces,          \* maxTraces
    MaxBufferedRecords  \* maxBufferedRecords

Ids(records) == {records[i].id : i \in DOMAIN records}

NothingSampled ==
    [buffer |-> EmptyMap, bufferedCount |-> 0, elevated |-> {},
     evicted |-> {}, lost |-> {}]       \* history: ids

Verdict(s, pass, wrote) == [sampling |-> s, pass |-> pass, wrote |-> wrote]

BufferedFor(s, trace) == IF trace \in Keys(s.buffer) THEN At(s.buffer, trace) ELSE <<>>

\* The records written before one throws.
UpToThrow(records) ==
    SubSeq(records, 1, CHOOSE n \in 0..Len(records) :
                           /\ \A i \in 1..n : ~records[i].refused
                           /\ n < Len(records) => records[n + 1].refused)

ElevateKeepsBuffer(s, trace) ==     \* faulty: the trace stays in the buffer
    LET buffered == BufferedFor(s, trace)
        wrote    == UpToThrow(buffered)
    IN  Verdict([s EXCEPT !.elevated = @ \cup {trace},
                          !.bufferedCount = @ - Len(buffered),
                          !.lost = @ \cup (Ids(buffered) \ Ids(wrote))],
                TRUE, wrote)

\* elevate(): what the trace has in the buffer is written in order.  What a
\* transport throws leaves the hook, and dispatch() goes on with the record.
Elevate(s, trace) ==
    LET buffered == BufferedFor(s, trace)
        wrote    == UpToThrow(buffered)
    IN  Verdict([s EXCEPT !.elevated = @ \cup {trace},
                          !.buffer = Without(@, trace),
                          !.bufferedCount = @ - Len(buffered),
                          !.lost = @ \cup (Ids(buffered) \ Ids(wrote))],
                TRUE, wrote)

EvictForgetsCount(s) ==             \* faulty: bufferedCount keeps the records that went
    IF s.buffer = <<>> THEN s ELSE
    [s EXCEPT !.buffer = Tail(@), !.evicted = @ \cup Ids(Head(s.buffer).value)]

\* evictOldestTrace(), which finds nothing to evict in an empty buffer.
EvictOldestTrace(s) ==
    IF s.buffer = <<>> THEN s
    ELSE [s EXCEPT !.buffer = Tail(@),
                   !.bufferedCount = @ - Len(Head(s.buffer).value),
                   !.evicted = @ \cup Ids(Head(s.buffer).value)]

\* bufferRecord(): one record more is one too many at most, so the loop that
\* evicts until there is room goes round once at most.
BufferRecord(s, r) ==
    LET full  == r.trace \notin Keys(s.buffer) /\ Len(s.buffer) >= MaxTraces
        room  == IF full THEN EvictOldestTrace(s) ELSE s
        more  == [room EXCEPT !.buffer = Touched(@, r.trace, Append(BufferedFor(s, r.trace), r)),
                              !.bufferedCount = @ + 1]
    IN  Verdict(IF more.bufferedCount > MaxBufferedRecords THEN EvictOldestTrace(more)
                                                           ELSE more,
                FALSE, <<>>)

SampledEveryTime(s, r, keep) ==     \* faulty: elevated traces are not looked up
    CASE r.trace # NoTrace /\ r.severe -> Elevate(s, r.trace)
      [] r.trace = NoTrace \/ ~r.severe ->
            IF keep \/ r.trace = NoTrace THEN Verdict(s, keep, <<>>)
                                        ELSE BufferRecord(s, r)

\* beforeLog(); keep is what the random number decides.
Sampled(s, r, keep) ==
    CASE r.trace \in s.elevated -> Verdict(s, TRUE, <<>>)
      [] r.trace \notin s.elevated /\ r.trace # NoTrace /\ r.severe -> Elevate(s, r.trace)
      [] r.trace \notin s.elevated /\ (r.trace = NoTrace \/ ~r.severe) ->
            IF keep \/ r.trace = NoTrace THEN Verdict(s, keep, <<>>)
                                        ELSE BufferRecord(s, r)
=============================================================================
