----------------------------- MODULE OTelExport -----------------------------
(***************************************************************************)
(* What OTLPTransport and OTelLogsTransport make of one record: a span, if *)
(* the record describes work with an end, and a log line.  A trace id is a *)
(* pair of what it was computed from and that value; ids computed from     *)
(* different things differ, as digests and random ids do.                  *)
(***************************************************************************)
EXTENDS Naturals

CONSTANTS
    None,
    HexIds              \* the span ids that are 16 hex characters already

-----------------------------------------------------------------------------
(* ids.ts *)

\* The id itself where it is one for OpenTelemetry, otherwise a digest.
SpanIdFor(id) == IF id \in HexIds THEN <<"id", id>> ELSE <<"digest", id>>
TraceIdFromParent(id) == <<"parent", id>>

\* What a header of zeroes gives: OpenTelemetry takes it for no trace.
ZeroTrace == <<"header", "zero">>

\* Faulty: the run is not asked.
TraceIdGiven(meta) == IF meta.trace_id # ZeroTrace THEN meta.trace_id ELSE None

\* meta.trace_id if it is a valid id, else derived from meta.run_id.
TraceIdFor(meta) ==
    IF meta.trace_id \notin {None, ZeroTrace} THEN meta.trace_id
    ELSE IF meta.run_id # None THEN <<"run", meta.run_id>> ELSE None

\* Both transports: a record that names a parent is in the parent's trace, which
\* is made up from the parent's id when nothing says which trace that is.
TraceOf(meta) ==
    IF TraceIdFor(meta) # None THEN TraceIdFor(meta)
    ELSE IF meta.parent_span_id # None THEN TraceIdFromParent(meta.parent_span_id) ELSE None

-----------------------------------------------------------------------------
(* semconv.ts *)

IsLlmRecord(record) == record.llm
IsToolRecord(record) == record.meta.kind = "action" /\ record.meta.tool
IsSpanRecord(record) == record.meta.kind = "span" /\ record.meta.span_id # None

Failed(record) == record.level \in {"ERROR", "FATAL"}

\* Names, attributes and durations are left out.
LlmSpec(record)  == [of |-> "llm", isError |-> record.meta.error \/ Failed(record)]
ToolSpec(record) == [of |-> "tool", isError |-> record.meta.error]
SpanSpec(record) == [of |-> "span", isError |-> Failed(record)]

\* An llm block makes a record a model call, whatever else it says.
SpecFor(record) ==
    IF IsLlmRecord(record) THEN LlmSpec(record)
    ELSE IF IsToolRecord(record) THEN ToolSpec(record)
    ELSE IF IsSpanRecord(record) THEN SpanSpec(record)
    ELSE None

-----------------------------------------------------------------------------
(* OTLPTransport.write(): the span of record number n, if it has one. The    *)
(* SDK's id generator gives the ids the record names, else random ones, and  *)
(* a span whose parent context is set takes the trace of that.               *)
SpanOf(record, n) ==
    LET spec  == SpecFor(record)
        own   == record.meta.span_id
        trace == TraceOf(record.meta)
    IN  IF spec = None THEN None
        ELSE [spec    |-> spec,
              traceId |-> IF trace = None THEN <<"random", n>> ELSE trace,
              spanId  |-> IF own = None THEN <<"random", n>> ELSE SpanIdFor(own),
              parent  |-> IF record.meta.parent_span_id = None THEN None
                          ELSE SpanIdFor(record.meta.parent_span_id)]

\* OTelLogsTransport.write(): the ids on the log line of a record, which go into
\* its context only when both are known.
LineOf(record) ==
    LET owner == IF record.meta.span_id # None THEN record.meta.span_id
                 ELSE record.meta.parent_span_id
        trace == TraceOf(record.meta)
    IN  IF trace = None \/ owner = None THEN None
        ELSE [traceId |-> trace, spanId |-> SpanIdFor(owner)]
=============================================================================
