------------------------------ MODULE Tracing ------------------------------
(***************************************************************************)
(* What is logged inside span() and bindContext() blocks by several call   *)
(* chains: how Logger.dispatch() stamps the records, with RunPlugin and    *)
(* TraceContextPlugin, the records of LangChainAdapter and of              *)
(* OtelSpanProcessor, and what becomes of them at a collector.             *)
(***************************************************************************)
EXTENDS Scopes, Levels

CONSTANTS
    Setups,             \* programs: their runtime, loggers, level, sources of trace ids
    Calls,              \* the calls of a logger they make
    Runs,               \* runs of a framework that reports them to an adapter:
    Chained,            \* those that are chains (the others are calls),
    PartOf,             \* and the run each is part of, or None
    MaxRecords          \* bound: records exported

HexIds == 0..MaxBlocks
INSTANCE OTelExport

\* What each method of Logger, and of OptLogger, dispatches.
Methods ==
    LET at(level, kind) == [level |-> level, kind |-> kind]
    IN  [trace |-> at("TRACE", None), debug |-> at("DEBUG", None), info |-> at("INFO", None),
         warn |-> at("WARN", None), error |-> at("ERROR", None), fatal |-> at("FATAL", None),
         thought |-> at("INFO", "thought"), action |-> at("INFO", "action"),
         observation |-> at("INFO", "observation"), decision |-> at("INFO", "decision"),
         llmCall |-> at("INFO", "action")]

Headers == {None, "a", "b", "zero", "unparseable"}

ASSUME TracingAssumption ==
    /\ MaxRecords \in Nat /\ Chained \subseteq Runs /\ Runs \cap HexIds = {}
    /\ PartOf \in [Runs -> Chained \cup {None}]

Programs ==
    [runtime : {"node", "browser"}, level : DOMAIN Level,
     runId   : [Loggers -> {None, "run", "inner"}],     \* RunPlugin's, if attached
     traced  : SUBSET Loggers,                              \* with TraceContextPlugin
     active  : {None, "host"},          \* trace of the host's OpenTelemetry span
     traceparent : Headers,             \* the constructor option
     headers : SUBSET Headers,          \* what requests carry
     adapter : BOOLEAN, loggers : SUBSET Loggers, calls : SUBSET Calls,
     parents : SUBSET {0, None}, keys : SUBSET Keys, blocks : 0..MaxBlocks]

ASSUME SetupsAssumption == Setups \subseteq Programs

\* None is no trace id, and nothing that describes a span.
Words == {"run", "inner", "active", "host", "header", "a", "b", "span", "llm", "tool"}

ASSUME NoneAssumption ==
    None \notin Words \cup (Words \X Words) \cup [of : Words, isError : BOOLEAN]

ASSUME CallsAssumption ==
    /\ Calls \subseteq [method : DOMAIN Methods, tool : BOOLEAN, error : BOOLEAN,
                        fields : SUBSET {"absent", "fits", "misfits"}]      \* llmCall()'s
    /\ \A call \in Calls : call.fields # {} <=> call.method = "llmCall"

VARIABLES
    setup,
    header,             \* for each chain, what setTraceparent() was called with
    pending,            \* for each chain, the span it has left and not yet recorded
    reported,           \* the adapter's runs: "new", "open" or "over"
    callStarts, chainNames,     \* the adapter's maps, by their keys
    log,                \* the records OTLPTransport and OTelLogsTransport were given
    last                \* history: the last record, and where it was logged
vars == <<scopeVars, setup, header, pending, reported, callStarts, chainNames, log, last>>
logVars == <<log, last>>
adapterVars == <<reported, callStarts, chainNames>>

-----------------------------------------------------------------------------
(* Logger.dispatch() *)

\* TraceContextPlugin; a record without any source gets an id of its own.
ResolveTraceId(c) ==
    LET inbound == IF setup.traceparent # None THEN setup.traceparent ELSE header[c]
    IN  IF setup.active # None THEN <<"active", setup.active>>
        ELSE IF inbound \notin {None, "unparseable"} THEN <<"header", inbound>>
        ELSE <<"fresh", Len(log) + 1>>

\* RunPlugin, without its count of records.
RunId(logger) == setup.runId[logger]

\* What a caller may say of a record besides its level.
Plain == [kind |-> None, span_id |-> None, parent_span_id |-> None,
          tool |-> FALSE, error |-> FALSE]

Or(a, b) == IF a # None THEN a ELSE b

\* The record a call by chain c comes to. An enclosing span is its parent unless
\* the caller names one.
RecordOf(c, logger, level, said, llm) ==
    [level |-> level, llm |-> llm,
     meta |-> [kind     |-> said.kind, tool |-> said.tool, error |-> said.error,
               span_id  |-> said.span_id,
               parent_span_id |-> Or(said.parent_span_id, CurrentSpanId(c)'),
               run_id   |-> RunId(logger),
               trace_id |-> IF logger \in setup.traced THEN ResolveTraceId(c) ELSE None,
               context  |-> CurrentContext(c)']]

\* The browser's bundle has neither of the two transports.
Dispatch(c, logger, level, said, llm) ==
    IF Level[level] < Level[setup.level] THEN UNCHANGED logVars
    ELSE LET record == RecordOf(c, logger, level, said, llm)
         IN  /\ IF runtime = "browser" THEN UNCHANGED log
                ELSE Len(log) < MaxRecords /\ log' = Append(log, record)
             /\ last' = [parent  |-> record.meta.parent_span_id, context |-> record.meta.context,
                         inside  |-> Or(said.parent_span_id, Enclosing(scope[c]')),
                         bound   |-> Bound(scope[c]'),
                         clean   |-> ~mixed']

\* buildLlmBlock(): there is a block if a field of it is fit to be there.
LlmBlock(fields) == "fits" \in fields

-----------------------------------------------------------------------------
(* The application *)

Free(c) == MayRun(c) /\ pending[c] = None
Aside == UNCHANGED <<setup, header, pending, adapterVars>>

\* A request comes in, and middleware calls setTraceparent() with its header.
Request(c, h) ==
    /\ h \in setup.headers
    /\ Start(c, <<>>)
    /\ header' = [header EXCEPT ![c] = h]
    /\ UNCHANGED <<setup, pending, adapterVars, logVars>>

\* c calls an async function and goes on.
Fork(c, d) ==
    /\ Free(c) /\ Start(d, scope[c])
    /\ header' = [header EXCEPT ![d] = header[c]]
    /\ UNCHANGED <<setup, pending, adapterVars, logVars>>

\* The chain is over; a request's middleware restores the header.
Over(c) ==
    /\ Free(c) /\ End(c)
    /\ header' = [header EXCEPT ![c] = None]
    /\ UNCHANGED <<setup, pending, adapterVars, logVars>>

LogCall(c, logger, call) ==
    /\ Free(c) /\ Look(c)
    /\ LET method == Methods[call.method]
           said   == [Plain EXCEPT !.kind = method.kind, !.tool = call.tool, !.error = call.error]
       IN  Dispatch(c, logger, method.level, said, LlmBlock(call.fields))
    /\ Aside

\* span(name, fn, options) up to the call of fn.
OpenSpan(c, logger, sync, parent) ==
    /\ Free(c) /\ blocks < setup.blocks
    /\ Enter(c, [id |-> blocks + 1, type |-> "span", key |-> None, sync |-> sync,
                 logger |-> logger, given |-> parent])
    /\ Aside /\ UNCHANGED logVars

\* bindContext({key: ...}, fn) up to the call of fn.
BindContext(c, key, sync) ==
    /\ Free(c) /\ blocks < setup.blocks
    /\ Enter(c, [id |-> blocks + 1, type |-> "context", key |-> key, sync |-> sync,
                 logger |-> None, given |-> None])
    /\ Aside /\ UNCHANGED logVars

\* The span's own record. An error that is undefined is taken for none.
FinishSpan(c, b, outcome) ==
    LET said == [Plain EXCEPT !.kind = "span", !.span_id = b.id, !.parent_span_id = b.given,
                              !.error = outcome = "error"]
    IN  Dispatch(c, b.logger, IF outcome = "error" THEN "ERROR" ELSE "INFO", said, FALSE)

\* The span's fn settles, or returns no promise: span() goes on in a later turn.
\* If it throws before it returns, span() catches that in the same turn.
SpanSettles(c, outcome) ==
    /\ Free(c) /\ Own(c) # <<>>
    /\ LET b == Last(Own(c))
           throws == b.sync /\ outcome # "ok"
       IN  /\ b.type = "span"
           /\ Leave(c, throws)
           /\ IF throws THEN FinishSpan(c, b, outcome) /\ UNCHANGED pending
              ELSE /\ pending' = [pending EXCEPT ![c] = [block |-> b, outcome |-> outcome]]
                   /\ UNCHANGED logVars
    /\ UNCHANGED <<setup, header, adapterVars>>

SpanContinues(c) ==
    /\ MayRun(c) /\ pending[c] # None
    /\ Look(c)
    /\ FinishSpan(c, pending[c].block, pending[c].outcome)
    /\ pending' = [pending EXCEPT ![c] = None]
    /\ UNCHANGED <<setup, header, adapterVars>>

\* bindContext() hands on what fn returned or threw.
ContextSettles(c, throws) ==
    /\ Free(c) /\ Own(c) # <<>> /\ Last(Own(c)).type = "context"
    /\ Leave(c, throws)
    /\ Aside /\ UNCHANGED logVars

-----------------------------------------------------------------------------
(* LangChainAdapter; OtelSpanProcessor reports its spans as an adapter does  *)
(* a call. The callbacks come in any chain.                                  *)

SpanIds(r) == [Plain EXCEPT !.span_id = r, !.parent_span_id = PartOf[r]]

\* handleChainStart() logs nothing; handleLLMStart() and handleToolStart() do.
RunStarts(c, logger, r) ==
    /\ setup.adapter /\ Free(c) /\ reported[r] = "new"
    /\ PartOf[r] # None => reported[PartOf[r]] = "open"
    /\ Look(c)
    /\ reported' = [reported EXCEPT ![r] = "open"]
    /\ callStarts' = callStarts \cup {r}
    /\ chainNames' = chainNames \cup ({r} \cap Chained)
    /\ IF r \in Chained THEN UNCHANGED logVars
       ELSE Dispatch(c, logger, "INFO", [SpanIds(r) EXCEPT !.kind = "action"], FALSE)
    /\ UNCHANGED <<setup, header, pending>>

\* Faulty: handleChainError() leaves the name behind.
TakeStart(r, fails) ==
    /\ callStarts' = callStarts \ {r}
    /\ chainNames' = IF fails THEN chainNames ELSE chainNames \ {r}

\* takeDurationMs(), and the name's removal by each of the handlers that end a run.
Take(r, fails) == callStarts' = callStarts \ {r} /\ chainNames' = chainNames \ {r}

\* A call that ends is an observation, or an error() without a kind.
EndKind(r, fails) == IF r \in Chained THEN "span" ELSE IF fails THEN None ELSE "observation"

RunEnds(c, logger, r, fails) ==
    /\ setup.adapter /\ Free(c) /\ reported[r] = "open"
    /\ Look(c)
    /\ reported' = [reported EXCEPT ![r] = "over"]
    /\ Take(r, fails)
    /\ Dispatch(c, logger, IF fails THEN "ERROR" ELSE "INFO",
                [SpanIds(r) EXCEPT !.kind = EndKind(r, fails), !.error = fails], FALSE)
    /\ UNCHANGED <<setup, header, pending>>

\* handleAgentAction() and handleAgentEnd() name the enclosing chain's run.
AgentEvent(c, logger, r, kind) ==
    /\ setup.adapter /\ Free(c) /\ r \in Chained /\ reported[r] = "open"
    /\ Look(c)
    /\ Dispatch(c, logger, "INFO", [Plain EXCEPT !.kind = kind, !.parent_span_id = r], FALSE)
    /\ Aside

-----------------------------------------------------------------------------
Init ==
    /\ setup \in Setups
    /\ ScopesInit /\ runtime = setup.runtime
    /\ header = [c \in Chains |-> None] /\ pending = [c \in Chains |-> None]
    /\ reported = [r \in Runs |-> "new"] /\ callStarts = {} /\ chainNames = {}
    /\ log = <<>> /\ last = None

Next ==
    \/ \E c \in Chains :
          \/ \E h \in Headers : Request(c, h)
          \/ \E d \in Chains : Fork(c, d)
          \/ Over(c)
          \/ \E outcome \in {"ok", "error", "undefined"} : SpanSettles(c, outcome)
          \/ SpanContinues(c)
          \/ \E throws \in BOOLEAN : ContextSettles(c, throws)
          \/ \E key \in setup.keys, sync \in BOOLEAN : BindContext(c, key, sync)
    \/ \E c \in Chains, logger \in setup.loggers :
          \/ \E call \in setup.calls : LogCall(c, logger, call)
          \/ \E sync \in BOOLEAN, parent \in setup.parents : OpenSpan(c, logger, sync, parent)
          \/ \E r \in Runs :
                \/ RunStarts(c, logger, r)
                \/ \E fails \in BOOLEAN : RunEnds(c, logger, r, fails)
                \/ \E kind \in {"action", "decision"} : AgentEvent(c, logger, r, kind)

Spec == Init /\ [][Next]_vars

-----------------------------------------------------------------------------
(* Properties *)

\* The types of it all; and the adapter's maps hold the runs that are open and no
\* other, so that they do not grow.
TracingTypeOK ==
    /\ ScopesTypeOK
    /\ setup \in Setups /\ header \in [Chains -> Headers]
    /\ \A c \in Chains : pending[c] # None =>
          pending[c].block \in Block /\ pending[c].outcome \in {"ok", "error", "undefined"}
    /\ reported \in [Runs -> {"new", "open", "over"}]
    /\ callStarts = {r \in Runs : reported[r] = "open"} /\ chainNames = callStarts \cap Chained
    /\ Len(log) <= MaxRecords
    /\ \A i \in DOMAIN log : log[i].level \in DOMAIN Level

\* A record's parent is the block its own call chain is in, and its context what
\* that chain bound. On Node.js whatever runs at the same time; in a browser as
\* long as the open blocks are all around whoever uses the stack, and again when
\* all blocks that were mixed have been left, by an exception or not.
ParentIsEnclosing ==
    last # None /\ (runtime = "node" \/ last.clean) =>
        last.parent = last.inside /\ last.context = last.bound

\* One thing says which trace all records are in: a run, the host's span, or the
\* constructor's option.
OneTrace(program, trace) ==
    \/ /\ program.traced = {}
       /\ \E id \in {"run", "inner"} :
              trace = <<"run", id>> /\ \A logger \in program.loggers : program.runId[logger] = id
    \/ /\ program.loggers \subseteq program.traced
       /\ IF program.active # None THEN trace = <<"active", program.active>>
          ELSE program.traceparent \in {"a", "b"} /\ trace = <<"header", program.traceparent>>

\* The header of the request a chain works for says it.
TracePerRequest(program) ==
    /\ program.loggers \subseteq program.traced
    /\ program.active = None /\ program.traceparent = None /\ program.headers \subseteq {"a", "b"}
    /\ ~program.adapter

\* Every record of a request finds the same trace, or nothing is exported.
Steady(program) ==
    \/ program.runtime = "browser"
    \/ \E by \in {"run", "active", "header"}, id \in {"run", "inner", "host", "a", "b"} :
          OneTrace(program, <<by, id>>)
    \/ TracePerRequest(program)

Spans == {SpanOf(log[i], i) : i \in DOMAIN log} \ {None}
Lines == {LineOf(log[i]) : i \in DOMAIN log} \ {None}

\* "A log line carries the trace and span ids of the span it belongs to, the same
\* ids `OTLPTransport` gives that span"
LinesJoinTheirSpan ==
    \A line \in Lines, span \in Spans : line.spanId = span.spanId => line.traceId = span.traceId

\* "the tree a collector shows is exactly the tree that was logged": a span is in
\* the trace of its parent, and so is a line; a block that threw, with something
\* to tell, is an error there and no other is.
TreeIsLogged ==
    /\ LinesJoinTheirSpan
    /\ \A child \in Spans, span \in Spans :
          child.parent # None /\ child.parent = span.spanId => child.traceId = span.traceId
    /\ \A i \in DOMAIN log : IsSpanRecord(log[i]) =>
          SpanOf(log[i], i).spec.isError = log[i].meta.error
=============================================================================
