------------------------- MODULE SemanticConventions -------------------------
(***************************************************************************)
(* otel/semconv.ts: the names under which a record's fields are exported,  *)
(* on a span and on a log line, and the times of a span.  An attribute's   *)
(* name is the convention's concept and the generation whose name it is.   *)
(***************************************************************************)
LOCAL INSTANCE Integers
LOCAL INSTANCE TLC

Generations == {"latest", "legacy"}
RenamedConcepts == {"provider", "input_tokens", "output_tokens"}
Gen(g, concept) == <<"gen_ai", concept, IF concept \in RenamedConcepts THEN g ELSE "any">>
Ext(name) == <<"logquill", name, "any">>
Other(name) == <<"other", name, "any">>

\* explicit, or what the environment opts in to; asking for both gives one.
Refused == "refused"
ResolveConvention(explicit, tokens) ==
    IF explicit # "" THEN (IF explicit \in Generations THEN explicit ELSE Refused) ELSE "latest"

-----------------------------------------------------------------------------
(* Attributes: functions from names. A text that is not there, or no text,   *)
(* is "", and a number that is not there, or none, is NotOne.                *)

NotOne == -1
NoAttributes == [n \in {} |-> 0]
If(condition, name, value) == IF condition THEN name :> value ELSE NoAttributes
IfText(name, value) == If(value # "", name, value)
IfNumber(name, value) == If(value # NotOne, name, value)

\* "TypeError: x" is of type TypeError; a text without such a head is of another type.
ErrorType(error) == CASE error = "" -> "" [] error = "TypeError: x" -> "TypeError" [] OTHER -> "_OTHER"

Common(g, meta) ==
    IfText(Gen(g, "conversation_id"), meta.thread_id) @@ IfText(Gen(g, "agent_name"), meta.agent_name)
    @@ IfText(Ext("run_id"), meta.run_id) @@ IfNumber(Ext("retry_count"), meta.retry_count)
    @@ IfText(Other("error.type"), ErrorType(meta.error))

\* What an llm block adds, to a span as to a log line.
Usage(g, llm) ==
    IfText(Gen(g, "request_model"), llm.model)
    @@ IfNumber(Gen(g, "input_tokens"), llm.tokens_in) @@ IfNumber(Gen(g, "output_tokens"), llm.tokens_out)
    @@ IfText(Gen(g, "finish_reasons"), llm.finish_reason) @@ IfNumber(Ext("cost_usd"), llm.cost_usd)

Operation(meta) == IF meta.operation = "text_completion" THEN "text_completion" ELSE "chat"
Provider(meta, default) == IF meta.provider # "" THEN meta.provider ELSE default

LlmAttributes(g, record, options) ==
    LET content(key) == If(options.captureContent /\ record.meta[key] # "", Gen(g, key), record.meta[key])
    IN  Common(g, record.meta) @@ content("input_messages") @@ content("output_messages")
        @@ Usage(g, record.llm)
        @@ (Gen(g, "operation") :> Operation(record.meta))
        @@ (Gen(g, "provider") :> Provider(record.meta, options.defaultProvider))

IsAgentRun(meta) == meta.operation = "invoke_agent" \/ meta.agent_name # ""
SpanAttributes(g, record, options) ==
    IF ~IsAgentRun(record.meta) THEN Common(g, record.meta)
    ELSE (Gen(g, "operation") :> "invoke_agent")
         @@ (Gen(g, "provider") :> Provider(record.meta, options.defaultProvider))
         @@ (Gen(g, "agent_name") :> IF record.meta.agent_name # "" THEN record.meta.agent_name
                                     ELSE record.logger)
         @@ Common(g, record.meta)

\* A log line about a model call is always a chat.
LogAttributes(g, record) == (Gen(g, "operation") :> "chat") @@ Usage(g, record.llm)

-----------------------------------------------------------------------------
(* Times after the epoch: seconds and fractions of one, perSecond of which   *)
(* make a second.                                                            *)

EpochHr(time, perSecond) == <<time \div perSecond, time % perSecond>>

\* end minus duration; % of JavaScript has the sign of the duration.
Remainder(a, b) == IF a >= 0 THEN a % b ELSE -((-a) % b)
HrMinus(end, duration, perSecond) ==
    LET nanos == end[2] - Remainder(duration, perSecond)
        seconds == end[1] - duration \div perSecond
    IN  IF nanos < 0 THEN <<seconds - 1, nanos + perSecond>> ELSE <<seconds, nanos>>

-----------------------------------------------------------------------------
(* Checks *)

ExportedMetas ==
    [thread_id : {"", "t"}, agent_name : {"", "planner"}, run_id : {"r"}, retry_count : {NotOne, 1},
     error : {"", "TypeError: x", "it broke"}, operation : {"", "text_completion", "invoke_agent"},
     provider : {"", "openai"}, input_messages : {"", "prompt"}, output_messages : {"answer"}]
LlmBlocks == [model : {"", "m"}, tokens_in : {NotOne, 3}, tokens_out : {4}, finish_reason : {"", "stop"},
              cost_usd : {NotOne, 0}]
Exported == [meta : ExportedMetas, llm : LlmBlocks, logger : {"app"}]
SpanOptions == [captureContent : BOOLEAN, defaultProvider : {"unknown"}]

\* "Old and new names are never emitted together": every name is of the generation that
\* was chosen, whatever was asked for; and what is exported under one is exported under
\* the other.
ASSUME OneGeneration ==
    \A record \in Exported, options \in SpanOptions :
        LET by(g) == LlmAttributes(g, record, options)
            concepts(g) == {<<n[1], n[2], by(g)[n]>> : n \in DOMAIN by(g)}
        IN  /\ \A g \in Generations : \A n \in DOMAIN by(g) \cup DOMAIN SpanAttributes(g, record, options) :
                  n[3] \in {g, "any"}
            /\ concepts("latest") = concepts("legacy")

\* The legacy names are used only where the constructor is told to: no opt-in of the
\* environment, known or not, brings them back.
ASSUME OnlyExplicitlyLegacy ==
    \A explicit \in Generations \cup {"", "1.36"}, tokens \in SUBSET {"gen_ai_latest_experimental", "gen_ai/dup"} :
        ResolveConvention(explicit, tokens) = "legacy" => explicit = "legacy"

\* "a log line about an LLM call is queryable by the same names as its span": what the
\* line says of the call its span says too, except of the operation, which is a chat on
\* the line even where it is a text completion on the span.
ASSUME LineAgreesWithSpan ==
    \A record \in Exported, g \in Generations, options \in SpanOptions :
        LET line == LogAttributes(g, record)
            span == LlmAttributes(g, record, options)
        IN  /\ DOMAIN line \subseteq DOMAIN span
            /\ \A n \in DOMAIN line : line[n] # span[n] =>
                  n = Gen(g, "operation") /\ record.meta.operation = "text_completion"

\* The text of prompts and answers is on a span only if captureContent says so; a record
\* has an error type just if it has an error; a required attribute is always there.
ASSUME SpansAreLabelled ==
    \A record \in Exported, g \in Generations, options \in SpanOptions :
        LET span == LlmAttributes(g, record, options)
            mine == SpanAttributes(g, record, options)
        IN  /\ ~options.captureContent =>
                  {Gen(g, "input_messages"), Gen(g, "output_messages")} \cap DOMAIN span = {}
            /\ Other("error.type") \in DOMAIN span <=> record.meta.error # ""
            /\ Gen(g, "operation") \in DOMAIN mine => Gen(g, "provider") \in DOMAIN mine
            /\ Gen(g, "agent_name") \in DOMAIN mine => Gen(g, "operation") \in DOMAIN mine

\* A span that ends after the epoch starts exactly its duration before that, at a
\* well-formed time, whichever boundaries of seconds lie between. (A negative duration
\* may come out a second off.)
ASSUME TimesAreExact ==
    \A perSecond \in {1, 4}, time \in 0..13, duration \in -9..20 :
        LET start == HrMinus(EpochHr(time, perSecond), duration, perSecond)
        IN  duration >= 0 => /\ start[1] * perSecond + start[2] = time - duration
                             /\ start[2] \in 0..(perSecond - 1)
=============================================================================
