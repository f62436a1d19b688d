------------------------------- MODULE Records -------------------------------
(***************************************************************************)
(* The record: how one is made, and how one that another process wrote is  *)
(* read, by this version or by 1.x.  A JavaScript value is a pair of its   *)
(* type and what it holds; an object holds a function from its keys.       *)
(***************************************************************************)
LOCAL INSTANCE Integers
LOCAL INSTANCE SequencesExt
LOCAL INSTANCE TLC

Text(t)    == <<"text", t>>
Number(n)  == <<"number", n>>       \* an integer; Fraction is any other number
Object(f)  == <<"object", f>>
Array(s)   == <<"array", s>>
Fraction   == <<"fraction", 0>>
NaN        == <<"nan", 0>>
Null       == <<"null", 0>>         \* null, or undefined

IsText(v)   == v[1] = "text"
IsObject(v) == v[1] = "object"
NoKeys      == [k \in {} |-> Null]

\* A version is <<major, minor>>; "malformed" is any text that is not one.
SCHEMA_VERSION == Text(<<2, 0>>)
LEGACY_SCHEMA_VERSION == Text(<<1, 0>>)
SUPPORTED_MAJOR == 2
RecordLevels == {"TRACE", "DEBUG", "INFO", "WARN", "ERROR", "FATAL"}

\* createRecord(); the timestamp is a text.
CreateRecord(level, logger, message, meta, llm) ==
    [schema_version |-> SCHEMA_VERSION, timestamp |-> Text("now"), level |-> Text(level),
     logger |-> Text(logger), message |-> Text(message), meta |-> Object(meta)]
    @@ (IF llm = Null THEN NoKeys ELSE [llm |-> llm])

-----------------------------------------------------------------------------
(* parseRecord() *)

LEGACY_META_KEYS ==
    [runId |-> "run_id", spanId |-> "span_id", parentSpanId |-> "parent_span_id",
     traceId |-> "trace_id", durationMs |-> "duration_ms", prevHash |-> "prev_hash"]

\* What every object inherits is found in a table too: a function, whose text becomes
\* the key.
Inherited == {"constructor", "toString", "valueOf"}

NameRead(key) ==
    IF key \in DOMAIN LEGACY_META_KEYS THEN LEGACY_META_KEYS[key]
    ELSE IF key \in Inherited THEN "function text" ELSE key

\* The entries in the order of their keys, under new keys: of two that fall on one
\* key, the later stays.
Renaming(f, keys) ==
    FoldLeft(LAMBDA read, key : (NameRead(key) :> f[key]) @@ read, NoKeys, keys)

Malformed == <<"malformed", 0>>
NewerMajor == <<"newer", 0>>

VersionFault(version) ==
    IF ~IsText(version) \/ version = Text("malformed") THEN Malformed
    ELSE IF version[2][1] > SUPPORTED_MAJOR THEN NewerMajor ELSE Null

\* A fault, or the record. keys are the keys of meta in the order they come in.
ParseRecord(raw, keys) ==
    LET legacy  == "schema_version" \notin DOMAIN raw[2]
        given   == (IF legacy THEN [schema_version |-> LEGACY_SCHEMA_VERSION] ELSE NoKeys)
                   @@ raw[2] @@ [meta |-> Object(NoKeys)]
        version == VersionFault(given.schema_version)
        meta    == IF legacy THEN Renaming(given.meta[2], keys) ELSE given.meta[2]
    IN  IF ~IsObject(raw) THEN Malformed
        ELSE IF version # Null THEN version
        ELSE IF \/ \E field \in {"timestamp", "level", "logger", "message"} :
                     field \notin DOMAIN given \/ ~IsText(given[field])
                \/ given.level[2] \notin RecordLevels
                \/ ~IsObject(given.meta)
                \/ "llm" \in DOMAIN given /\ ~IsObject(given.llm)
             THEN Malformed
        ELSE Object([given EXCEPT !.meta = Object(meta)])

-----------------------------------------------------------------------------
(* buildLlmBlock() *)

Count(v)  == v[1] = "number" /\ v[2] >= 0
Amount(v) == v = Fraction \/ Count(v)
LLM_FIELDS ==
    [model |-> "model", tokensIn |-> "tokens_in", tokensOut |-> "tokens_out",
     costUsd |-> "cost_usd", latencyMs |-> "latency_ms", finishReason |-> "finish_reason"]

Valid(name, v) ==
    CASE name \in {"model", "finishReason"}  -> IsText(v)
      [] name \in {"tokensIn", "tokensOut"}  -> Count(v)
      [] name \in {"costUsd", "latencyMs"}   -> Amount(v)
      [] name \notin DOMAIN LLM_FIELDS       -> FALSE

\* What does not fit its field is left out, with a warning; nothing left is no block.
BuildLlmBlock(fields) ==
    LET kept == {name \in DOMAIN fields : fields[name] # Null /\ Valid(name, fields[name])}
        wire == {LLM_FIELDS[name] : name \in kept}
        from(w) == CHOOSE name \in kept : LLM_FIELDS[name] = w
    IN  IF kept = {} THEN Null ELSE Object([w \in wire |-> fields[from(w)]])

-----------------------------------------------------------------------------
(* Checks *)

SomeValues == {Text("x"), Number(1), Number(-1), Fraction, NaN, Null, Object(NoKeys), Array(<<>>)}
SomeLlm == UNION {[names -> SomeValues] : names \in SUBSET {"model", "tokensIn", "costUsd", "Model"}}
SomeKeys == {"runId", "run_id", "user", "constructor"}
SomeMeta == UNION {[keys -> {Text("x"), Text("y")}] : keys \in SUBSET SomeKeys}
Legacy(record) == [k \in DOMAIN record \ {"schema_version"} |-> record[k]]

\* A record that logger.llmCall() makes is read back as it was written, whatever
\* its fields were.
ASSUME RecordsAreReadBack ==
    \A fields \in SomeLlm, meta \in {NoKeys, [user |-> Text("x")], [runId |-> Text("x")]} :
        LET record == Object(CreateRecord("INFO", "app", "hi", meta, BuildLlmBlock(fields)))
        IN  ParseRecord(record, SetToSeq(DOMAIN meta)) = record

\* The block holds counts where counts are due and amounts where amounts are, so that
\* sums of them are sums.
ASSUME LlmBlockFits ==
    \A fields \in SomeLlm :
        LET block == BuildLlmBlock(fields)
        IN  block # Null =>
               /\ DOMAIN block[2] # {}
               /\ "tokens_in" \in DOMAIN block[2] => Count(block[2].tokens_in)
               /\ "cost_usd" \in DOMAIN block[2] => Amount(block[2].cost_usd)

\* A record of 1.x keeps its meta in this version's names, in whatever order it comes,
\* the later of two entries that fall on one name; reading it again changes nothing
\* more. An entry of the caller's own keeps its key unless that is an inherited one.
ASSUME LegacyRecordsAreRead ==
    \A meta \in SomeMeta : \A keys \in SetToSeqs(DOMAIN meta) :
        LET raw    == Object(Legacy(CreateRecord("INFO", "app", "hi", meta, Null)))
            parsed == ParseRecord(raw, keys)
            read   == parsed[2].meta[2]
            runs   == SelectSeq(keys, LAMBDA k : k \in {"runId", "run_id"})
        IN  /\ DOMAIN read = {NameRead(k) : k \in DOMAIN meta}
            /\ "user" \in DOMAIN meta => read.user = meta.user
            /\ runs # <<>> => read.run_id = meta[Last(runs)]
            /\ "constructor" \in DOMAIN meta => "constructor" \notin DOMAIN read
            /\ ParseRecord(parsed, SetToSeq(DOMAIN read)) = parsed

\* What is not a record of this version or an earlier one is refused.
ASSUME OthersAreRefused ==
    LET good == CreateRecord("INFO", "app", "hi", NoKeys, Null)
        bad(field, v) == ParseRecord(Object([k \in DOMAIN good \cup {field} |->
                                        IF k = field THEN v ELSE good[k]]), <<>>)
    IN  /\ \A v \in SomeValues : bad("level", v) = Malformed
        /\ \A v \in SomeValues \ {Object(NoKeys)} : bad("meta", v) = Malformed
        /\ \A v \in SomeValues \ {Object(NoKeys)} : bad("llm", v) = Malformed
        /\ bad("schema_version", Text(<<3, 0>>)) = NewerMajor
        /\ bad("schema_version", Text("malformed")) = Malformed
        /\ bad("schema_version", Text(<<2, 7>>)) = Object([good EXCEPT !.schema_version = Text(<<2, 7>>)])
=============================================================================
