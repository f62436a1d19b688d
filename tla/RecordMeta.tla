------------------------------ MODULE RecordMeta ------------------------------
(***************************************************************************)
(* What Logger.dispatch() makes of a call's meta, the content policy, and  *)
(* the plugins that redact what is left.  A meta is a function from keys   *)
(* to values; a value is a record of its type and what tells it from       *)
(* others.                                                                 *)
(***************************************************************************)
LOCAL INSTANCE Naturals
LOCAL INSTANCE FiniteSets
LOCAL INSTANCE TLC

Absent == [type |-> "undefined"]
\* A value of JSON: its text is head, of at most TRUNCATE_CHARS, and what comes after.
Json(head, rest) == [type |-> "json", head |-> head, rest |-> rest]
Digest(v)        == [type |-> "digest", of |-> v]
Circular(n)      == [type |-> "circular", n |-> n]
Function(result) == [type |-> "function", result |-> result]
Thrown           == [type |-> "throws"]             \* the result of one that throws
ErrorOf(n)       == [type |-> "Error", n |-> n]

-----------------------------------------------------------------------------
(* dispatch() *)

ResolveLazy(meta) ==
    [k \in DOMAIN meta |->
        IF meta[k].type # "function" THEN meta[k]
        ELSE IF meta[k].result = Thrown THEN Json("lazy value raised", "")
        ELSE meta[k].result]

\* What the logger adds, unless the caller has said it.
WithOwn(meta, key, value) ==
    IF value = Absent \/ key \in DOMAIN meta THEN meta ELSE (key :> value) @@ meta

WithStackFromErr(meta) ==
    IF "err" \notin DOMAIN meta \/ meta.err.type # "Error" THEN meta
    ELSE ("stack" :> Json("stack of", meta.err.n)) @@ [k \in DOMAIN meta \ {"err"} |-> meta[k]]

\* parent_span_id ??= the enclosing span's
WithParent(meta, parent) ==
    IF parent = Absent \/ ("parent_span_id" \in DOMAIN meta /\ meta.parent_span_id # Absent)
    THEN meta ELSE ("parent_span_id" :> parent) @@ meta

Assembled(base, context, meta, options, retryCount, parent) ==
    LET given == IF options.lazy THEN ResolveLazy(meta) ELSE meta
        own   == WithOwn(WithOwn(given, "retry_count", retryCount), "caller", options.caller)
    IN  WithParent(WithStackFromErr(own) @@ context @@ base, parent)

-----------------------------------------------------------------------------
(* The content policy *)

FIELD_CLASSES ==
    [key \in {"password", "token", "secret", "api_key", "authorization"} |-> "secret"]
    @@ [key \in {"email", "ssn", "phone"} |-> "pii"]
    @@ [key \in {"input_messages", "output_messages", "system_instructions",
                 "tool_arguments", "tool_result", "state_diff"} |-> "content"]
CONTENT_FIELDS == {key \in DOMAIN FIELD_CLASSES : FIELD_CLASSES[key] = "content"}
Policies == {"off", "hash", "truncate", "full"}

\* canonicalStringify(), or String() of what has a cycle; a function is null there.
SafeText(v) ==
    CASE v.type = "json"     -> v
      [] v.type = "circular" -> Json("[object Object]", "")
      [] v.type = "Error"    -> Json("{}", "")
      [] v.type \in {"function", "undefined"} -> Json("null", "")

OFF_PLACEHOLDER == Json("content capture is off", "")

ApplyOne(v, policy) ==
    CASE policy = "full" -> v
      [] policy = "off"  -> OFF_PLACEHOLDER
      [] policy = "hash" -> Digest(SafeText(v))
      [] policy = "truncate" -> IF SafeText(v).rest = "" THEN SafeText(v)
                                ELSE Json(SafeText(v).head, "truncated")

ApplyContentPolicy(meta, policy) ==
    [k \in DOMAIN meta |-> IF k \in CONTENT_FIELDS THEN ApplyOne(meta[k], policy) ELSE meta[k]]

-----------------------------------------------------------------------------
(* Plugins *)

\* ContextPlugin: the record's own meta wins.
InjectContext(context, meta) == meta @@ context

\* RedactPlugin: keys compared without their case.
LowerCase(key) == CASE key = "Password" -> "password" [] key = "TOKEN" -> "token" [] OTHER -> key
DEFAULT_REDACTED_KEYS == {"password", "token", "secret", "api_key", "authorization"}
Redacted == Json("***", "")
RedactKeys(keys, meta) ==
    [k \in DOMAIN meta |-> IF LowerCase(k) \in {LowerCase(r) : r \in keys} THEN Redacted ELSE meta[k]]

\* PIIRedactPlugin: values refer to each other; heap has what each object or array
\* holds: texts, or further ones. One that encloses itself, or is deeper than
\* maxDepth, is left as it is.
Texts == {"plain", "pii"}
RedactText(text) == IF text = "pii" THEN "***" ELSE text

RECURSIVE RedactValue(_, _, _, _, _)
RedactValue(heap, v, seen, depth, maxDepth) ==
    IF depth > maxDepth THEN [as |-> "is", value |-> v]
    ELSE IF v \in Texts THEN [as |-> "text", value |-> RedactText(v)]
    ELSE IF v \in seen THEN [as |-> "is", value |-> v]
    ELSE [as |-> "copy",
          entries |-> [i \in DOMAIN heap[v] |->
              RedactValue(heap, heap[v][i], seen \cup {v}, depth + 1, maxDepth)]]

-----------------------------------------------------------------------------
(* Checks *)

SomeContent == {Json("a", ""), Json("a", "b"), Json("a", "c"), Circular("1"), Circular("2"),
                Function(Json("a", "")), Function(Thrown), ErrorOf("1")}
Metas(keys, values) == UNION {[some -> values] : some \in SUBSET keys}
Options == [lazy : BOOLEAN, caller : {Absent, Json("caller", "")}]
Content == {"tool_result", "state_diff", "input_messages"}
Blank(meta) == [k \in DOMAIN meta |-> IF k \in Content THEN Json("blank", "") ELSE meta[k]]
NoMeta == [k \in {} |-> Absent]

\* "Before any plugin, so none (not even a custom one) can see raw content": under
\* "off" a record tells nothing of a content field but that there was one, from
\* whichever of the four sources it came. ContextPlugin comes later: what its own
\* context holds is not governed, and nothing else is raw.
ASSUME OffTellsNothing ==
    \A base \in Metas({"tool_result"}, SomeContent), meta \in Metas({"tool_result", "err"}, SomeContent),
       context \in Metas({"tool_result", "state_diff"}, {Json("a", "b"), Circular("1")}), options \in Options :
        LET dispatched(f(_)) ==
                ApplyContentPolicy(Assembled(f(base), f(context), f(meta), options, Absent, Absent), "off")
            same(m) == m
            later == InjectContext([input_messages |-> Json("raw", "")], dispatched(same))
        IN  /\ dispatched(same) = dispatched(Blank)
            /\ \A k \in DOMAIN later \cap Content :
                  later[k] # OFF_PLACEHOLDER => k = "input_messages"

\* "so two records can be confirmed to share a prompt": of values that JSON holds, two
\* have one digest only if they are equal. (All that have a cycle share one digest.)
ASSUME DigestsTellApart ==
    \A v, w \in SomeContent : ApplyOne(v, "hash") = ApplyOne(w, "hash") =>
        v = w \/ {v.type, w.type} \cap {"circular", "function", "Error"} # {}

\* What the call says stands against context and base, and against the logger's own
\* additions, in whatever way it is given; nothing is added that no one said.
ASSUME CallWins ==
    \A base, context, meta \in Metas({"parent_span_id", "retry_count"}, {Json("a", ""), Absent}),
       options \in Options, retryCount, parent \in {Absent, Json("own", "")} :
        LET m == Assembled(base, context, meta, options, retryCount, parent)
        IN  /\ \A k \in DOMAIN meta : meta[k] # Absent => m[k] = meta[k]
            /\ parent # Absent => m.parent_span_id # Absent
            /\ DOMAIN m \subseteq DOMAIN base \cup DOMAIN context \cup DOMAIN meta
                                  \cup {"parent_span_id", "retry_count", "caller"}

\* With lazy values every function is called before anything looks at the values: an
\* error that one returns is turned into a stack as any other.
ASSUME NoFunctionIsLogged ==
    \A meta \in Metas({"err", "user"}, SomeContent \cup {Function(ErrorOf("1"))}) :
        LET m == Assembled(NoMeta, NoMeta, meta, [lazy |-> TRUE, caller |-> Absent], Absent, Absent)
        IN  /\ \A k \in DOMAIN m : m[k].type # "function"
            /\ "err" \in DOMAIN m => m.err.type # "Error"

\* Default redaction covers the registry's secrets, however they are written.
ASSUME SecretsAreRedacted ==
    \A meta \in Metas({"Password", "TOKEN", "token", "user"}, {Json("a", "")}) :
        LET m == RedactKeys(DEFAULT_REDACTED_KEYS, meta)
        IN  \A k \in DOMAIN m : (m[k] = Redacted) =
                (LowerCase(k) \in {f \in DOMAIN FIELD_CLASSES : FIELD_CLASSES[f] = "secret"})

\* Redaction of values ends, whatever refers to what, and of what can be written as
\* JSON it leaves nothing out that is not too deep: a value left as it is above the
\* bound is part of a cycle, which JSON refuses.
Nodes == {"x", "y", "z"}
Heaps == [Nodes -> {<<>>} \cup {<<e>> : e \in Nodes \cup {"pii"}}
                   \cup {<<e, f>> : e \in Nodes, f \in Nodes \cup {"pii"}}]

RECURSIVE Reaches(_, _, _, _)
Reaches(heap, from, to, steps) ==
    \E i \in DOMAIN heap[from] :
        LET v == heap[from][i]
        IN  v \notin Texts /\ (v = to \/ (steps > 1 /\ Reaches(heap, v, to, steps - 1)))

RECURSIVE RedactedWell(_, _, _, _)
RedactedWell(heap, result, depth, maxDepth) ==
    CASE result.as = "text" -> result.value # "pii"
      [] result.as = "is"   -> \/ depth > maxDepth
                               \/ Reaches(heap, result.value, result.value, Cardinality(Nodes))
      [] result.as = "copy" -> \A i \in DOMAIN result.entries :
                                  RedactedWell(heap, result.entries[i], depth + 1, maxDepth)

ASSUME RedactionReachesAll ==
    \A heap \in Heaps, maxDepth \in {1, 4} :
        RedactedWell(heap, RedactValue(heap, "x", {}, 0, maxDepth), 0, maxDepth)
=============================================================================
