----------------------------- MODULE MCPipeline -----------------------------
(* Values for checking Pipeline: a program for each plugin or two and one for *)
(* the retry counter, with just the calls that their state can tell apart. The *)
(* plugins that rewrite one record are functions of it.                       *)
EXTENDS Pipeline, RecordMeta

Plain == [kind |-> "other", key |-> "a", trace |-> NoTrace,
          severe |-> FALSE, refused |-> FALSE, cyclic |-> FALSE]

Hashing == [chain |-> <<"rateLimit", "tamperEvident">>, records |-> 5, ticks |-> 3,
            calls |-> {Plain, [Plain EXCEPT !.key = "b"], [Plain EXCEPT !.cyclic = TRUE]}]

Traced(t) == [Plain EXCEPT !.trace = t]
Tracing == [chain |-> <<"sampling">>, records |-> 5, ticks |-> 0,
            calls |-> {Plain, Traced("t"), Traced("u"), [Traced("t") EXCEPT !.severe = TRUE],
                       [Traced("u") EXCEPT !.severe = TRUE], [Traced("t") EXCEPT !.refused = TRUE]}]

Alarming == [chain |-> <<"alerting">>, records |-> 4, ticks |-> 4,
             calls |-> {[Plain EXCEPT !.key = k, !.severe = TRUE, !.refused = (k = "b")] :
                           k \in {"a", "b"}}]

Retrying == [chain |-> <<>>, records |-> 5, ticks |-> 0,
             calls |-> {[Plain EXCEPT !.kind = c, !.key = k] :
                           c \in {"action", "observation"}, k \in {"a", "b", "c"}}]

AllSetups == {Hashing, Tracing, Alarming, Retrying}
Limiting == {[Hashing EXCEPT !.chain = <<"rateLimit">>]}
=============================================================================
