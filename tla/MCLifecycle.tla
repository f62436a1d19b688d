----------------------------- MODULE MCLifecycle -----------------------------
(* Values for checking Lifecycle: every kind of transport, and two ways to   *)
(* end that overlap; or more records, and one way.                           *)
EXTENDS Lifecycle

Ends == {"close", "shutdown", "handler"}
SomePolicies == {"dropOldest", "block"}

Program(queue, order, ends, n) == [policy |-> queue, kinds |-> order, ends |-> ends, records |-> n]

ClosedBatch == {Program("dropOldest", <<"batching", "file">>, {"close", "shutdown"}, 2)}
SomePrograms ==
    ClosedBatch \cup
    {Program("dropOldest", <<"otel">>, {"close", "shutdown"}, 2),
     Program("dropOldest", <<"file", "http">>, {"shutdown", "handler"}, 2),
     Program("block", <<"beacon">>, {"shutdown", "handler"}, 2),
     Program("dropOldest", <<"batching", "otel">>, {"handler"}, 2),
     Program("dropOldest", <<"file", "batching">>, {"shutdown"}, 3)}
=============================================================================
