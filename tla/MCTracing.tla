----------------------------- MODULE MCTracing -----------------------------
(* Values for checking Tracing, with the functions of what spans and lines   *)
(* hold and of what is logged at all.                                        *)
EXTENDS Tracing, StateDiff, Toggles, SemanticConventions, TLC

CONSTANTS root, agent

Symmetric == Permutations(Chains)

Call(method, tool, fields) ==
    [method |-> method, tool |-> tool, error |-> FALSE, fields |-> fields]
Info == Call("info", FALSE, {})
SomeCalls == {Info, Call("action", TRUE, {}), Call("llmCall", FALSE, {"fits", "misfits"})}

Run(loggers) == [l \in Loggers |-> IF l \in loggers THEN "run" ELSE None]
Program == [runtime |-> "node", level |-> "INFO", loggers |-> {root}, runId |-> Run({}),
            traced |-> {}, active |-> None, traceparent |-> None, headers |-> {None},
            adapter |-> FALSE, calls |-> {Info}, parents |-> {None}, keys |-> {}, blocks |-> 2]
Traced == [Program EXCEPT !.traced = Loggers, !.headers = {None, "b"}]

\* Where every record of a request finds the same trace.
SteadySetups ==
    {[Program EXCEPT !.runtime = "browser", !.keys = Keys, !.blocks = 3],
     [Program EXCEPT !.runId = Run(Loggers), !.loggers = Loggers, !.keys = Keys],
     [Program EXCEPT !.runId = Run(Loggers), !.parents = {0, None}, !.calls = SomeCalls \ {Info}],
     [Program EXCEPT !.runId = Run(Loggers), !.adapter = TRUE, !.blocks = 1],
     [Program EXCEPT !.runId = Run(Loggers), !.adapter = TRUE, !.level = "ERROR"],
     [Traced EXCEPT !.headers = {"a", "b"}],
     [Traced EXCEPT !.active = "host"],
     [Traced EXCEPT !.traceparent = "a"]}

ASSUME \A program \in SteadySetups : Steady(program)

\* Where it need not: no run, no trace context.
LooseSetups == {Program}

ASSUME \A program \in LooseSetups : ~Steady(program)

PartOfChain == [r \in Runs |-> IF r \in Chained THEN None ELSE CHOOSE chain \in Chained : TRUE]
=============================================================================
