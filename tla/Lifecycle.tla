------------------------------ MODULE Lifecycle ------------------------------
(***************************************************************************)
(* The end of a process that logs: the dispatch queue, the transports it   *)
(* writes to, and the three ways to empty both -- Logger.close(), the      *)
(* shutdown handlers and a wrapped serverless handler -- which may overlap *)
(* with each other and with callers that go on logging                     *)
(* (src/core/logger.ts, shutdown.ts, serverless.ts).                       *)
(*                                                                         *)
(* Each of the three is a call of DispatchQueue's flush() followed by a    *)
(* walk over the transports, so Flushes names them: "close" for an         *)
(* explicit close(), "shutdown" for the close() of the installed handlers, *)
(* "handler" for withFlush.                                                *)
(***************************************************************************)
EXTENDS DispatchQueue, BatchBuffer, FiniteSetsExt

CONSTANT Programs   \* a logger's queue policy, the kinds of its transports, in order, the ends
                    \* it comes to, and how many records there are (a bound)

\* Three kinds share one buffer: HTTPTransport and BeaconTransport have no byte
\* bound, and BeaconTransport catches what its sender throws. "otel" stands for
\* OTelLogsTransport and OTLPTransport, which leave the buffer to the SDK.
Buffering == {"batching", "http", "beacon"}

ASSUME LifecycleAssumption ==
    /\ Flushes \subseteq {"close", "shutdown", "handler"}
    /\ \A p \in Programs :
          /\ p.policy \in Policies /\ p.kinds \in Seq(Buffering \cup {"otel", "file"})
          /\ p.ends \subseteq Flushes /\ p.records \in 0..MaxTasks
    /\ ~OnDropLogs

VARIABLES
    program,
    transports,     \* the state of each transport
    stage,          \* how far each of Flushes is,
    next,           \* the transport its walk comes to next,
    awaited,        \* and the exports it waits for on the way
    exitAfter,      \* shutdown(exitAfter): the signal handler runs, not beforeExit
    signalled,      \* a signal has arrived
    exited,         \* the process is gone
    before          \* history: how many records were logged before the call

closerVars == <<program, stage, next, awaited, exitAfter, signalled, exited, before>>
lifecycleVars == <<vars, transports, closerVars>>

kinds == program.kinds
Indices == DOMAIN kinds
Of(kindsOf) == {i \in Indices : kinds[i] \in kindsOf}
BatchingIndices == Of(Buffering)

\* A FileTransport: its descriptor, what was written to it, and the writes
\* refused because the descriptor was closed.
OpenFile == [open |-> TRUE, written |-> {}, refused |-> {}]

\* The SDK behind an OpenTelemetry transport: what its batch processor holds, the
\* batches being exported, and what became of the others.
OpenProvider == [open |-> TRUE, held |-> {}, exporting |-> {}, delivered |-> {}, lost |-> {}]

Fresh(kind) ==
    CASE kind \in Buffering -> EmptyTransport
      [] kind = "otel"      -> OpenProvider
      [] kind = "file"      -> OpenFile

LifecycleInit ==
    /\ Init
    /\ program \in Programs /\ policy = program.policy
    /\ transports = [i \in Indices |-> Fresh(kinds[i])]
    /\ stage = [c \in Flushes |-> "idle"]
    /\ next = [c \in Flushes |-> 1] /\ awaited = [c \in Flushes |-> {}]
    /\ exitAfter = FALSE /\ signalled = FALSE /\ exited = FALSE
    /\ before = [c \in Flushes |-> 0]

-----------------------------------------------------------------------------
(* Transports *)

WrittenToFile(file, r) ==
    IF file.open THEN [file EXCEPT !.written = @ \cup {r}]
                 ELSE [file EXCEPT !.refused = @ \cup {r}]

\* A provider that was shut down drops what it is given.
Emitted(provider, r) ==
    IF provider.open THEN [provider EXCEPT !.held = @ \cup {r}]
                     ELSE [provider EXCEPT !.lost = @ \cup {r}]

Exported(provider) ==
    IF provider.held = {} THEN provider
    ELSE [provider EXCEPT !.exporting = @ \cup {provider.held}, !.held = {}]

\* Lines have no size where there is no byte bound.
SizeFor(kind) == IF kind = "batching" THEN 1 ELSE 0

\* What transport i may be after a write, a flush or a close: every outcome.
AfterWrite(i, r) ==
    CASE kinds[i] \in Buffering -> Written(transports[i], r, SizeFor(kinds[i]))
      [] kinds[i] = "otel"      -> {Emitted(transports[i], r)}
      [] kinds[i] = "file"      -> {WrittenToFile(transports[i], r)}

AfterFlush(i) ==
    IF kinds[i] = "otel" THEN {Exported(transports[i])} ELSE Flushed(transports[i])

\* The provider's shutdown() exports what is left, and nobody waits for it.
AfterClose(i) ==
    CASE kinds[i] \in Buffering -> Flushed(transports[i])
      [] kinds[i] = "otel"      -> {[Exported(transports[i]) EXCEPT !.open = FALSE]}
      [] kinds[i] = "file"      -> {[transports[i] EXCEPT !.open = FALSE]}

\* close() throws when the last send does, or on a descriptor already closed;
\* what a beacon's sender throws is caught, and what shutdown() rejects with.
CloseThrows(i, after) ==
    CASE kinds[i] \in {"batching", "http"} -> after.lost # transports[i].lost
      [] kinds[i] \in {"beacon", "otel"}   -> FALSE
      [] kinds[i] = "file"                 -> ~transports[i].open

\* One choice of outcome for every transport.
Outcomes(outcomes) ==
    {f \in [Indices -> UNION {outcomes[i] : i \in Indices}] :
        \A i \in Indices : f[i] \in outcomes[i]}

-----------------------------------------------------------------------------
(* Records on their way *)

Running == started \cup inlined

\* writeAndNotify(): a transport that throws does not keep the record from the
\* next one.
WriteAndNotify(r) == transports' \in Outcomes([i \in Indices |-> AfterWrite(i, r)])

\* The logger's tasks are synchronous: nothing else runs until one returns.
Returned == Running \subseteq settled

\* A step of the queue; the task it starts, if any, writes as it runs.
QueueStep(A) ==
    /\ ~exited /\ Returned
    /\ A
    /\ IF Running' = Running
       THEN UNCHANGED transports
       ELSE \A r \in Running' \ Running : WriteAndNotify(r)
    /\ UNCHANGED closerVars

TaskReturns ==
    /\ \E t \in TaskIds : Settle(t)
    /\ UNCHANGED <<transports, closerVars>>

SendSettles ==
    /\ ~exited /\ Returned
    /\ \E i \in BatchingIndices : \E batch \in transports[i].sending :
          \E after \in Settled(transports[i], batch) :
             transports' = [transports EXCEPT ![i] = after]
    /\ UNCHANGED <<vars, closerVars>>

\* The SDK exports in the background what its processor holds.
ExportStarts ==
    /\ ~exited /\ Returned
    /\ \E i \in Of({"otel"}) :
          /\ transports[i].held # {}
          /\ transports' = [transports EXCEPT ![i] = Exported(@)]
    /\ UNCHANGED <<vars, closerVars>>

ExportSettles ==
    /\ ~exited /\ Returned
    /\ \E i \in Of({"otel"}) : \E batch \in transports[i].exporting :
          LET over == [transports[i] EXCEPT !.exporting = @ \ {batch}]
          IN  transports' \in {[transports EXCEPT ![i] = [over EXCEPT !.delivered = @ \cup batch]],
                              [transports EXCEPT ![i] = [over EXCEPT !.lost = @ \cup batch]]}
    /\ UNCHANGED <<vars, closerVars>>

-----------------------------------------------------------------------------
(* close(), withFlush and the shutdown handlers *)

Turn == ~exited /\ Returned /\ held = <<>>

\* The call itself: it runs up to its await of the queue's flush().
Begin(c) ==
    /\ Turn
    /\ Flush(c)
    /\ stage' = [stage EXCEPT ![c] = "flushing"]
    /\ before' = [before EXCEPT ![c] = submitted]
    /\ UNCHANGED <<program, transports, next, awaited, exited>>

Call(c) ==
    /\ c \in program.ends \ {"shutdown"}
    /\ Begin(c)
    /\ UNCHANGED <<exitAfter, signalled>>

\* The close() loop: the first transport that throws ends it, and the promise.
CloseTransports(c) ==
    \E after \in Outcomes([i \in Indices |-> AfterClose(i)]) :
       LET throwing == {i \in Indices : CloseThrows(i, after[i])}
           reached(i) == \A j \in throwing : i <= j
       IN  /\ transports' = [i \in Indices |-> IF reached(i) THEN after[i]
                                                             ELSE transports[i]]
           /\ stage' = [stage EXCEPT ![c] = IF throwing = {} THEN "done" ELSE "rejected"]

\* After the last transport: flushEverything() is over, and close() goes on to its loop.
EndWalk(c) ==
    /\ IF c = "handler"
       THEN stage' = [stage EXCEPT ![c] = "done"] /\ UNCHANGED transports
       ELSE CloseTransports(c)
    /\ UNCHANGED <<next, awaited>>

WalkSkipped(c) == EndWalk(c)         \* faulty: no transport is flushed on the way

\* The walk over the transports that have a flush(), one turn for each (a throw
\* or a rejection is caught), and after the last, in the same turn, the rest. Of
\* these flush()es only the OpenTelemetry transports' return a promise: it waits
\* for what it exported.
Walk(c) ==
    LET ahead == {i \in Indices : kinds[i] # "file" /\ i >= next[c]}
    IN  IF ahead = {} THEN EndWalk(c)
        ELSE LET i == Min(ahead)
             IN  /\ \E after \in AfterFlush(i) :
                       transports' = [transports EXCEPT ![i] = after]
                 /\ next' = [next EXCEPT ![c] = i + 1]
                 /\ awaited' = [awaited EXCEPT ![c] =
                                  IF kinds[i] = "otel" THEN transports'[i].exporting
                                                             \ transports[i].exporting
                                                       ELSE {}]
                 /\ UNCHANGED stage

NotAwaited(c) == stage[c] = "flushing"   \* faulty: flush() is not awaited
CanContinue(c) ==
    /\ stage[c] = "flushing" /\ c \in resolved
    /\ \A i \in Of({"otel"}) : awaited[c] \cap transports[i].exporting = {}

Continue(c) ==
    /\ Turn
    /\ CanContinue(c)
    /\ Walk(c)
    /\ UNCHANGED <<vars, program, exitAfter, signalled, exited, before>>

Over(c) == stage[c] \in {"done", "rejected"}

\* SIGTERM or SIGINT, where the handlers are installed: shutdown(true), unless a shutdown is under way.
Signal ==
    /\ Turn /\ ~signalled /\ "shutdown" \in program.ends
    /\ signalled' = TRUE
    /\ IF "shutdown" \notin called
       THEN Begin("shutdown") /\ exitAfter' = TRUE
       ELSE UNCHANGED <<vars, program, transports, stage, next, awaited, exitAfter, exited, before>>

ExitAtOnce ==               \* faulty: exit(0) does not wait for close()
    /\ Turn /\ "shutdown" \in called /\ exitAfter
    /\ exited' = TRUE
    /\ UNCHANGED <<vars, program, transports, stage, next, awaited, exitAfter, signalled, before>>

ExitOnSuccess ==            \* faulty: then(), not finally()
    /\ Turn /\ exitAfter
    /\ "shutdown" \in Flushes /\ stage["shutdown"] = "done"
    /\ exited' = TRUE
    /\ UNCHANGED <<vars, program, transports, stage, next, awaited, exitAfter, signalled, before>>

\* The finally(): process.exit(0), whether close() resolved or rejected.
Exit ==
    /\ Turn /\ Over("shutdown") /\ exitAfter
    /\ exited' = TRUE
    /\ UNCHANGED <<vars, program, transports, stage, next, awaited, exitAfter, signalled, before>>

\* Node finds nothing left to do: no callback queued, no drain, no request.
LoopEmpty ==
    /\ Turn /\ ~scheduled /\ ~draining
    /\ \A i \in BatchingIndices : transports[i].sending = {}
    /\ \A i \in Of({"otel"}) : transports[i].exporting = {}
    /\ \A c \in Flushes : ~CanContinue(c)

\* Node emits beforeExit: shutdown(false).
BeforeExit ==
    /\ LoopEmpty
    /\ "shutdown" \in program.ends \ called
    /\ Begin("shutdown")
    /\ UNCHANGED <<exitAfter, signalled>>

\* beforeExit has been emitted, if anyone listens, and nothing new was started: the
\* process ends.
NaturalExit ==
    /\ LoopEmpty
    /\ "shutdown" \notin program.ends \ called
    /\ exited' = TRUE
    /\ UNCHANGED <<vars, program, transports, stage, next, awaited, exitAfter, signalled, before>>

LifecycleNext ==
    \/ submitted < program.records /\ QueueStep(Enqueue)
    \/ QueueStep(OnDropReturns) \/ QueueStep(Tick)
    \/ QueueStep(RunScheduled) \/ QueueStep(ResumeDrain)
    \/ TaskReturns \/ SendSettles \/ ExportStarts \/ ExportSettles
    \/ \E c \in Flushes : Call(c) \/ Continue(c)
    \/ Signal \/ BeforeExit \/ Exit \/ NaturalExit

\* As in DispatchQueue; a promise that is resolved has its continuation run,
\* and so does process.exit(); Node ends a process that has nothing left to do.
\* Backends need not answer, but an export has a time limit, which OTLPTransport
\* sets.
LifecycleFairness ==
    /\ WF_lifecycleVars(QueueStep(OnDropReturns))
    /\ WF_lifecycleVars(QueueStep(RunScheduled))
    /\ WF_lifecycleVars(QueueStep(ResumeDrain))
    /\ WF_lifecycleVars(TaskReturns) /\ WF_lifecycleVars(ExportSettles)
    /\ \A c \in Flushes : WF_lifecycleVars(Continue(c))
    /\ WF_lifecycleVars(Exit) /\ WF_lifecycleVars(NaturalExit)

LifecycleSpec == LifecycleInit /\ [][LifecycleNext]_lifecycleVars /\ LifecycleFairness

-----------------------------------------------------------------------------
(* Properties *)

LifecycleTypeOK ==
    /\ \A i \in BatchingIndices :
          /\ transports[i].buffer \in Seq(TaskIds) /\ transports[i].bytes \in Nat
          /\ transports[i].sending \subseteq Elements(transports[i].sent)
          /\ transports[i].delivered \cup transports[i].lost \subseteq TaskIds
    /\ \A i \in Of({"otel"}) :
          /\ transports[i].exporting \subseteq SUBSET TaskIds
          /\ transports[i].held \cup transports[i].delivered \cup transports[i].lost \subseteq TaskIds
    /\ \A i \in Of({"file"}) :
          transports[i] \in [open : BOOLEAN, written : SUBSET TaskIds, refused : SUBSET TaskIds]
    /\ stage \in [Flushes -> {"idle", "flushing", "done", "rejected"}]
    /\ next \in [Flushes -> 1..(Len(kinds) + 1)] /\ program \in Programs
    /\ awaited \in [Flushes -> SUBSET SUBSET TaskIds]
    /\ exitAfter \in BOOLEAN /\ signalled \in BOOLEAN /\ exited \in BOOLEAN
    /\ before \in [Flushes -> 0..MaxTasks]

\* Record r has been through transport i: it is in no buffer there.
HandedOut(i, r) ==
    CASE kinds[i] \in Buffering ->
            r \in transports[i].lost \cup UNION {Elements(b) : b \in Elements(transports[i].sent)}
      [] kinds[i] = "otel" ->
            r \in transports[i].delivered \cup transports[i].lost \cup UNION transports[i].exporting
      [] kinds[i] = "file" -> r \in transports[i].written \cup transports[i].refused

\* When a close(), a shutdown or a wrapped handler is over, every record logged
\* before it was called was evicted by the queue or has left every buffer on
\* the way, even when the close() loop was cut short by a throw.
EmptiedOnReturn ==
    \A c \in Flushes : Over(c) =>
        \A r \in 1..before[c] : r \in dropped \/ \A i \in Indices : HandedOut(i, r)

\* "flushes and closes a logger once on SIGTERM/SIGINT/beforeExit, so nothing
\* queued is lost when the process stops": however it comes to stop.
NothingQueuedAtExit ==
    exited => \A r \in 1..before["shutdown"] :
                 r \in dropped \/ \A i \in Indices : HandedOut(i, r)

\* A file refuses a record only if it was logged after some close() was called,
\* however the calls overlap.
RefusedOnlyLate ==
    \A i \in Of({"file"}) : \A r \in transports[i].refused :
        \E c \in called \ {"handler"} : before[c] < r

\* A close(), a shutdown or a wrapped handler comes to an end, however the calls
\* overlap and also when a transport's close() throws; only process.exit() may come
\* first, so that no call is left pending in a process that has nothing to do.
CallsReturn == \A c \in Flushes : c \in called ~> Over(c) \/ (exited /\ exitAfter)

\* A signal ends the process, also when the close() it starts rejects. The one
\* exception: a signal after beforeExit has started the shutdown is swallowed, and
\* then the process ends with the last request, so not while a batch that close()
\* has sent is never answered.
SignalEnds ==
    signalled ~> \/ exited
                 \/ [](~exitAfter /\ \E i \in BatchingIndices : transports[i].sending # {})

\* "Flush every pending record, force every batching transport to send what it
\* is holding (and wait for it)".
CloseWaitsForSends ==
    \A c \in Flushes \ {"handler"} : Over(c) =>
        \A i \in BatchingIndices : \A r \in 1..before[c] :
            r \in dropped \cup transports[i].delivered \cup transports[i].lost
=============================================================================
