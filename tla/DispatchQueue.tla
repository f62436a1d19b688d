---------------------------- MODULE DispatchQueue ----------------------------
(***************************************************************************)
(* The bounded queue between Logger methods and the transports             *)
(* (src/core/dispatch-queue.ts).  JavaScript runs one turn at a time, so   *)
(* an action is what one turn does between two awaits; any other callback  *)
(* may run between two actions.  A task that enqueues from its own body is *)
(* an Enqueue right after the action that starts it.  The one re-entrance  *)
(* that is not a sequence of turns is an onDrop callback that logs: the    *)
(* enqueue() that evicted a task is then still on the stack, holding the   *)
(* task it is about to push (variable held).                               *)
(***************************************************************************)
EXTENDS Integers, Sequences, FiniteSets

CONSTANTS
    Policies,       \* the backpressure policies configured (a choice of Init)
    MaxSize,        \* maxSize
    WarnInterval,   \* warnIntervalMs, in clock ticks
    OnDropLogs,     \* whether onDrop logs to the same queue
    MaxTasks,       \* bound: enqueue() calls
    Flushes         \* the flush() calls that may be made

ASSUME QueueAssumption ==
    /\ Policies \subseteq {"dropOldest", "dropNewest", "block"}
    /\ MaxSize \in Nat
    /\ WarnInterval \in Nat
    /\ OnDropLogs \in BOOLEAN
    /\ MaxTasks \in Nat

VARIABLES
    policy,
    tasks,                \* the waiting tasks, numbered in the order of enqueue()
    held,                 \* the tasks of enqueue() calls that are inside onDrop
    draining,             \* a drainAll() is in progress,
    awaiting,             \* and this is the task it awaits (NoTask: none)
    scheduled,            \* a drain is queued on the event loop
    idleWaiters,          \* the flush() calls waiting for the end of a drain
    droppedSinceWarning,
    sinceWarn,            \* Date.now() - lastWarnAt, up to WarnInterval
    \* The rest is history.
    submitted,            \* enqueue() calls so far
    started, inlined,     \* tasks started by a drain, and on the caller's stack
    settled, dropped,
    reported,             \* the sum of the counts given to onDrop
    called, resolved,     \* flush() calls made, and resolved
    owed                  \* the tasks a flush() call has to wait for

queueVars == <<tasks, held, scheduled>>
drainVars == <<draining, awaiting, started>>
dropVars  == <<droppedSinceWarning, sinceWarn, dropped, reported>>
runVars   == <<inlined, settled>>
flushVars == <<idleWaiters, called, resolved, owed>>
vars == <<policy, queueVars, drainVars, dropVars, runVars, flushVars, submitted>>

NoTask == 0
TaskIds == 1..MaxTasks
InQueue(q) == {q[i] : i \in DOMAIN q}

Init ==
    /\ policy \in Policies
    /\ tasks = <<>> /\ held = <<>> /\ scheduled = FALSE
    /\ draining = FALSE /\ awaiting = NoTask /\ started = {}
    /\ droppedSinceWarning = 0 /\ dropped = {} /\ reported = 0
    /\ sinceWarn = WarnInterval      \* lastWarnAt = 0: the epoch, long ago
    /\ inlined = {} /\ settled = {}
    /\ idleWaiters = {} /\ called = {} /\ resolved = {}
    /\ owed = [f \in Flushes |-> {}]
    /\ submitted = 0

-----------------------------------------------------------------------------
(* enqueue *)

WarnDue == sinceWarn >= WarnInterval

\* Faulty variants of the code stand before the operators they could replace.
RecordDropSubtracts(victims) ==     \* the count is subtracted, not reset
    /\ dropped' = dropped \cup victims
    /\ IF WarnDue
       THEN /\ reported' = reported + droppedSinceWarning + 1
            /\ droppedSinceWarning' = droppedSinceWarning - (droppedSinceWarning + 1)
            /\ sinceWarn' = 0
       ELSE /\ droppedSinceWarning' = droppedSinceWarning + 1
            /\ UNCHANGED <<reported, sinceWarn>>

RecordDropForgets(victims) ==       \* onDrop is told of the last drop only
    /\ dropped' = dropped \cup victims
    /\ droppedSinceWarning' = IF WarnDue THEN 0 ELSE droppedSinceWarning + 1
    /\ reported' = IF WarnDue THEN reported + 1 ELSE reported
    /\ sinceWarn' = IF WarnDue THEN 0 ELSE sinceWarn

\* recordDrop(): the count is reset and the clock restarted before onDrop is
\* called, whether onDrop then returns or throws.
RecordDrop(victims) ==
    /\ dropped' = dropped \cup victims
    /\ IF WarnDue
       THEN /\ reported' = reported + droppedSinceWarning + 1
            /\ droppedSinceWarning' = 0
            /\ sinceWarn' = 0
       ELSE /\ droppedSinceWarning' = droppedSinceWarning + 1
            /\ UNCHANGED <<reported, sinceWarn>>

PushUnscheduled(q, t) ==
    /\ tasks' = Append(q, t)
    /\ UNCHANGED scheduled

\* tasks.push(task); schedule(): q is what tasks holds before.
Push(q, t) ==
    /\ tasks' = Append(q, t)
    /\ scheduled' = TRUE

\* tasks.shift(), which leaves an empty array empty (maxSize 0).
Evict(q) == IF q = <<>> THEN q ELSE Tail(q)

\* runInline(): the task starts on the caller's stack, and nothing awaits it.
RunInline(t) ==
    /\ inlined' = inlined \cup {t}
    /\ UNCHANGED settled

HasRoomFor1More(q) == Len(q) <= MaxSize
HasRoom(q) == Len(q) < MaxSize

Accept(t) ==
    /\ HasRoom(tasks)
    /\ Push(tasks, t)
    /\ UNCHANGED <<held, dropVars, runVars>>

DropNewest(t) ==
    /\ ~HasRoom(tasks) /\ policy = "dropNewest"
    /\ RecordDrop({t})
    /\ UNCHANGED <<queueVars, runVars>>

Block(t) ==
    /\ ~HasRoom(tasks) /\ policy = "block"
    /\ RunInline(t)
    /\ UNCHANGED <<queueVars, dropVars>>

\* The oldest task goes.  When a warning is due, onDrop runs before the push.
DropOldest(t) ==
    /\ ~HasRoom(tasks) /\ policy = "dropOldest"
    /\ RecordDrop(InQueue(tasks) \ InQueue(Evict(tasks)))
    /\ IF WarnDue
       THEN tasks' = Evict(tasks) /\ held' = Append(held, t) /\ UNCHANGED scheduled
       ELSE Push(Evict(tasks), t) /\ UNCHANGED held
    /\ UNCHANGED runVars

Enqueue ==
    /\ submitted < MaxTasks
    /\ held = <<>> \/ OnDropLogs
    /\ submitted' = submitted + 1
    /\ LET t == submitted + 1
       IN  Accept(t) \/ DropNewest(t) \/ Block(t) \/ DropOldest(t)
    /\ UNCHANGED <<policy, drainVars, flushVars>>

\* onDrop returns (or throws, which is caught) to the innermost enqueue().
OnDropReturns ==
    /\ held # <<>>
    /\ Push(tasks, held[Len(held)])
    /\ held' = SubSeq(held, 1, Len(held) - 1)
    /\ UNCHANGED <<policy, drainVars, dropVars, runVars, flushVars, submitted>>

-----------------------------------------------------------------------------
(* flush *)

IdleButDraining == tasks = <<>>
Idle == tasks = <<>> /\ ~draining

Owed == InQueue(tasks) \cup ({awaiting} \ {NoTask})

Flush(f) ==
    /\ held = <<>>
    /\ f \notin called
    /\ called' = called \cup {f}
    /\ owed' = [owed EXCEPT ![f] = Owed]
    /\ IF Idle
       THEN resolved' = resolved \cup {f} /\ UNCHANGED <<idleWaiters, scheduled>>
       ELSE idleWaiters' = idleWaiters \cup {f} /\ scheduled' = TRUE
            /\ UNCHANGED resolved
    /\ UNCHANGED <<policy, tasks, held, drainVars, dropVars, runVars, submitted>>

-----------------------------------------------------------------------------
(* The drain *)

StartNewest ==                      \* pop() instead of shift()
    /\ tasks # <<>>
    /\ tasks' = SubSeq(tasks, 1, Len(tasks) - 1)
    /\ awaiting' = tasks[Len(tasks)]
    /\ started' = started \cup {awaiting'}
    /\ draining' = TRUE
    /\ UNCHANGED <<idleWaiters, resolved>>

StartUnshifted ==                   \* the task is read and left in the queue
    /\ tasks # <<>>
    /\ awaiting' = Head(tasks)
    /\ started' = started \cup {awaiting'}
    /\ draining' = TRUE
    /\ UNCHANGED <<tasks, idleWaiters, resolved>>

\* One turn of the loop: shift a task and run it up to its first await.
StartNext ==
    /\ tasks # <<>>
    /\ tasks' = Tail(tasks)
    /\ awaiting' = Head(tasks)
    /\ started' = started \cup {awaiting'}
    /\ draining' = TRUE
    /\ UNCHANGED <<idleWaiters, resolved>>

FinishForgetsWaiters ==
    /\ tasks = <<>>
    /\ draining' = FALSE
    /\ awaiting' = NoTask
    /\ idleWaiters' = {}
    /\ UNCHANGED <<tasks, started, resolved>>

\* The loop is over: the finally block.
Finish ==
    /\ tasks = <<>>
    /\ draining' = FALSE
    /\ awaiting' = NoTask
    /\ resolved' = resolved \cup idleWaiters
    /\ idleWaiters' = {}
    /\ UNCHANGED <<tasks, started>>

DrainLoop == StartNext \/ Finish

MayDrain == ~draining

\* The callback schedule() left on the event loop.
RunScheduled ==
    /\ scheduled /\ held = <<>>
    /\ scheduled' = FALSE
    /\ IF MayDrain THEN DrainLoop
                   ELSE UNCHANGED <<tasks, drainVars, idleWaiters, resolved>>
    /\ UNCHANGED <<policy, held, dropVars, runVars, called, owed, submitted>>

\* A started task ends: it returns, throws, or its promise settles.
Settle(t) ==
    /\ t \in (started \cup inlined) \ settled
    /\ held = <<>>
    /\ settled' = settled \cup {t}
    /\ UNCHANGED <<policy, queueVars, drainVars, dropVars, inlined, flushVars, submitted>>

AwaitNothing == draining
AwaitOver == draining /\ awaiting \in settled

\* The drain resumes after its await, whatever the outcome of the task.
ResumeDrain ==
    /\ AwaitOver /\ held = <<>>
    /\ DrainLoop
    /\ UNCHANGED <<policy, held, scheduled, dropVars, runVars, called, owed, submitted>>

Tick ==
    /\ sinceWarn < WarnInterval
    /\ sinceWarn' = sinceWarn + 1
    /\ UNCHANGED <<policy, queueVars, drainVars, droppedSinceWarning, dropped, reported,
                   runVars, flushVars, submitted>>

Next ==
    \/ Enqueue \/ OnDropReturns \/ RunScheduled \/ ResumeDrain \/ Tick
    \/ \E f \in Flushes : Flush(f)
    \/ \E t \in TaskIds : Settle(t)

\* The event loop runs what is queued on it, a turn ends, and the writes a
\* task awaits return: nothing obliges a caller to enqueue or to flush.
Fairness ==
    /\ WF_vars(OnDropReturns) /\ WF_vars(RunScheduled) /\ WF_vars(ResumeDrain)
    /\ \A t \in TaskIds : WF_vars(Settle(t))

Spec == Init /\ [][Next]_vars /\ Fairness

-----------------------------------------------------------------------------
(* Properties *)

TypeOK ==
    /\ policy \in Policies
    /\ tasks \in Seq(TaskIds) /\ held \in Seq(TaskIds)
    /\ scheduled \in BOOLEAN /\ draining \in BOOLEAN
    /\ awaiting \in TaskIds \cup {NoTask}
    /\ started \subseteq TaskIds /\ inlined \subseteq TaskIds
    /\ settled \subseteq TaskIds /\ dropped \subseteq TaskIds
    /\ droppedSinceWarning \in Nat /\ reported \in Nat
    /\ sinceWarn \in 0..WarnInterval
    /\ idleWaiters \subseteq Flushes
    /\ called \subseteq Flushes /\ resolved \subseteq Flushes
    /\ owed \in [Flushes -> SUBSET TaskIds]
    /\ submitted \in 0..MaxTasks

\* "Number of tasks currently waiting to run. Bounded by `maxSize`."
SizeWithinMax == Len(tasks) <= MaxSize

\* No lost wakeup: while something waits for a drain, one is running or on the
\* event loop, whatever the order of the turns that set and cleared the flags.
NothingStranded == tasks # <<>> \/ idleWaiters # {} => scheduled \/ draining

\* Every task handed to enqueue() is in exactly one place: waiting, about to be
\* pushed, started by a drain, run on the caller's stack, or dropped.
Distinct(q) == \A i, j \in DOMAIN q : q[i] = q[j] => i = j
Gone == started \cup inlined \cup dropped

EachTaskOnce ==
    /\ 1..submitted = InQueue(tasks) \cup InQueue(held) \cup Gone
    /\ Distinct(tasks) /\ Distinct(held)
    /\ InQueue(tasks) \cap InQueue(held) = {}
    /\ (InQueue(tasks) \cup InQueue(held)) \cap Gone = {}
    /\ started \cap inlined = {}
    /\ (started \cup inlined) \cap dropped = {}

\* Every drop is in a count given to onDrop or in the one kept for the next
\* call, and "block" drops nothing.
DropsAccounted ==
    /\ Cardinality(dropped) = reported + droppedSinceWarning
    /\ policy = "block" => dropped = {}

\* flush() "resolves once every task queued so far has run" (or was evicted).
FlushKeepsPromise == \A f \in resolved : owed[f] \subseteq settled \cup dropped

\* Drains never overlap: a drain leaves a task only once it has settled, and
\* starts tasks in the order they were enqueued, whatever was dropped between.
OneAtATimeInOrder ==
    [][awaiting' # awaiting =>
          /\ awaiting \in settled \cup {NoTask}
          /\ \A t \in started, u \in started' \ started : t < u]_vars

\* Every task comes to its end and every flush() resolves, once callers stop
\* enqueueing (MaxTasks bounds them here).
Progress ==
    /\ \A t \in TaskIds : t <= submitted ~> t \in settled \cup dropped
    /\ \A f \in Flushes : f \in called ~> f \in resolved

\* The queue keeps the contract of DeliveryContract.
Fate(t) == IF t > submitted THEN "new"
           ELSE IF t \in dropped THEN "dropped"
           ELSE IF t \in settled THEN "settled"
           ELSE IF t \in started \cup inlined THEN "running"
           ELSE "waiting"

Contract == INSTANCE DeliveryContract WITH fate <- [t \in TaskIds |-> Fate(t)]

ImplementsContract == Contract!ContractSpec
=============================================================================
