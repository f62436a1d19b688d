------------------------- MODULE DispatchQueueProofs -------------------------
(***************************************************************************)
(* Proofs about DispatchQueue for every queue size, warning interval and   *)
(* number of tasks and flush() calls.                                      *)
(***************************************************************************)
EXTENDS DispatchQueue, SequenceTheorems, FiniteSetTheorems, TLAPS

-----------------------------------------------------------------------------
(* What the queue operations do to the tasks in a queue. *)

LEMMA EvictType ==
    ASSUME NEW S, NEW q \in Seq(S)
    PROVE  Evict(q) \in Seq(S) /\ Len(Evict(q)) = IF q = <<>> THEN 0 ELSE Len(q) - 1
  BY HeadTailProperties, EmptySeq DEF Evict

LEMMA DropLastType ==
    ASSUME NEW S, NEW q \in Seq(S), q # <<>>
    PROVE  /\ Len(q) \in Nat \ {0} /\ q[Len(q)] \in S
           /\ SubSeq(q, 1, Len(q) - 1) \in Seq(S)
           /\ Len(SubSeq(q, 1, Len(q) - 1)) = Len(q) - 1
           /\ \A i \in 1..(Len(q) - 1) : SubSeq(q, 1, Len(q) - 1)[i] = q[i]
<1>1. Len(q) \in Nat \ {0} /\ \A i \in 1..Len(q) : q[i] \in S
  BY EmptySeq, LenProperties, ElementOfSeq
<1> DEFINE n == Len(q) - 1
<1>2. n \in Nat /\ \A i \in 1..n : q[i] \in S
  BY <1>1
<1> HIDE DEF n
<1>3. /\ SubSeq(q, 1, n) \in Seq(S)
      /\ Len(SubSeq(q, 1, n)) = IF 1 <= n THEN n - 1 + 1 ELSE 0
      /\ \A i \in 1..(n - 1 + 1) : SubSeq(q, 1, n)[i] = q[1 + i - 1]
  BY <1>2, SubSeqProperties
<1>4. /\ Len(SubSeq(q, 1, n)) = n
      /\ \A i \in 1..n : SubSeq(q, 1, n)[i] = q[i]
  BY <1>2, <1>3
<1>5. QED
  BY <1>1, <1>3, <1>4 DEF n

LEMMA InQueueIndices ==
    ASSUME NEW S, NEW q \in Seq(S)
    PROVE  /\ DOMAIN q = 1..Len(q) /\ Len(q) \in Nat
           /\ InQueue(q) = {q[i] : i \in 1..Len(q)} /\ InQueue(q) \subseteq S
  BY LenProperties, ElementOfSeq DEF InQueue

\* A queue is empty when nothing is in it.
LEMMA EmptyQueue ==
    ASSUME NEW S, NEW q \in Seq(S)
    PROVE  q = <<>> <=> InQueue(q) = {}
<1>1. CASE q = <<>>
  BY <1>1, EmptySeq DEF InQueue
<1>2. CASE q # <<>>
  <2>1. Len(q) \in Nat /\ Len(q) # 0
    BY <1>2, EmptySeq, LenProperties
  <2>2. 1 \in 1..Len(q)
    BY <2>1
  <2>3. q[1] \in InQueue(q)
    BY <2>2, InQueueIndices
  <2>4. QED
    BY <1>2, <2>3
<1>3. QED
  BY <1>1, <1>2

LEMMA InQueueAppend ==
    ASSUME NEW S, NEW q \in Seq(S), NEW e \in S
    PROVE  /\ InQueue(Append(q, e)) = InQueue(q) \cup {e}
           /\ Distinct(q) /\ e \notin InQueue(q) => Distinct(Append(q, e))
<1> DEFINE r == Append(q, e)
<1>1. /\ r \in Seq(S) /\ Len(r) = Len(q) + 1 /\ r[Len(q) + 1] = e
      /\ \A i \in 1..Len(q) : r[i] = q[i]
  BY AppendProperties
<1>2. /\ DOMAIN r = 1..(Len(q) + 1) /\ DOMAIN q = 1..Len(q) /\ Len(q) \in Nat
      /\ InQueue(r) = {r[i] : i \in 1..(Len(q) + 1)} /\ InQueue(q) = {q[i] : i \in 1..Len(q)}
  BY <1>1, InQueueIndices
<1> HIDE DEF r
<1>3. 1..(Len(q) + 1) = (1..Len(q)) \cup {Len(q) + 1}
  BY <1>2
<1>4. InQueue(r) = InQueue(q) \cup {e}
  BY <1>1, <1>2, <1>3
<1>5. ASSUME Distinct(q), e \notin InQueue(q) PROVE Distinct(r)
  BY <1>1, <1>2, <1>3, <1>5 DEF Distinct
<1>6. QED
  BY <1>4, <1>5 DEF r

LEMMA InQueueTail ==
    ASSUME NEW S, NEW q \in Seq(S), q # <<>>, Distinct(q)
    PROVE  /\ InQueue(Tail(q)) = InQueue(q) \ {Head(q)}
           /\ Head(q) \in InQueue(q) /\ Distinct(Tail(q))
<1> DEFINE r == Tail(q)
<1>1. /\ r \in Seq(S) /\ Len(r) = Len(q) - 1 /\ \A i \in 1..Len(r) : r[i] = q[i + 1]
      /\ Len(q) \in Nat \ {0} /\ Head(q) = q[1]
  BY HeadTailProperties, EmptySeq
<1>2. /\ DOMAIN r = 1..(Len(q) - 1) /\ DOMAIN q = 1..Len(q)
      /\ InQueue(r) = {r[i] : i \in 1..(Len(q) - 1)} /\ InQueue(q) = {q[i] : i \in 1..Len(q)}
  BY <1>1, InQueueIndices
<1> HIDE DEF r
<1>3. \A i \in 2..Len(q) : i - 1 \in 1..(Len(q) - 1) /\ r[i - 1] = q[i] /\ q[i] # q[1]
  BY <1>1, <1>2 DEF Distinct
<1>4. InQueue(r) = InQueue(q) \ {Head(q)}
  BY <1>1, <1>2, <1>3
<1>5. Distinct(r)
  BY SMTT(60), <1>1, <1>2 DEF Distinct
<1>6. QED
  BY <1>1, <1>2, <1>4, <1>5 DEF r

LEMMA InQueueDropLast ==
    ASSUME NEW S, NEW q \in Seq(S), q # <<>>, Distinct(q)
    PROVE  /\ InQueue(SubSeq(q, 1, Len(q) - 1)) = InQueue(q) \ {q[Len(q)]}
           /\ q[Len(q)] \in InQueue(q) /\ Distinct(SubSeq(q, 1, Len(q) - 1))
<1> DEFINE r == SubSeq(q, 1, Len(q) - 1)
<1>1. /\ r \in Seq(S) /\ Len(r) = Len(q) - 1 /\ \A i \in 1..(Len(q) - 1) : r[i] = q[i]
      /\ Len(q) \in Nat \ {0}
  BY DropLastType
<1> HIDE DEF r
<1>2. /\ DOMAIN r = 1..(Len(q) - 1) /\ DOMAIN q = 1..Len(q)
      /\ InQueue(r) = {r[i] : i \in 1..(Len(q) - 1)} /\ InQueue(q) = {q[i] : i \in 1..Len(q)}
  BY <1>1, InQueueIndices
<1>3. \A i \in 1..(Len(q) - 1) : q[i] # q[Len(q)]
  BY <1>1, <1>2 DEF Distinct
<1>4. InQueue(r) = InQueue(q) \ {q[Len(q)]}
  BY <1>1, <1>2, <1>3
<1>5. Distinct(r)
  BY <1>1, <1>2 DEF Distinct
<1>6. QED
  BY <1>1, <1>2, <1>4, <1>5 DEF r

LEMMA InQueueEvict ==
    ASSUME NEW S, NEW q \in Seq(S), Distinct(q)
    PROVE  /\ Evict(q) \in Seq(S) /\ Distinct(Evict(q))
           /\ InQueue(Evict(q)) \subseteq InQueue(q)
           /\ q # <<>> => InQueue(q) \ InQueue(Evict(q)) = {Head(q)}
           /\ q = <<>> => InQueue(q) = {}
  BY EvictType, InQueueTail, InQueueIndices, EmptySeq DEF Evict

-----------------------------------------------------------------------------
(* The steps of the queue alone, without the fairness: what a composition of *)
(* the queue with something else can be shown to take.                       *)
Steps == Init /\ [][Next]_vars

LEMMA RecordDropType ==
    ASSUME TypeOK, NEW victims \in SUBSET TaskIds, RecordDrop(victims)
    PROVE  /\ dropped' \subseteq TaskIds
           /\ droppedSinceWarning' \in Nat /\ reported' \in Nat
           /\ sinceWarn' \in 0..WarnInterval
  BY QueueAssumption DEF QueueAssumption, TypeOK, RecordDrop

LEMMA TypeHolds == Steps => []TypeOK
<1> USE QueueAssumption DEF QueueAssumption, TaskIds, NoTask
<1>1. Init => TypeOK
  <2>1. << >> \in Seq(TaskIds)
    BY EmptySeq
  <2>2. SUFFICES ASSUME Init PROVE TypeOK
    OBVIOUS
  <2>3. tasks \in Seq(TaskIds) /\ held \in Seq(TaskIds)
    BY <2>1, <2>2 DEF Init
  <2>4. owed \in [Flushes -> SUBSET TaskIds]
    BY <2>2 DEF Init
  <2>5. /\ awaiting \in TaskIds \cup {NoTask} /\ submitted \in 0..MaxTasks
        /\ sinceWarn \in 0..WarnInterval /\ droppedSinceWarning \in Nat /\ reported \in Nat
    BY <2>2 DEF Init
  <2>6. QED
    BY <2>2, <2>3, <2>4, <2>5 DEF Init, TypeOK
<1>2. TypeOK /\ [Next]_vars => TypeOK'
  <2> SUFFICES ASSUME TypeOK, [Next]_vars PROVE TypeOK'
    OBVIOUS
  <2> USE DEF TypeOK
  <2>1. CASE Enqueue
    <3>1. submitted + 1 \in TaskIds /\ submitted' \in 0..MaxTasks
      BY <2>1 DEF Enqueue
    <3>2. Evict(tasks) \in Seq(TaskIds)
      BY EvictType
    <3>3. Append(tasks, submitted + 1) \in Seq(TaskIds)
          /\ Append(Evict(tasks), submitted + 1) \in Seq(TaskIds)
          /\ Append(held, submitted + 1) \in Seq(TaskIds)
      BY <3>1, <3>2
    <3>4. CASE Accept(submitted + 1)
      BY <2>1, <3>1, <3>3, <3>4
         DEF Enqueue, Accept, Push, dropVars, runVars, drainVars, flushVars
    <3>5. CASE DropNewest(submitted + 1)
      BY <2>1, <3>1, <3>5, RecordDropType
         DEF Enqueue, DropNewest, queueVars, runVars, drainVars, flushVars
    <3>6. CASE Block(submitted + 1)
      BY <2>1, <3>1, <3>6
         DEF Enqueue, Block, RunInline, queueVars, dropVars, drainVars, flushVars
    <3>7. CASE DropOldest(submitted + 1)
      <4>1. InQueue(tasks) \subseteq TaskIds
        BY DEF InQueue
      <4>2. RecordDrop(InQueue(tasks) \ InQueue(Evict(tasks)))
            /\ UNCHANGED <<policy, runVars, drainVars, flushVars>>
        BY <2>1, <3>7 DEF Enqueue, DropOldest
      <4>3. tasks' \in Seq(TaskIds) /\ held' \in Seq(TaskIds) /\ scheduled' \in BOOLEAN
        BY <3>2, <3>3, <3>7 DEF DropOldest, Push
      <4>4. QED
        BY <3>1, <4>1, <4>2, <4>3, RecordDropType DEF runVars, drainVars, flushVars
    <3>8. QED
      BY <2>1, <3>4, <3>5, <3>6, <3>7 DEF Enqueue
  <2>2. CASE OnDropReturns
    <3>1. held[Len(held)] \in TaskIds /\ SubSeq(held, 1, Len(held) - 1) \in Seq(TaskIds)
      BY <2>2, DropLastType DEF OnDropReturns
    <3>2. QED
      BY <2>2, <3>1 DEF OnDropReturns, Push, drainVars, dropVars, runVars, flushVars
  <2>3. ASSUME NEW f \in Flushes, Flush(f) PROVE TypeOK'
    <3>1. Owed \subseteq TaskIds
      BY DEF Owed, InQueue
    <3>2. QED
      BY <2>3, <3>1 DEF Flush, drainVars, dropVars, runVars
  <2>4. DrainLoop => /\ tasks' \in Seq(TaskIds) /\ awaiting' \in TaskIds \cup {NoTask}
                     /\ started' \subseteq TaskIds /\ draining' \in BOOLEAN
                     /\ idleWaiters' \subseteq Flushes /\ resolved' \subseteq Flushes
    <3>1. CASE StartNext
      <4>1. Head(tasks) \in TaskIds /\ Tail(tasks) \in Seq(TaskIds)
        BY <3>1, HeadTailProperties DEF StartNext
      <4>2. QED
        BY <3>1, <4>1 DEF StartNext
    <3>2. CASE Finish
      BY <3>2 DEF Finish
    <3>3. QED
      BY <3>1, <3>2 DEF DrainLoop
  <2>5. CASE RunScheduled
    BY <2>4, <2>5 DEF RunScheduled, dropVars, runVars, drainVars
  <2>6. CASE ResumeDrain
    BY <2>4, <2>6 DEF ResumeDrain, dropVars, runVars
  <2>7. ASSUME NEW t \in TaskIds, Settle(t) PROVE TypeOK'
    BY <2>7 DEF Settle, queueVars, drainVars, dropVars, flushVars
  <2>8. CASE Tick
    BY <2>8 DEF Tick, queueVars, drainVars, runVars, flushVars
  <2>9. CASE UNCHANGED vars
    BY <2>9 DEF vars, queueVars, drainVars, dropVars, runVars, flushVars
  <2>10. QED
    BY <2>1, <2>2, <2>3, <2>5, <2>6, <2>7, <2>8, <2>9 DEF Next
<1>3. QED
  BY <1>1, <1>2, PTL DEF Steps

\* Type correctness.
THEOREM TypeCorrect == Spec => []TypeOK
  BY TypeHolds, PTL DEF Spec, Steps

-----------------------------------------------------------------------------
LEMMA NothingStrandedHolds == Steps => []NothingStranded
<1>1. Init => NothingStranded
  BY DEF Init, NothingStranded
<1>2. TypeOK /\ NothingStranded /\ [Next]_vars => NothingStranded'
  <2> SUFFICES ASSUME TypeOK, NothingStranded, [Next]_vars PROVE NothingStranded'
    OBVIOUS
  <2> USE DEF NothingStranded
  <2>1. CASE Enqueue
    <3>1. UNCHANGED <<draining, idleWaiters>>
      BY <2>1 DEF Enqueue, drainVars, flushVars
    <3>2. scheduled' \/ (scheduled' = scheduled /\ (tasks' # <<>> => tasks # <<>>))
      BY <2>1 DEF Enqueue, Accept, DropNewest, Block, DropOldest, Push, Evict, queueVars
    <3>3. QED
      BY <3>1, <3>2
  <2>2. CASE OnDropReturns
    BY <2>2 DEF OnDropReturns, Push
  <2>3. ASSUME NEW f \in Flushes, Flush(f) PROVE NothingStranded'
    BY <2>3 DEF Flush, drainVars
  <2>4. DrainLoop => draining' \/ (tasks' = <<>> /\ idleWaiters' = {})
    BY DEF DrainLoop, StartNext, Finish
  <2>5. CASE RunScheduled
    BY <2>4, <2>5 DEF RunScheduled, MayDrain, drainVars
  <2>6. CASE ResumeDrain
    BY <2>4, <2>6 DEF ResumeDrain
  <2>7. ASSUME NEW t \in TaskIds, Settle(t) PROVE NothingStranded'
    BY <2>7 DEF Settle, queueVars, drainVars, flushVars
  <2>8. CASE Tick
    BY <2>8 DEF Tick, queueVars, drainVars, flushVars
  <2>9. CASE UNCHANGED vars
    BY <2>9 DEF vars, queueVars, drainVars, flushVars
  <2>10. QED
    BY <2>1, <2>2, <2>3, <2>5, <2>6, <2>7, <2>8, <2>9 DEF Next
<1>3. QED
  BY <1>1, <1>2, TypeHolds, PTL DEF Steps

\* No lost wakeup: whatever waits for a drain has one running or scheduled.
THEOREM NothingIsStranded == Spec => []NothingStranded
  BY NothingStrandedHolds, PTL DEF Spec, Steps

-----------------------------------------------------------------------------
(* While enqueue() is inside onDrop, the task it holds still counts against *)
(* the bound: the eviction made room for it.  A callback that logs takes    *)
(* that room, so the bound needs OnDropLogs = FALSE; with maxSize 0 the     *)
(* eviction makes no room at all.                                           *)
RoomIsKept == Len(tasks) + Len(held) <= MaxSize

\* The queue never holds more than maxSize tasks, given a maxSize of at least
\* one and an onDrop that does not log to this queue.
THEOREM SizeIsBounded ==
    ASSUME MaxSize > 0, ~OnDropLogs
    PROVE  Spec => []SizeWithinMax
<1> USE QueueAssumption DEF QueueAssumption, RoomIsKept
<1>1. Init => RoomIsKept
  BY EmptySeq DEF Init
<1>2. TypeOK /\ RoomIsKept /\ [Next]_vars => RoomIsKept'
  <2> SUFFICES ASSUME TypeOK, RoomIsKept, [Next]_vars PROVE RoomIsKept'
    OBVIOUS
  <2>1. tasks \in Seq(TaskIds) /\ held \in Seq(TaskIds) /\ Len(tasks) \in Nat /\ Len(held) \in Nat
    BY LenProperties DEF TypeOK
  <2>2. CASE Enqueue
    <3> DEFINE t == submitted + 1
    <3>1. held = <<>> /\ Len(held) = 0 /\ t \in TaskIds
      BY <2>2 DEF Enqueue, TypeOK, TaskIds
    <3>2. /\ Len(Append(tasks, t)) = Len(tasks) + 1
          /\ Evict(tasks) \in Seq(TaskIds)
          /\ Len(Evict(tasks)) = IF tasks = <<>> THEN 0 ELSE Len(tasks) - 1
          /\ Len(Append(Evict(tasks), t)) = Len(Evict(tasks)) + 1
          /\ Len(Append(held, t)) = 1
      BY <2>1, <3>1, EvictType, AppendProperties
    <3> HIDE DEF t
    <3>3. CASE Accept(t)
      BY <2>1, <3>1, <3>2, <3>3 DEF Accept, HasRoom, Push
    <3>4. CASE DropNewest(t) \/ Block(t)
      BY <2>1, <3>4 DEF DropNewest, Block, queueVars
    <3>5. CASE DropOldest(t)
      <4>1. tasks # <<>>
        BY <2>1, <3>5, EmptySeq DEF DropOldest, HasRoom
      <4>2. Len(Evict(tasks)) = Len(tasks) - 1
        BY <3>2, <4>1
      <4>3. CASE WarnDue
        <5>1. tasks' = Evict(tasks) /\ held' = Append(held, t)
          BY <3>5, <4>3 DEF DropOldest
        <5>2. QED
          BY <2>1, <3>1, <3>2, <4>2, <5>1
      <4>4. CASE ~WarnDue
        <5>1. tasks' = Append(Evict(tasks), t) /\ held' = held
          BY <3>5, <4>4 DEF DropOldest, Push
        <5>2. QED
          BY <2>1, <3>1, <3>2, <4>2, <5>1
      <4>5. QED
        BY <4>3, <4>4
    <3>6. QED
      BY <2>2, <3>3, <3>4, <3>5 DEF Enqueue, t
  <2>3. CASE OnDropReturns
    <3>1. /\ held # <<>> /\ tasks' = Append(tasks, held[Len(held)])
          /\ held' = SubSeq(held, 1, Len(held) - 1)
      BY <2>3 DEF OnDropReturns, Push
    <3>2. Len(tasks') = Len(tasks) + 1 /\ Len(held') = Len(held) - 1
      BY <2>1, <3>1, DropLastType, AppendProperties
    <3>3. QED
      BY <2>1, <3>2
  <2>4. ASSUME NEW f \in Flushes, Flush(f) PROVE RoomIsKept'
    BY <2>4 DEF Flush
  <2>5. DrainLoop => Len(tasks') \in Nat /\ Len(tasks') <= Len(tasks)
    BY <2>1, HeadTailProperties DEF DrainLoop, StartNext, Finish
  <2>6. CASE RunScheduled
    BY <2>1, <2>5, <2>6 DEF RunScheduled
  <2>7. CASE ResumeDrain
    BY <2>1, <2>5, <2>7 DEF ResumeDrain
  <2>8. ASSUME NEW u \in TaskIds, Settle(u) PROVE RoomIsKept'
    BY <2>8 DEF Settle, queueVars
  <2>9. CASE Tick
    BY <2>9 DEF Tick, queueVars
  <2>10. CASE UNCHANGED vars
    BY <2>10 DEF vars, queueVars
  <2>11. QED
    BY <2>2, <2>3, <2>4, <2>6, <2>7, <2>8, <2>9, <2>10 DEF Next
<1>3. TypeOK /\ RoomIsKept => SizeWithinMax
  BY LenProperties DEF TypeOK, SizeWithinMax
<1>4. QED
  BY <1>1, <1>2, <1>3, TypeCorrect, PTL DEF Spec

-----------------------------------------------------------------------------
LEMMA NextTask ==
    ASSUME TypeOK, EachTaskOnce, submitted < MaxTasks
    PROVE  /\ submitted + 1 \in TaskIds
           /\ 1..(submitted + 1) = (1..submitted) \cup {submitted + 1}
           /\ submitted + 1 \notin InQueue(tasks) \cup InQueue(held) \cup Gone
<1>1. submitted \in Nat /\ MaxTasks \in Nat
  BY QueueAssumption DEF QueueAssumption, TypeOK
<1>2. submitted + 1 \in TaskIds /\ submitted + 1 \notin 1..submitted
  BY <1>1 DEF TaskIds
<1>3. 1..(submitted + 1) = (1..submitted) \cup {submitted + 1}
  BY <1>1
<1>4. QED
  BY <1>2, <1>3 DEF EachTaskOnce

LEMMA DrainLoopEffect ==
    ASSUME TypeOK, Distinct(tasks), DrainLoop
    PROVE  \/ /\ tasks # <<>> /\ tasks' = Tail(tasks) /\ awaiting' = Head(tasks)
              /\ InQueue(tasks') = InQueue(tasks) \ {awaiting'}
              /\ awaiting' \in InQueue(tasks) /\ Distinct(tasks')
              /\ started' = started \cup {awaiting'}
              /\ draining' = TRUE /\ idleWaiters' = idleWaiters /\ resolved' = resolved
           \/ /\ InQueue(tasks) = {} /\ awaiting' = NoTask
              /\ draining' = FALSE /\ idleWaiters' = {}
              /\ resolved' = resolved \cup idleWaiters
              /\ UNCHANGED <<tasks, started>>
<1>1. CASE StartNext
  <2>1. /\ InQueue(Tail(tasks)) = InQueue(tasks) \ {Head(tasks)}
        /\ Head(tasks) \in InQueue(tasks) /\ Distinct(Tail(tasks))
    BY <1>1, InQueueTail DEF StartNext, TypeOK
  <2>2. QED
    BY <1>1, <2>1 DEF StartNext
<1>2. CASE Finish
  <2>1. InQueue(tasks) = {}
    BY <1>2, EmptySeq DEF Finish, InQueue
  <2>2. QED
    BY <1>2, <2>1 DEF Finish
<1>3. QED
  BY <1>1, <1>2 DEF DrainLoop

LEMMA EachTaskOnceHolds == Steps => []EachTaskOnce
<1>1. Init => EachTaskOnce
  <2> SUFFICES ASSUME Init PROVE EachTaskOnce
    OBVIOUS
  <2>1. InQueue(<<>>) = {} /\ Distinct(<<>>) /\ 1..0 = {}
    BY EmptySeq DEF InQueue, Distinct
  <2>2. QED
    BY <2>1 DEF Init, EachTaskOnce, Gone
<1>2. TypeOK /\ EachTaskOnce /\ [Next]_vars => EachTaskOnce'
  <2> SUFFICES ASSUME TypeOK, EachTaskOnce, [Next]_vars PROVE EachTaskOnce'
    OBVIOUS
  <2>1. /\ tasks \in Seq(TaskIds) /\ held \in Seq(TaskIds)
        /\ Distinct(tasks) /\ Distinct(held)
    BY DEF TypeOK, EachTaskOnce
  <2>2. CASE Enqueue
    <3> DEFINE t == submitted + 1
    <3>1. /\ t \in TaskIds /\ 1..submitted' = (1..submitted) \cup {t}
          /\ t \notin InQueue(tasks) \cup InQueue(held) \cup Gone
          /\ started' = started
      BY <2>2, NextTask DEF Enqueue, drainVars
    <3> HIDE DEF t
    <3>2. CASE Accept(t)
      <4>1. tasks' = Append(tasks, t) /\ UNCHANGED <<held, inlined, dropped>>
        BY <3>2 DEF Accept, Push, dropVars, runVars
      <4>2. InQueue(tasks') = InQueue(tasks) \cup {t} /\ Distinct(tasks')
        BY <2>1, <3>1, <4>1, InQueueAppend
      <4>3. QED
        BY <3>1, <4>1, <4>2 DEF EachTaskOnce, Gone
    <3>3. CASE DropNewest(t)
      <4>1. dropped' = dropped \cup {t} /\ UNCHANGED <<tasks, held, inlined>>
        BY <3>3 DEF DropNewest, RecordDrop, queueVars, runVars
      <4>2. QED
        BY <3>1, <4>1 DEF EachTaskOnce, Gone
    <3>4. CASE Block(t)
      <4>1. inlined' = inlined \cup {t} /\ UNCHANGED <<tasks, held, dropped>>
        BY <3>4 DEF Block, RunInline, queueVars, dropVars
      <4>2. QED
        BY <3>1, <4>1 DEF EachTaskOnce, Gone
    <3>5. CASE DropOldest(t)
      <4> DEFINE kept == Evict(tasks)
      <4>1. /\ dropped' = dropped \cup (InQueue(tasks) \ InQueue(kept))
            /\ inlined' = inlined
            /\ \/ tasks' = kept /\ held' = Append(held, t)
               \/ tasks' = Append(kept, t) /\ held' = held
        BY <3>5 DEF DropOldest, RecordDrop, Push, runVars
      <4>2. kept \in Seq(TaskIds) /\ Distinct(kept) /\ InQueue(kept) \subseteq InQueue(tasks)
        BY <2>1, InQueueEvict
      <4> HIDE DEF kept
      <4>3. /\ InQueue(Append(held, t)) = InQueue(held) \cup {t} /\ Distinct(Append(held, t))
            /\ InQueue(Append(kept, t)) = InQueue(kept) \cup {t} /\ Distinct(Append(kept, t))
        BY <2>1, <3>1, <4>2, InQueueAppend
      <4>4. CASE tasks' = kept /\ held' = Append(held, t)
        BY <3>1, <4>1, <4>2, <4>3, <4>4 DEF EachTaskOnce, Gone
      <4>5. CASE tasks' = Append(kept, t) /\ held' = held
        BY <3>1, <4>1, <4>2, <4>3, <4>5 DEF EachTaskOnce, Gone
      <4>6. QED
        BY <4>1, <4>4, <4>5
    <3>6. QED
      BY <2>2, <3>2, <3>3, <3>4, <3>5 DEF Enqueue, t
  <2>3. CASE OnDropReturns
    <3> DEFINE t == held[Len(held)]
    <3>1. /\ held # <<>> /\ tasks' = Append(tasks, t)
          /\ held' = SubSeq(held, 1, Len(held) - 1)
          /\ UNCHANGED <<submitted, started, inlined, dropped>>
      BY <2>3 DEF OnDropReturns, Push, drainVars, dropVars, runVars
    <3>2. /\ InQueue(held') = InQueue(held) \ {t} /\ t \in InQueue(held)
          /\ Distinct(held') /\ t \in TaskIds
      BY <2>1, <3>1, InQueueDropLast, DropLastType
    <3> HIDE DEF t
    <3>3. InQueue(tasks') = InQueue(tasks) \cup {t} /\ Distinct(tasks')
      BY <2>1, <3>1, <3>2, InQueueAppend DEF EachTaskOnce
    <3>4. QED
      BY <3>1, <3>2, <3>3 DEF EachTaskOnce, Gone
  <2>4. ASSUME NEW f \in Flushes, Flush(f) PROVE EachTaskOnce'
    BY <2>4 DEF Flush, drainVars, dropVars, runVars, EachTaskOnce, Gone
  <2>5. ASSUME DrainLoop, UNCHANGED <<held, dropped, inlined, submitted>> PROVE EachTaskOnce'
    <3>1. \/ /\ InQueue(tasks') = InQueue(tasks) \ {awaiting'}
             /\ awaiting' \in InQueue(tasks) /\ Distinct(tasks')
             /\ started' = started \cup {awaiting'}
          \/ UNCHANGED <<tasks, started>>
      BY <2>1, <2>5, DrainLoopEffect
    <3>2. QED
      BY <2>5, <3>1 DEF EachTaskOnce, Gone
  <2>6. CASE RunScheduled
    <3>1. UNCHANGED <<held, dropped, inlined, submitted>>
      BY <2>6 DEF RunScheduled, dropVars, runVars
    <3>2. CASE MayDrain
      BY <2>5, <2>6, <3>1, <3>2 DEF RunScheduled
    <3>3. CASE ~MayDrain
      BY <2>6, <3>1, <3>3 DEF RunScheduled, drainVars, EachTaskOnce, Gone
    <3>4. QED
      BY <3>2, <3>3
  <2>7. CASE ResumeDrain
    BY <2>5, <2>7 DEF ResumeDrain, dropVars, runVars
  <2>8. ASSUME NEW u \in TaskIds, Settle(u) PROVE EachTaskOnce'
    BY <2>8 DEF Settle, queueVars, drainVars, dropVars, EachTaskOnce, Gone
  <2>9. CASE Tick
    BY <2>9 DEF Tick, queueVars, drainVars, runVars, EachTaskOnce, Gone
  <2>10. CASE UNCHANGED vars
    BY <2>10 DEF vars, queueVars, drainVars, dropVars, runVars, EachTaskOnce, Gone
  <2>11. QED
    BY <2>2, <2>3, <2>4, <2>6, <2>7, <2>8, <2>9, <2>10 DEF Next
<1>3. QED
  BY <1>1, <1>2, TypeHolds, PTL DEF Steps

\* No task is lost, run twice, or both run and dropped.
THEOREM EachTaskGoesOnce == Spec => []EachTaskOnce
  BY EachTaskOnceHolds, PTL DEF Spec, Steps

-----------------------------------------------------------------------------
LEMMA DroppedIsFinite ==
    ASSUME TypeOK PROVE IsFiniteSet(dropped) /\ Cardinality(dropped) \in Nat
<1>1. IsFiniteSet(TaskIds)
  BY QueueAssumption, FS_Interval DEF QueueAssumption, TaskIds
<1>2. QED
  BY <1>1, FS_Subset, FS_CardinalityType DEF TypeOK

LEMMA RecordDropCounts ==
    ASSUME TypeOK, DropsAccounted, NEW t \in TaskIds, t \notin dropped, RecordDrop({t})
    PROVE  Cardinality(dropped') = reported' + droppedSinceWarning'
<1>1. Cardinality(dropped') = Cardinality(dropped) + 1
  BY DroppedIsFinite, FS_AddElement DEF RecordDrop
<1>2. QED
  BY <1>1, DroppedIsFinite DEF TypeOK, DropsAccounted, RecordDrop

\* Every drop is counted once, and told to onDrop or kept for its next call;
\* "block" drops nothing.  With maxSize 0 an eviction that evicts nothing is
\* counted, so the theorem asks for room for one task.
THEOREM DropsAreAccounted ==
    ASSUME MaxSize > 0
    PROVE  Spec => []DropsAccounted
<1>1. Init => DropsAccounted
  BY FS_EmptySet DEF Init, DropsAccounted
<1>2. TypeOK /\ EachTaskOnce /\ DropsAccounted /\ [Next]_vars => DropsAccounted'
  <2> SUFFICES ASSUME TypeOK, EachTaskOnce, DropsAccounted, [Next]_vars
               PROVE  DropsAccounted'
    OBVIOUS
  <2>1. ASSUME UNCHANGED <<policy, dropVars>> PROVE DropsAccounted'
    BY <2>1 DEF dropVars, DropsAccounted
  <2>2. CASE Enqueue
    <3> DEFINE t == submitted + 1
    <3>1. t \in TaskIds /\ t \notin dropped /\ policy' = policy
      BY <2>2, NextTask DEF Enqueue, Gone
    <3> HIDE DEF t
    <3>2. CASE Accept(t) \/ Block(t)
      BY <2>1, <3>1, <3>2 DEF Accept, Block
    <3>3. CASE DropNewest(t)
      <4>1. policy' # "block"
        BY <3>1, <3>3 DEF DropNewest
      <4>2. QED
        BY <3>1, <3>3, <4>1, RecordDropCounts DEF DropNewest, DropsAccounted
    <3>4. CASE DropOldest(t)
      <4>1. tasks \in Seq(TaskIds) /\ Distinct(tasks) /\ policy' # "block"
        BY <3>1, <3>4 DEF TypeOK, EachTaskOnce, DropOldest
      <4>2. tasks # <<>>
        BY <3>4, QueueAssumption, EmptySeq DEF QueueAssumption, DropOldest, HasRoom
      <4>3. /\ InQueue(tasks) \ InQueue(Evict(tasks)) = {Head(tasks)}
            /\ Head(tasks) \in TaskIds /\ Head(tasks) \in InQueue(tasks)
        BY <4>1, <4>2, InQueueEvict, InQueueTail, HeadTailProperties
      <4>4. Head(tasks) \notin dropped
        BY <4>3 DEF EachTaskOnce, Gone
      <4>5. RecordDrop({Head(tasks)})
        BY <3>4, <4>3 DEF DropOldest
      <4>6. QED
        BY <4>1, <4>3, <4>4, <4>5, RecordDropCounts DEF DropsAccounted
    <3>5. QED
      BY <2>2, <3>2, <3>3, <3>4 DEF Enqueue, t
  <2>3. CASE Tick
    BY <2>3 DEF Tick, DropsAccounted
  <2>4. CASE OnDropReturns \/ RunScheduled \/ ResumeDrain
    BY <2>1, <2>4 DEF OnDropReturns, RunScheduled, ResumeDrain
  <2>5. CASE UNCHANGED vars
    BY <2>1, <2>5 DEF vars
  <2>6. ASSUME NEW f \in Flushes, Flush(f) PROVE DropsAccounted'
    BY <2>1, <2>6 DEF Flush
  <2>7. ASSUME NEW t \in TaskIds, Settle(t) PROVE DropsAccounted'
    BY <2>1, <2>7 DEF Settle
  <2>8. QED
    BY <2>2, <2>3, <2>4, <2>5, <2>6, <2>7 DEF Next
<1>3. QED
  BY <1>1, <1>2, TypeCorrect, EachTaskGoesOnce, PTL DEF Spec

-----------------------------------------------------------------------------
(* The strengthening of FlushKeepsPromise: what a waiting flush() is owed is *)
(* either over, or in the hands of the drain that will resolve it.           *)
AwaitsOnlyInDrain == ~draining => awaiting = NoTask

FlushInv ==
    /\ AwaitsOnlyInDrain
    /\ idleWaiters \subseteq called /\ resolved \subseteq called
    /\ \A f \in idleWaiters : owed[f] \subseteq settled \cup dropped \cup Owed
    /\ FlushKeepsPromise

LEMMA DrainKeepsFlushInv ==
    ASSUME TypeOK, EachTaskOnce, FlushInv, DrainLoop,
           draining => awaiting \in settled,
           UNCHANGED <<settled, dropped, called, owed>>
    PROVE  FlushInv'
<1>1. /\ idleWaiters' \subseteq idleWaiters /\ resolved' \subseteq resolved \cup idleWaiters
      /\ AwaitsOnlyInDrain'
  BY DrainLoopEffect DEF EachTaskOnce, AwaitsOnlyInDrain
<1>2. Owed \subseteq settled' \cup Owed'
  <2>1. {awaiting} \ {NoTask} \subseteq settled'
    BY DEF FlushInv, AwaitsOnlyInDrain
  <2>2. InQueue(tasks) \subseteq Owed'
    <3>1. NoTask \notin InQueue(tasks)
      BY InQueueIndices, QueueAssumption DEF QueueAssumption, TypeOK, TaskIds, NoTask
    <3>2. QED
      BY <3>1, DrainLoopEffect DEF EachTaskOnce, Owed
  <2>3. QED
    BY <2>1, <2>2 DEF Owed
<1>3. ASSUME NEW f \in resolved' \ resolved PROVE owed'[f] \subseteq settled' \cup dropped'
  <2>1. Owed' = {} /\ f \in idleWaiters
    BY <1>3, DrainLoopEffect DEF EachTaskOnce, Owed
  <2>2. QED
    BY <1>2, <2>1 DEF FlushInv
<1>4. QED
  BY <1>1, <1>2, <1>3 DEF FlushInv, FlushKeepsPromise

LEMMA FlushInvHolds == Steps => []FlushInv
<1>1. Init => FlushInv
  BY DEF Init, FlushInv, AwaitsOnlyInDrain, FlushKeepsPromise
<1>2. TypeOK /\ EachTaskOnce /\ FlushInv /\ [Next]_vars => FlushInv'
  <2> SUFFICES ASSUME TypeOK, EachTaskOnce, FlushInv, [Next]_vars PROVE FlushInv'
    OBVIOUS
  <2>1. ASSUME UNCHANGED <<draining, awaiting, flushVars>>, settled \subseteq settled',
               dropped \subseteq dropped', InQueue(tasks) \subseteq InQueue(tasks') \cup dropped'
        PROVE  FlushInv'
    BY <2>1 DEF FlushInv, FlushKeepsPromise, AwaitsOnlyInDrain, Owed, flushVars
  <2>2. CASE Enqueue
    <3> DEFINE t == submitted + 1
    <3>1. t \in TaskIds /\ tasks \in Seq(TaskIds) /\ UNCHANGED <<draining, awaiting, flushVars>>
      BY <2>2, NextTask DEF Enqueue, drainVars, TypeOK
    <3> HIDE DEF t
    <3>2. /\ InQueue(Append(tasks, t)) = InQueue(tasks) \cup {t}
          /\ InQueue(Append(Evict(tasks), t)) = InQueue(Evict(tasks)) \cup {t}
      BY <3>1, EvictType, InQueueAppend
    <3>3. CASE Accept(t)
      BY <2>1, <3>1, <3>2, <3>3 DEF Accept, Push, dropVars, runVars
    <3>4. CASE DropNewest(t)
      BY <2>1, <3>1, <3>4 DEF DropNewest, RecordDrop, queueVars, runVars
    <3>5. CASE Block(t)
      BY <2>1, <3>1, <3>5 DEF Block, RunInline, queueVars, dropVars
    <3>6. CASE DropOldest(t)
      <4>1. /\ dropped' = dropped \cup (InQueue(tasks) \ InQueue(Evict(tasks)))
            /\ settled' = settled
            /\ tasks' = Evict(tasks) \/ tasks' = Append(Evict(tasks), t)
        BY <3>6 DEF DropOldest, RecordDrop, Push, runVars
      <4>2. QED
        BY <2>1, <3>1, <3>2, <4>1
    <3>7. QED
      BY <2>2, <3>3, <3>4, <3>5, <3>6 DEF Enqueue, t
  <2>3. CASE OnDropReturns
    <3> DEFINE t == held[Len(held)]
    <3>1. t \in TaskIds /\ tasks \in Seq(TaskIds)
      BY <2>3, DropLastType DEF OnDropReturns, TypeOK
    <3>2. tasks' = Append(tasks, t) /\ UNCHANGED <<draining, awaiting, flushVars, settled, dropped>>
      BY <2>3 DEF OnDropReturns, Push, drainVars, dropVars, runVars
    <3> HIDE DEF t
    <3>3. QED
      BY <2>1, <3>1, <3>2, InQueueAppend
  <2>4. ASSUME NEW f \in Flushes, Flush(f) PROVE FlushInv'
    <3>1. /\ f \notin called /\ called' = called \cup {f}
          /\ owed' = [owed EXCEPT ![f] = Owed]
          /\ UNCHANGED <<tasks, draining, awaiting, settled, dropped>>
      BY <2>4 DEF Flush, Owed, drainVars, dropVars, runVars
    <3>2. /\ owed'[f] = Owed
          /\ \A g \in called : owed'[g] = owed[g]
      BY <3>1 DEF TypeOK
    <3>3. CASE Idle
      <4>1. resolved' = resolved \cup {f} /\ idleWaiters' = idleWaiters
        BY <2>4, <3>3 DEF Flush
      <4>2. Owed = {}
        BY <3>3 DEF Idle, FlushInv, AwaitsOnlyInDrain, Owed, InQueue
      <4>3. QED
        BY <3>1, <3>2, <4>1, <4>2 DEF FlushInv, FlushKeepsPromise, AwaitsOnlyInDrain, Owed
    <3>4. CASE ~Idle
      <4>1. resolved' = resolved /\ idleWaiters' = idleWaiters \cup {f}
        BY <2>4, <3>4 DEF Flush
      <4>2. QED
        BY <3>1, <3>2, <4>1 DEF FlushInv, FlushKeepsPromise, AwaitsOnlyInDrain, Owed
    <3>5. QED
      BY <3>3, <3>4
  <2>5. CASE RunScheduled
    <3>1. UNCHANGED <<settled, dropped, called, owed>>
      BY <2>5 DEF RunScheduled, dropVars, runVars
    <3>2. CASE MayDrain
      BY <2>5, <3>1, <3>2, DrainKeepsFlushInv DEF RunScheduled, MayDrain
    <3>3. CASE ~MayDrain
      BY <2>1, <2>5, <3>1, <3>3 DEF RunScheduled, drainVars, flushVars
    <3>4. QED
      BY <3>2, <3>3
  <2>6. CASE ResumeDrain
    BY <2>6, DrainKeepsFlushInv DEF ResumeDrain, AwaitOver, dropVars, runVars
  <2>7. ASSUME NEW u \in TaskIds, Settle(u) PROVE FlushInv'
    BY <2>1, <2>7 DEF Settle, queueVars, drainVars, dropVars
  <2>8. CASE Tick
    BY <2>1, <2>8 DEF Tick, queueVars, drainVars, runVars
  <2>9. CASE UNCHANGED vars
    BY <2>1, <2>9 DEF vars, queueVars, drainVars, dropVars, runVars
  <2>10. QED
    BY <2>2, <2>3, <2>4, <2>5, <2>6, <2>7, <2>8, <2>9 DEF Next
<1>3. QED
  BY <1>1, <1>2, TypeHolds, EachTaskOnceHolds, PTL DEF Steps

\* A flush() that has resolved left nothing it was called after unfinished.
THEOREM FlushPromisesKept == Spec => []FlushKeepsPromise
<1>1. FlushInv => FlushKeepsPromise
  BY DEF FlushInv
<1>2. QED
  BY <1>1, FlushInvHolds, PTL DEF Spec, Steps

-----------------------------------------------------------------------------
(* Tasks waiting are in the order they were enqueued, after every task a    *)
(* drain has started.  A task held by enqueue() during onDrop is the newest *)
(* of all: no other call has come in, unless onDrop itself logs.            *)
OrderInv ==
    /\ AwaitsOnlyInDrain
    /\ Len(held) <= 1
    /\ \A i, j \in DOMAIN tasks : i < j => tasks[i] < tasks[j]
    /\ \A s \in started, q \in InQueue(tasks) \cup InQueue(held) : s < q
    /\ \A q \in InQueue(tasks), h \in InQueue(held) : q < h

Ascending(q) == \A i, j \in DOMAIN q : i < j => q[i] < q[j]

LEMMA AscendingAppend ==
    ASSUME NEW q \in Seq(TaskIds), NEW t \in TaskIds, Ascending(q), \A s \in InQueue(q) : s < t
    PROVE  Ascending(Append(q, t))
<1> DEFINE r == Append(q, t)
<1>1. /\ Len(q) \in Nat /\ DOMAIN q = 1..Len(q) /\ DOMAIN r = 1..(Len(q) + 1)
      /\ r[Len(q) + 1] = t /\ \A i \in 1..Len(q) : r[i] = q[i]
      /\ \A i \in 1..Len(q) : q[i] \in InQueue(q)
  BY AppendProperties, InQueueIndices
<1> HIDE DEF r
<1>2. ASSUME NEW i \in DOMAIN r, NEW j \in DOMAIN r, i < j PROVE r[i] < r[j]
  <2>1. i \in 1..Len(q)
    BY <1>1, <1>2
  <2>2. j \in 1..Len(q) \/ j = Len(q) + 1
    BY <1>1
  <2>3. QED
    BY <1>1, <1>2, <2>1, <2>2 DEF Ascending
<1>3. QED
  BY <1>2 DEF Ascending, r

LEMMA AscendingTail ==
    ASSUME NEW q \in Seq(TaskIds), q # <<>>, Ascending(q)
    PROVE  Ascending(Tail(q)) /\ \A s \in InQueue(Tail(q)) : Head(q) < s
<1> DEFINE r == Tail(q)
<1>0. /\ r \in Seq(TaskIds) /\ Len(r) = Len(q) - 1 /\ \A i \in 1..Len(r) : r[i] = q[i + 1]
      /\ Len(q) \in Nat \ {0} /\ Head(q) = q[1]
  BY HeadTailProperties, EmptySeq
<1> HIDE DEF r
<1>1. /\ Len(q) \in Nat \ {0} /\ DOMAIN q = 1..Len(q) /\ Head(q) = q[1]
      /\ DOMAIN r = 1..(Len(q) - 1) /\ InQueue(r) = {r[i] : i \in 1..(Len(q) - 1)}
      /\ \A i \in 1..(Len(q) - 1) : r[i] = q[i + 1]
  BY <1>0, InQueueIndices
<1>2. Ascending(r)
  BY <1>1 DEF Ascending
<1>3. \A i \in 1..(Len(q) - 1) : q[1] < r[i]
  BY <1>1 DEF Ascending
<1>4. QED
  BY <1>1, <1>2, <1>3 DEF r

\* Drains never overlap, and start tasks in the order they were enqueued.
THEOREM DrainsInOrder ==
    ASSUME ~OnDropLogs
    PROVE  Spec => OneAtATimeInOrder
<1> USE DEF Ascending
<1>1. Init => OrderInv
  <2>1. InQueue(<<>>) = {} /\ DOMAIN <<>> = {} /\ Len(<<>>) = 0
    BY EmptySeq DEF InQueue
  <2>2. QED
    BY <2>1 DEF Init, OrderInv, AwaitsOnlyInDrain
<1>2. TypeOK /\ EachTaskOnce /\ OrderInv /\ [Next]_vars => OrderInv'
  <2> SUFFICES ASSUME TypeOK, EachTaskOnce, OrderInv, [Next]_vars PROVE OrderInv'
    OBVIOUS
  <2>1. /\ tasks \in Seq(TaskIds) /\ held \in Seq(TaskIds)
        /\ Distinct(tasks) /\ Distinct(held) /\ Ascending(tasks)
    BY DEF TypeOK, EachTaskOnce, OrderInv
  <2>2. ASSUME UNCHANGED <<tasks, held, drainVars>> PROVE OrderInv'
    BY <2>2 DEF OrderInv, AwaitsOnlyInDrain, drainVars
  <2>3. CASE Enqueue
    <3> DEFINE t == submitted + 1
    <3>1. /\ t \in TaskIds /\ UNCHANGED drainVars /\ held = <<>> /\ InQueue(held) = {}
          /\ \A s \in InQueue(tasks) \cup started : s < t
      <4>1. InQueue(tasks) \cup started \subseteq 1..submitted
        BY DEF EachTaskOnce, Gone
      <4>2. submitted \in Nat
        BY QueueAssumption DEF QueueAssumption, TypeOK
      <4>3. held = <<>> /\ InQueue(<<>>) = {}
        BY <2>3, EmptySeq DEF Enqueue, InQueue
      <4>4. QED
        BY <2>3, <4>1, <4>2, <4>3, NextTask DEF Enqueue
    <3> HIDE DEF t
    <3>2. CASE Accept(t)
      <4>1. tasks' = Append(tasks, t) /\ held' = held
        BY <3>2 DEF Accept, Push
      <4>2. Ascending(tasks') /\ InQueue(tasks') = InQueue(tasks) \cup {t}
        BY <2>1, <3>1, <4>1, AscendingAppend, InQueueAppend
      <4>3. QED
        BY <3>1, <4>1, <4>2 DEF OrderInv, AwaitsOnlyInDrain, drainVars
    <3>3. CASE DropNewest(t) \/ Block(t)
      BY <2>2, <3>1, <3>3 DEF DropNewest, Block, queueVars
    <3>4. CASE DropOldest(t)
      <4> DEFINE kept == Evict(tasks)
      <4>1. \/ tasks' = kept /\ held' = Append(held, t)
            \/ tasks' = Append(kept, t) /\ held' = held
        BY <3>4 DEF DropOldest, Push
      <4>2. kept \in Seq(TaskIds) /\ InQueue(kept) \subseteq InQueue(tasks) /\ Ascending(kept)
        BY <2>1, InQueueEvict, AscendingTail DEF Evict
      <4> HIDE DEF kept
      <4>3. /\ InQueue(Append(held, t)) = {t} /\ Len(Append(held, t)) = 1
            /\ InQueue(Append(kept, t)) = InQueue(kept) \cup {t} /\ Ascending(Append(kept, t))
        <5>1. InQueue(Append(held, t)) = {t} /\ Len(Append(held, t)) = 1
          <6>1. Append(held, t) = <<t>>
            BY <3>1
          <6>2. QED
            BY <6>1 DEF InQueue
        <5>2. InQueue(Append(kept, t)) = InQueue(kept) \cup {t}
          BY <3>1, <4>2, InQueueAppend
        <5>3. Ascending(Append(kept, t))
          BY <3>1, <4>2, AscendingAppend
        <5>4. QED
          BY <5>1, <5>2, <5>3
      <4>4. CASE tasks' = kept /\ held' = Append(held, t)
        BY <3>1, <4>2, <4>3, <4>4 DEF OrderInv, AwaitsOnlyInDrain, drainVars
      <4>5. CASE tasks' = Append(kept, t) /\ held' = held
        BY <3>1, <4>2, <4>3, <4>5 DEF OrderInv, AwaitsOnlyInDrain, drainVars
      <4>6. QED
        BY <4>1, <4>4, <4>5
    <3>5. QED
      BY <2>3, <3>2, <3>3, <3>4 DEF Enqueue, t
  <2>4. CASE OnDropReturns
    <3> DEFINE t == held[Len(held)]
    <3>1. /\ held # <<>> /\ tasks' = Append(tasks, t) /\ UNCHANGED drainVars
          /\ held' = SubSeq(held, 1, Len(held) - 1)
      BY <2>4 DEF OnDropReturns, Push
    <3>2. /\ t \in TaskIds /\ t \in InQueue(held)
          /\ held' \in Seq(TaskIds) /\ Len(held') = 0
      BY <2>1, <3>1, DropLastType, InQueueDropLast DEF OrderInv
    <3> HIDE DEF t
    <3>3. InQueue(held') = {} /\ \A s \in InQueue(tasks) \cup started : s < t
      <4>1. InQueue(held') = {}
        <5>1. InQueue(held') = {held'[i] : i \in 1..Len(held')}
          BY <3>2, InQueueIndices
        <5>2. 1..Len(held') = {}
          BY <3>2
        <5>3. QED
          BY <5>1, <5>2
      <4>2. QED
        BY <3>2, <4>1 DEF OrderInv
    <3>4. Ascending(tasks') /\ InQueue(tasks') = InQueue(tasks) \cup {t}
      BY SMTT(60), <2>1, <3>1, <3>2, <3>3, AscendingAppend, InQueueAppend
    <3>5. QED
      BY <3>1, <3>2, <3>3, <3>4 DEF OrderInv, AwaitsOnlyInDrain, drainVars
  <2>5. ASSUME DrainLoop, held' = held PROVE OrderInv'
    <3>1. CASE tasks # <<>> /\ tasks' = Tail(tasks) /\ draining'
      <4>1. started' = started \cup {Head(tasks)} /\ Head(tasks) \in InQueue(tasks)
            /\ InQueue(tasks') \subseteq InQueue(tasks)
        BY <2>1, <2>5, <3>1, DrainLoopEffect, EmptySeq DEF InQueue
      <4>2. Ascending(tasks') /\ \A s \in InQueue(tasks') : Head(tasks) < s
        BY <2>1, <3>1, AscendingTail
      <4>3. QED
        BY <2>5, <3>1, <4>1, <4>2 DEF OrderInv, AwaitsOnlyInDrain
    <3>2. CASE awaiting' = NoTask /\ UNCHANGED <<tasks, started>>
      BY <2>5, <3>2 DEF OrderInv, AwaitsOnlyInDrain
    <3>3. QED
      BY <2>1, <2>5, <3>1, <3>2, DrainLoopEffect
  <2>6. CASE RunScheduled
    BY <2>2, <2>5, <2>6 DEF RunScheduled
  <2>7. CASE ResumeDrain
    BY <2>5, <2>7 DEF ResumeDrain
  <2>8. ASSUME NEW f \in Flushes, Flush(f) PROVE OrderInv'
    BY <2>2, <2>8 DEF Flush
  <2>9. ASSUME NEW u \in TaskIds, Settle(u) PROVE OrderInv'
    BY <2>2, <2>9 DEF Settle, queueVars
  <2>10. CASE Tick
    BY <2>2, <2>10 DEF Tick, queueVars
  <2>11. CASE UNCHANGED vars
    BY <2>2, <2>11 DEF vars, queueVars
  <2>12. QED
    BY <2>3, <2>4, <2>6, <2>7, <2>8, <2>9, <2>10, <2>11 DEF Next
<1> DEFINE Step == /\ awaiting \in settled \cup {NoTask}
                   /\ \A t \in started, u \in started' \ started : t < u
<1>3. TypeOK /\ EachTaskOnce /\ OrderInv /\ [Next]_vars => [awaiting' # awaiting => Step]_vars
  <2> SUFFICES ASSUME TypeOK, EachTaskOnce, OrderInv, Next, awaiting' # awaiting PROVE Step
    OBVIOUS
  <2>1. DrainLoop /\ awaiting \in settled \cup {NoTask}
    <3>1. CASE Enqueue \/ OnDropReturns \/ Tick
      BY <3>1 DEF Enqueue, OnDropReturns, Tick, drainVars
    <3>2. CASE RunScheduled
      BY <3>2 DEF RunScheduled, MayDrain, drainVars, OrderInv, AwaitsOnlyInDrain
    <3>3. CASE ResumeDrain
      BY <3>3 DEF ResumeDrain, AwaitOver
    <3>4. ASSUME NEW f \in Flushes, Flush(f) PROVE FALSE
      BY <3>4 DEF Flush, drainVars
    <3>5. ASSUME NEW u \in TaskIds, Settle(u) PROVE FALSE
      BY <3>5 DEF Settle, drainVars
    <3>6. QED
      BY <3>1, <3>2, <3>3, <3>4, <3>5 DEF Next
  <2>2. \A u \in started' \ started : u \in InQueue(tasks)
    BY <2>1, DrainLoopEffect DEF EachTaskOnce
  <2>3. QED
    BY <2>1, <2>2 DEF OrderInv
<1>4. QED
  BY <1>1, <1>2, <1>3, TypeCorrect, EachTaskGoesOnce, PTL DEF Spec, OneAtATimeInOrder

-----------------------------------------------------------------------------
(* The queue implements DeliveryContract. *)

RunsInv ==
    /\ settled \subseteq started \cup inlined
    /\ awaiting \in started \cup {NoTask}
    /\ draining <=> awaiting # NoTask
    /\ idleWaiters \subseteq called \ resolved
    /\ resolved \subseteq called

LEMMA RunsInvHolds == Steps => []RunsInv
<1>1. Init => RunsInv
  BY DEF Init, RunsInv
<1>2. TypeOK /\ EachTaskOnce /\ RunsInv /\ [Next]_vars => RunsInv'
  <2> SUFFICES ASSUME TypeOK, EachTaskOnce, RunsInv, [Next]_vars PROVE RunsInv'
    OBVIOUS
  <2>1. CASE Enqueue
    BY <2>1 DEF RunsInv, Enqueue, Accept, DropNewest, Block, DropOldest, RunInline, drainVars,
                runVars, flushVars
  <2>2. CASE OnDropReturns
    BY <2>2 DEF RunsInv, OnDropReturns, drainVars, runVars, flushVars
  <2>3. ASSUME NEW f \in Flushes, Flush(f) PROVE RunsInv'
    BY <2>3 DEF RunsInv, Flush, drainVars, runVars
  <2>4. ASSUME DrainLoop, UNCHANGED <<runVars, called>> PROVE RunsInv'
    <3>1. NoTask \notin InQueue(tasks)
      BY InQueueIndices, QueueAssumption DEF QueueAssumption, TypeOK, TaskIds, NoTask
    <3>2. QED
      BY <2>4, <3>1, DrainLoopEffect DEF RunsInv, EachTaskOnce, runVars
  <2>5. CASE RunScheduled
    BY <2>4, <2>5 DEF RunsInv, RunScheduled, drainVars, runVars
  <2>6. CASE ResumeDrain
    BY <2>4, <2>6 DEF ResumeDrain
  <2>7. ASSUME NEW u \in TaskIds, Settle(u) PROVE RunsInv'
    BY <2>7 DEF RunsInv, Settle, drainVars, flushVars
  <2>8. CASE Tick
    BY <2>8 DEF RunsInv, Tick, drainVars, runVars, flushVars
  <2>9. CASE UNCHANGED vars
    BY <2>9 DEF RunsInv, vars, drainVars, runVars, flushVars
  <2>10. QED
    BY <2>1, <2>2, <2>3, <2>5, <2>6, <2>7, <2>8, <2>9 DEF Next
<1>3. QED
  BY <1>1, <1>2, TypeHolds, EachTaskOnceHolds, PTL DEF Steps

(* What moves no task and resolves no flush is a stutter of the contract. *)
LEMMA FateUnchanged ==
    ASSUME UNCHANGED <<submitted, started, inlined, settled, dropped>>
    PROVE  \A t \in TaskIds : Fate(t)' = Fate(t)
  BY DEF Fate

LEMMA HandOverByFate ==
    ASSUME NEW t \in TaskIds, NEW s \in TaskIds, NEW first \in {"waiting", "running", "dropped"},
           Fate(t) = "new", s = t \/ Fate(s) = "waiting",
           Fate(t)' = first, s # t => Fate(s)' = "dropped",
           \A u \in TaskIds \ {s, t} : Fate(u)' = Fate(u),
           UNCHANGED <<owed, called, resolved>>
    PROVE  Contract!HandOver(t, s)
<1> DEFINE F == [u \in TaskIds |-> Fate(u)]
           G == [u \in TaskIds |-> Fate(u)']
<1>1. G = [F EXCEPT ![s] = "dropped", ![t] = first]
  OBVIOUS
<1>2. F[t] = "new" /\ (s = t \/ F[s] = "waiting")
  OBVIOUS
<1>3. QED
  BY <1>1, <1>2 DEF Contract!HandOver

LEMMA EnqueueHandsOver ==
    ASSUME TypeOK, EachTaskOnce, RunsInv, Enqueue
    PROVE  \E t, s \in TaskIds : Contract!HandOver(t, s)
<1>0. PICK n \in TaskIds : n = submitted + 1
  BY NextTask DEF Enqueue
<1>1. /\ n \in TaskIds /\ submitted' = n /\ UNCHANGED <<started, owed, called, resolved>>
      /\ n \notin Gone /\ n \notin settled /\ submitted \in Nat
  BY <1>0, NextTask, QueueAssumption DEF QueueAssumption, TypeOK, Enqueue, drainVars, flushVars,
                                   RunsInv, Gone
<1>2. /\ n > submitted /\ ~(n > n)
      /\ \A u \in TaskIds \ {n} : (u > n <=> u > submitted)
  BY <1>0, <1>1 DEF TaskIds
<1>3. Fate(n) = "new"
  BY <1>2 DEF Fate
<1>4. CASE Accept(n) \/ DropNewest(n) \/ Block(n)
  <2>1. CASE Accept(n)
    <3>1. UNCHANGED <<inlined, settled, dropped>>
      BY <2>1 DEF Accept, dropVars, runVars
    <3>2. Fate(n)' = "waiting" /\ \A u \in TaskIds \ {n} : Fate(u)' = Fate(u)
      BY <1>1, <1>2, <3>1 DEF Fate, Gone
    <3>3. QED
      BY <1>1, <1>3, <3>2, HandOverByFate
  <2>2. CASE DropNewest(n)
    <3>1. dropped' = dropped \cup {n} /\ UNCHANGED <<inlined, settled>>
      BY <2>2 DEF DropNewest, RecordDrop, runVars
    <3>2. Fate(n)' = "dropped" /\ \A u \in TaskIds \ {n} : Fate(u)' = Fate(u)
      BY <1>1, <1>2, <3>1 DEF Fate, Gone
    <3>3. QED
      BY <1>1, <1>3, <3>2, HandOverByFate
  <2>3. CASE Block(n)
    <3>1. inlined' = inlined \cup {n} /\ UNCHANGED <<settled, dropped>>
      BY <2>3 DEF Block, RunInline, dropVars
    <3>2. Fate(n)' = "running" /\ \A u \in TaskIds \ {n} : Fate(u)' = Fate(u)
      BY <1>1, <1>2, <3>1 DEF Fate, Gone
    <3>3. QED
      BY <1>1, <1>3, <3>2, HandOverByFate
  <2>4. QED
    BY <1>4, <2>1, <2>2, <2>3
<1>5. CASE DropOldest(n)
  <2>1. /\ dropped' = dropped \cup (InQueue(tasks) \ InQueue(Evict(tasks)))
        /\ UNCHANGED <<inlined, settled>>
    BY <1>5 DEF DropOldest, RecordDrop, runVars
  <2>2. CASE tasks = <<>>
    <3>1. dropped' = dropped
      BY <2>1, <2>2 DEF Evict
    <3>2. Fate(n)' = "waiting" /\ \A u \in TaskIds \ {n} : Fate(u)' = Fate(u)
      BY <1>1, <1>2, <2>1, <3>1 DEF Fate, Gone
    <3>3. QED
      BY <1>1, <1>3, <3>2, HandOverByFate
  <2>3. CASE tasks # <<>>
    <3>0. PICK v \in TaskIds : v = Head(tasks)
      BY <2>3, HeadTailProperties DEF TypeOK
    <3>1. v \in TaskIds /\ v \in InQueue(tasks) /\ dropped' = dropped \cup {v}
      BY <2>1, <2>3, <3>0, InQueueEvict, InQueueTail, HeadTailProperties DEF TypeOK, EachTaskOnce
    <3>2. v \in 1..submitted /\ v \notin Gone /\ v \notin settled
      BY <3>1 DEF EachTaskOnce, RunsInv, Gone
    <3>3. v # n /\ Fate(v) = "waiting" /\ ~(v > n)
      BY <1>1, <1>2, <3>1, <3>2 DEF Fate, Gone
    <3>4. Fate(n)' = "waiting" /\ Fate(v)' = "dropped"
      BY <1>1, <1>2, <2>1, <3>1, <3>3 DEF Fate, Gone
    <3>5. \A u \in TaskIds \ {v, n} : Fate(u)' = Fate(u)
      BY <1>1, <1>2, <2>1, <3>1 DEF Fate
    <3>6. QED
      BY <1>1, <1>3, <3>1, <3>3, <3>4, <3>5, HandOverByFate
  <2>4. QED
    BY <2>2, <2>3
<1>6. QED
  BY <1>0, <1>4, <1>5 DEF Enqueue

(* A drain moves one task on, or resolves the flush() calls that wait. *)
LEMMA MoveByFate ==
    ASSUME NEW t \in TaskIds, NEW next,
           Fate(t)' = next, \A u \in TaskIds \ {t} : Fate(u)' = Fate(u)
    PROVE  [u \in TaskIds |-> Fate(u)]' = [[u \in TaskIds |-> Fate(u)] EXCEPT ![t] = next]
  OBVIOUS

LEMMA DrainImplements ==
    ASSUME TypeOK, EachTaskOnce, RunsInv, FlushInv, DrainLoop,
           draining => awaiting \in settled,
           UNCHANGED <<settled, dropped, inlined, submitted, called, owed>>
    PROVE  Contract!ContractNext
<1>1. CASE tasks # <<>> /\ started' = started \cup {awaiting'} /\ awaiting' \in InQueue(tasks)
           /\ resolved' = resolved
  <2>1. PICK t \in TaskIds : t = awaiting'
    BY <1>1, InQueueIndices DEF TypeOK
  <2>2. ~(t > submitted) /\ t \notin Gone /\ t \notin settled
    <3>1. t \in 1..submitted /\ submitted \in Nat
      BY <1>1, <2>1, QueueAssumption DEF QueueAssumption, TypeOK, EachTaskOnce
    <3>2. t \notin Gone
      BY <1>1, <2>1 DEF EachTaskOnce
    <3>3. QED
      BY <3>1, <3>2 DEF RunsInv, Gone
  <2>3. Fate(t) = "waiting" /\ Fate(t)' = "running"
    BY <1>1, <2>1, <2>2 DEF Fate, Gone
  <2>4. \A u \in TaskIds \ {t} : Fate(u)' = Fate(u)
    BY <1>1, <2>1 DEF Fate
  <2>5. Contract!Start(t)
    BY <1>1, <2>3, <2>4, MoveByFate DEF Contract!Start
  <2>6. QED
    BY <2>5 DEF Contract!ContractNext, Contract!TaskIds, TaskIds
<1>2. CASE InQueue(tasks) = {} /\ resolved' = resolved \cup idleWaiters /\ started' = started
  <2>1. \A f \in idleWaiters : owed[f] \subseteq settled \cup dropped
    <3>1. Owed \subseteq settled
      BY <1>2 DEF Owed, FlushInv, AwaitsOnlyInDrain
    <3>2. QED
      BY <3>1 DEF FlushInv
  <2>2. \A t \in settled \cup dropped : t \in TaskIds /\ Fate(t) \in {"settled", "dropped"}
    <3>1. \A t \in settled \cup dropped : t \in TaskIds /\ t \in 1..submitted /\ submitted \in Nat
      BY QueueAssumption DEF QueueAssumption, TypeOK, EachTaskOnce, RunsInv, Gone
    <3>2. \A t \in settled \cup dropped : ~(t > submitted)
      BY <3>1
    <3>3. QED
      BY <3>1, <3>2 DEF Fate
  <2>3. idleWaiters \in SUBSET Flushes /\ idleWaiters \subseteq called \ resolved
    BY DEF TypeOK, RunsInv
  <2>4. \A t \in TaskIds : Fate(t)' = Fate(t)
    BY <1>2, FateUnchanged
  <2>5. Contract!Resolve(idleWaiters)
    BY <1>2, <2>1, <2>2, <2>3, <2>4 DEF Contract!Resolve, Contract!Ended
  <2>6. QED
    BY <2>3, <2>5 DEF Contract!ContractNext
<1>3. QED
  BY <1>1, <1>2, DrainLoopEffect DEF EachTaskOnce

LEMMA FlushImplements ==
    ASSUME TypeOK, EachTaskOnce, RunsInv, FlushInv, NEW f \in Flushes, Flush(f)
    PROVE  Contract!CallFlush(f)
<1>1. /\ f \notin called /\ called' = called \cup {f} /\ held = <<>>
      /\ owed' = [owed EXCEPT ![f] = Owed]
      /\ UNCHANGED <<submitted, started, inlined, settled, dropped>>
  BY DEF Flush, drainVars, dropVars, runVars
<1>2. \A t \in TaskIds : Fate(t)' = Fate(t)
  BY <1>1, FateUnchanged
<1>3. Owed \subseteq 1..submitted /\ submitted \in Nat
  BY QueueAssumption DEF QueueAssumption, TypeOK, EachTaskOnce, RunsInv, Owed, Gone
<1>4. Owed \subseteq TaskIds /\ \A t \in Owed : Fate(t) # "new"
  <2>1. \A t \in Owed : t \in TaskIds /\ ~(t > submitted)
    BY <1>3, QueueAssumption DEF QueueAssumption, TypeOK, TaskIds
  <2>2. QED
    BY <2>1 DEF Fate
<1>5. ASSUME NEW t \in TaskIds, Fate(t) = "waiting" PROVE t \in Owed
  <2>1. t \in 1..submitted /\ t \notin Gone
    BY <1>3, <1>5 DEF Fate, TaskIds, Gone, RunsInv
  <2>2. InQueue(held) = {}
    BY <1>1 DEF InQueue
  <2>3. QED
    BY <2>1, <2>2 DEF EachTaskOnce, Owed
<1>6. resolved' = IF Owed = {} THEN resolved \cup {f} ELSE resolved
  <2>1. Idle <=> Owed = {}
    <3>1. tasks = <<>> <=> InQueue(tasks) = {}
      BY EmptyQueue DEF TypeOK
    <3>2. QED
      BY <3>1 DEF Idle, Owed, RunsInv
  <2>2. QED
    BY <2>1 DEF Flush
<1>7. QED
  BY <1>1, <1>2, <1>4, <1>5, <1>6 DEF Contract!CallFlush, Contract!TaskIds, TaskIds

LEMMA SettleImplements ==
    ASSUME TypeOK, EachTaskOnce, RunsInv, NEW t \in TaskIds, Settle(t)
    PROVE  Contract!Settle(t)
<1>1. /\ t \in started \cup inlined /\ t \notin settled /\ settled' = settled \cup {t}
      /\ UNCHANGED <<submitted, started, inlined, dropped, flushVars>>
  BY DEF Settle, drainVars, dropVars
<1>2. t \notin dropped /\ ~(t > submitted)
  BY <1>1, QueueAssumption DEF QueueAssumption, TypeOK, EachTaskOnce, Gone
<1>3. Fate(t) = "running" /\ Fate(t)' = "settled"
  BY <1>1, <1>2 DEF Fate
<1>4. \A u \in TaskIds \ {t} : Fate(u)' = Fate(u)
  BY <1>1 DEF Fate
<1>5. QED
  BY <1>1, <1>3, <1>4, MoveByFate DEF Contract!Settle, flushVars

\* Every behaviour of the queue is one the contract allows: its initial states
\* map to the contract's, and each of its steps to a step or a stutter.
THEOREM QueueImplementsContract == Spec => ImplementsContract
<1>1. Init => Contract!ContractInit
  <2> SUFFICES ASSUME Init PROVE Contract!ContractInit
    OBVIOUS
  <2>1. \A t \in TaskIds : Fate(t) = "new"
    BY QueueAssumption DEF QueueAssumption, Init, Fate, TaskIds
  <2>2. QED
    BY <2>1 DEF Init, Contract!ContractInit, Contract!TaskIds, TaskIds
<1>2. TypeOK /\ EachTaskOnce /\ RunsInv /\ FlushInv /\ [Next]_vars
      => [Contract!ContractNext]_(Contract!contractVars)
  <2> SUFFICES ASSUME TypeOK, EachTaskOnce, RunsInv, FlushInv, [Next]_vars
               PROVE  Contract!ContractNext \/ UNCHANGED Contract!contractVars
    OBVIOUS
  <2>1. ASSUME UNCHANGED <<submitted, started, inlined, settled, dropped>>,
               UNCHANGED <<owed, called, resolved>>
        PROVE  UNCHANGED Contract!contractVars
    BY <2>1, FateUnchanged DEF Contract!contractVars
  <2>2. CASE Enqueue
    BY <2>2, EnqueueHandsOver DEF Contract!ContractNext, Contract!TaskIds, TaskIds
  <2>3. CASE OnDropReturns
    BY <2>1, <2>3 DEF OnDropReturns, drainVars, dropVars, runVars, flushVars
  <2>4. CASE RunScheduled
    <3>1. CASE MayDrain
      BY <2>4, <3>1, DrainImplements DEF RunScheduled, MayDrain, dropVars, runVars
    <3>2. CASE ~MayDrain
      BY <2>1, <2>4, <3>2 DEF RunScheduled, drainVars, dropVars, runVars
    <3>3. QED
      BY <3>1, <3>2
  <2>5. CASE ResumeDrain
    BY <2>5, DrainImplements DEF ResumeDrain, AwaitOver, dropVars, runVars
  <2>6. ASSUME NEW f \in Flushes, Flush(f) PROVE Contract!ContractNext
    BY <2>6, FlushImplements DEF Contract!ContractNext
  <2>7. ASSUME NEW t \in TaskIds, Settle(t) PROVE Contract!ContractNext
    BY <2>7, SettleImplements DEF Contract!ContractNext, Contract!TaskIds, TaskIds
  <2>8. CASE Tick
    BY <2>1, <2>8 DEF Tick, drainVars, runVars, flushVars
  <2>9. CASE UNCHANGED vars
    BY <2>1, <2>9 DEF vars, drainVars, dropVars, runVars, flushVars
  <2>10. QED
    BY <2>2, <2>3, <2>4, <2>5, <2>6, <2>7, <2>8, <2>9 DEF Next
<1>3. QED
  BY <1>1, <1>2, TypeCorrect, EachTaskGoesOnce, RunsInvHolds, FlushInvHolds, PTL
     DEF Spec, Steps, ImplementsContract, Contract!ContractSpec

-----------------------------------------------------------------------------
(* For whoever composes the queue with something else. *)

\* A flush() that was called waits or is resolved.
CalledWaits == called \subseteq idleWaiters \cup resolved

LEMMA CalledWaitsHolds == Steps => []CalledWaits
<1>1. Init => CalledWaits
  BY DEF Init, CalledWaits
<1>2. CalledWaits /\ [Next]_vars => CalledWaits'
  <2> SUFFICES ASSUME CalledWaits, [Next]_vars PROVE CalledWaits'
    OBVIOUS
  <2> USE DEF CalledWaits
  <2>1. CASE Enqueue \/ OnDropReturns \/ Tick
    BY <2>1 DEF Enqueue, OnDropReturns, Tick, flushVars
  <2>2. ASSUME NEW f \in Flushes, Flush(f) PROVE CalledWaits'
    BY <2>2 DEF Flush
  <2>3. DrainLoop => idleWaiters \cup resolved \subseteq idleWaiters' \cup resolved'
    BY DEF DrainLoop, StartNext, Finish
  <2>4. CASE RunScheduled \/ ResumeDrain
    BY <2>3, <2>4 DEF RunScheduled, ResumeDrain
  <2>5. ASSUME NEW t \in TaskIds, Settle(t) PROVE CalledWaits'
    BY <2>5 DEF Settle, flushVars
  <2>6. CASE UNCHANGED vars
    BY <2>6 DEF vars, flushVars
  <2>7. QED
    BY <2>1, <2>2, <2>4, <2>5, <2>6 DEF Next
<1>3. QED
  BY <1>1, <1>2, PTL DEF Steps

\* What has happened to a task stays so, and what is owed to a flush() is settled
\* when it is called.
LEMMA QueueGrows ==
    ASSUME TypeOK, [Next]_vars
    PROVE  /\ started \subseteq started' /\ inlined \subseteq inlined'
           /\ settled \subseteq settled' /\ dropped \subseteq dropped'
           /\ submitted <= submitted' /\ resolved \subseteq resolved'
           /\ called \subseteq called' /\ \A f \in called : owed'[f] = owed[f]
<1>1. submitted \in Nat /\ called \subseteq Flushes /\ owed \in [Flushes -> SUBSET TaskIds]
  BY QueueAssumption DEF QueueAssumption, TypeOK
<1>2. CASE Enqueue
  BY <1>1, <1>2 DEF Enqueue, Accept, DropNewest, Block, DropOldest, RunInline, RecordDrop,
                    drainVars, dropVars, runVars, flushVars
<1>3. CASE OnDropReturns \/ Tick
  BY <1>1, <1>3 DEF OnDropReturns, Tick, drainVars, dropVars, runVars, flushVars
<1>4. ASSUME NEW f \in Flushes, Flush(f)
      PROVE  /\ UNCHANGED <<started, inlined, settled, dropped, submitted>>
             /\ resolved \subseteq resolved' /\ called \subseteq called'
             /\ \A g \in called : owed'[g] = owed[g]
  BY <1>1, <1>4 DEF Flush, drainVars, dropVars, runVars
<1>5. DrainLoop => started \subseteq started' /\ resolved \subseteq resolved'
  BY DEF DrainLoop, StartNext, Finish
<1>6. CASE RunScheduled \/ ResumeDrain
  BY <1>1, <1>5, <1>6 DEF RunScheduled, ResumeDrain, drainVars, dropVars, runVars
<1>7. ASSUME NEW t \in TaskIds, Settle(t)
      PROVE  /\ UNCHANGED <<started, inlined, dropped, submitted, resolved, called, owed>>
             /\ settled \subseteq settled'
  BY <1>7 DEF Settle, drainVars, dropVars, flushVars
<1>8. CASE UNCHANGED vars
  BY <1>1, <1>8 DEF vars, drainVars, dropVars, runVars, flushVars
<1>9. QED
  BY <1>1, <1>2, <1>3, <1>4, <1>6, <1>7, <1>8 DEF Next
=============================================================================
