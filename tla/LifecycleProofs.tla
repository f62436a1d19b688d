-------------------------- MODULE LifecycleProofs --------------------------
(***************************************************************************)
(* Proofs about Lifecycle, for any queue, any transports in any order, any *)
(* ends of a logger and any number of records: what is proved of the       *)
(* DispatchQueue alone holds of the queue in it, and with what is known of *)
(* BatchBuffer gives what close() and the others promise.                  *)
(***************************************************************************)
EXTENDS Lifecycle, DispatchQueueProofs, BatchBufferProofs

-----------------------------------------------------------------------------
(* A transport of some kind: what it may be, what is in its buffer, and what *)
(* has been through it.                                                      *)

Kinds == Buffering \cup {"otel", "file"}

Provider == [open : BOOLEAN, held : SUBSET TaskIds, exporting : SUBSET SUBSET TaskIds,
             delivered : SUBSET TaskIds, lost : SUBSET TaskIds]
File == [open : BOOLEAN, written : SUBSET TaskIds, refused : SUBSET TaskIds]

Sound(kind, t) ==
    /\ kind \in Buffering =>
          t \in BufferState(TaskIds) /\ t.sending \subseteq Elements(t.sent)
    /\ kind = "otel" => t \in Provider
    /\ kind = "file" => t \in File

Kept(kind, t) ==
    IF kind \in Buffering THEN Elements(t.buffer)
    ELSE IF kind = "otel" THEN t.held ELSE {}

Passed(kind, t) ==
    IF kind \in Buffering THEN t.lost \cup UNION {Elements(b) : b \in Elements(t.sent)}
    ELSE IF kind = "otel" THEN t.delivered \cup t.lost \cup UNION t.exporting
    ELSE t.written \cup t.refused

\* From t to s: what was through stays through, and what was buffered is not lost
\* sight of.
Carries(kind, t, s) ==
    /\ Sound(kind, s)
    /\ Passed(kind, t) \subseteq Passed(kind, s)
    /\ Kept(kind, t) \subseteq Kept(kind, s) \cup Passed(kind, s)

-----------------------------------------------------------------------------
(* The inductive invariant. *)

LifecycleShapes ==
    /\ program \in Programs /\ DOMAIN transports = Indices
    /\ \A i \in Indices : Sound(kinds[i], transports[i])
    /\ stage \in [Flushes -> {"idle", "flushing", "done", "rejected"}]
    /\ next \in [Flushes -> 1..(Len(kinds) + 1)]
    /\ awaited \in [Flushes -> SUBSET SUBSET TaskIds]
    /\ exitAfter \in BOOLEAN /\ signalled \in BOOLEAN /\ exited \in BOOLEAN
    /\ before \in [Flushes -> 0..MaxTasks]

\* Whoever has not called is at the start, and whoever is on the walk was let go on
\* by the queue.
CallsInStep ==
    /\ called \subseteq program.ends
    /\ \A c \in Flushes :
          /\ c \notin called => stage[c] = "idle" /\ next[c] = 1 /\ before[c] = 0
          /\ c \in called => stage[c] # "idle"
          /\ Over(c) \/ next[c] > 1 => c \in resolved

\* The queue owes a call whatever was logged before it and is not over.
OwedToCalls == \A c \in called : 1..before[c] \subseteq owed[c] \cup settled \cup dropped

\* A record whose task has run is in every transport, or has been.
RunIsWritten ==
    \A i \in Indices : Running \subseteq Kept(kinds[i], transports[i]) \cup Passed(kinds[i], transports[i])

\* Every transport a walk has behind it is rid of what was logged before the call.
WalkedIsPassed ==
    \A c \in Flushes, i \in Indices :
        Over(c) \/ i < next[c] => 1..before[c] \subseteq dropped \cup Passed(kinds[i], transports[i])

\* Files are closed by a close() that is over, and refuse what was logged since.
ClosedByClose ==
    \A i \in Of({"file"}) : ~transports[i].open => \E c \in called \ {"handler"} : Over(c)

ExitsWhenOver == exited /\ "shutdown" \in called => Over("shutdown")

LifecycleInv ==
    /\ LifecycleShapes /\ CallsInStep /\ OwedToCalls /\ RunIsWritten /\ WalkedIsPassed
    /\ ClosedByClose /\ RefusedOnlyLate /\ ExitsWhenOver

-----------------------------------------------------------------------------
(* What one transport may become. *)

LEMMA KindsDiffer ==
    /\ "otel" \notin Buffering /\ "file" \notin Buffering
    /\ \A kind \in Kinds : kind \in Buffering \/ kind = "otel" \/ kind = "file"
  BY DEF Buffering, Kinds

LEMMA FreshSound ==
    ASSUME NEW kind \in Kinds
    PROVE  Sound(kind, Fresh(kind)) /\ (kind = "file" => Fresh(kind).open /\ Fresh(kind).refused = {})
<1>1. CASE kind \in Buffering
  <2>1. Fresh(kind) = EmptyTransport
    BY <1>1, KindsDiffer DEF Fresh
  <2>2. EmptyTransport \in BufferState(TaskIds) /\ EmptyTransport.sending = {}
    BY EmptySeq DEF EmptyTransport, BufferState
  <2>3. QED
    BY <1>1, <2>1, <2>2, KindsDiffer DEF Sound
<1>2. CASE kind = "otel"
  BY <1>2, KindsDiffer DEF Fresh, OpenProvider, Sound, Provider
<1>3. CASE kind = "file"
  BY <1>3, KindsDiffer DEF Fresh, OpenFile, Sound, File
<1>4. QED
  BY <1>1, <1>2, <1>3, KindsDiffer

LEMMA SoundBuffer ==
    ASSUME NEW kind \in Buffering, NEW t
    PROVE  /\ Sound(kind, t) <=> t \in BufferState(TaskIds) /\ t.sending \subseteq Elements(t.sent)
           /\ Kept(kind, t) = Elements(t.buffer)
           /\ Passed(kind, t) = t.lost \cup UNION {Elements(b) : b \in Elements(t.sent)}
  BY KindsDiffer DEF Sound, Kept, Passed

LEMMA SoundProvider ==
    ASSUME NEW t
    PROVE  /\ Sound("otel", t) <=> t \in Provider
           /\ Kept("otel", t) = t.held
           /\ Passed("otel", t) = t.delivered \cup t.lost \cup UNION t.exporting
  BY KindsDiffer DEF Sound, Kept, Passed

LEMMA SoundFile ==
    ASSUME NEW t
    PROVE  /\ Sound("file", t) <=> t \in File
           /\ Kept("file", t) = {}
           /\ Passed("file", t) = t.written \cup t.refused
  BY KindsDiffer DEF Sound, Kept, Passed

LEMMA CarriesItself ==
    ASSUME NEW kind, NEW t, Sound(kind, t)
    PROVE  Carries(kind, t, t)
  BY DEF Carries

\* A batch that is sent is among those that were.
LEMMA MovedCarries ==
    ASSUME NEW kind \in Buffering, NEW t, NEW s, Sound(kind, t), Moved(TaskIds, t, s)
    PROVE  Carries(kind, t, s) /\ Kept(kind, s) = {} /\ Elements(t.buffer) \subseteq Passed(kind, s)
<1>1. t.sent \in Seq(Seq(TaskIds)) /\ t.buffer \in Seq(TaskIds)
  BY SoundBuffer, StateFields
<1>2. /\ s \in BufferState(TaskIds) /\ s.buffer = <<>> /\ s.sent = Append(t.sent, t.buffer)
      /\ s.sending \subseteq t.sending \cup {t.buffer} /\ t.lost \subseteq s.lost
  BY DEF Moved
<1>3. Elements(s.sent) = Elements(t.sent) \cup {t.buffer}
  BY <1>1, <1>2, ElementsAppend
<1>4. s.sending \subseteq Elements(s.sent)
  BY <1>2, <1>3, SoundBuffer
<1>5. Elements(s.buffer) = {}
  BY <1>2 DEF Elements
<1>6. Passed(kind, t) \cup Elements(t.buffer) \subseteq Passed(kind, s)
  <2> DEFINE was == {Elements(b) : b \in Elements(t.sent)}
             is  == {Elements(b) : b \in Elements(s.sent)}
  <2>1. was \subseteq is /\ Elements(t.buffer) \in is
    BY <1>3
  <2>2. Passed(kind, t) = t.lost \cup UNION was /\ Passed(kind, s) = s.lost \cup UNION is
    BY SoundBuffer
  <2> HIDE DEF was, is
  <2>3. QED
    BY <1>2, <2>1, <2>2
<1>7. QED
  BY <1>2, <1>4, <1>5, <1>6, SoundBuffer DEF Carries

LEMMA FlushedCarries ==
    ASSUME NEW kind \in Buffering, NEW t, Sound(kind, t), NEW s \in Flushed(t)
    PROVE  Carries(kind, t, s) /\ Kept(kind, s) = {}
<1>1. t \in BufferState(TaskIds)
  BY SoundBuffer
<1>2. Moved(TaskIds, t, s) \/ (s = t /\ t.buffer = <<>>)
  BY <1>1, FlushedMoves
<1>3. CASE s = t /\ t.buffer = <<>>
  BY <1>3, CarriesItself, SoundBuffer DEF Elements
<1>4. QED
  BY <1>2, <1>3, MovedCarries

LEMMA ExportedCarries ==
    ASSUME NEW t, Sound("otel", t)
    PROVE  /\ Carries("otel", t, Exported(t)) /\ Kept("otel", Exported(t)) = {}
           /\ Exported(t) \in Provider
<1>1. t \in Provider
  BY SoundProvider
<1>2. CASE t.held = {}
  BY <1>1, <1>2, CarriesItself, SoundProvider DEF Exported
<1>3. CASE t.held # {}
  <2> DEFINE s == [t EXCEPT !.exporting = @ \cup {t.held}, !.held = {}]
  <2>1. /\ s \in Provider /\ s.held = {} /\ s.exporting = t.exporting \cup {t.held}
        /\ s.delivered = t.delivered /\ s.lost = t.lost
    BY <1>1 DEF Provider
  <2>2. Exported(t) = s
    BY <1>3 DEF Exported
  <2> HIDE DEF s
  <2>3. QED
    BY <2>1, <2>2, SoundProvider DEF Carries
<1>4. QED
  BY <1>2, <1>3

\* write(): the record is in the buffer or has been through.
LEMMA WrittenCarries ==
    ASSUME NEW kind \in Buffering, NEW t, Sound(kind, t), NEW r \in TaskIds, NEW size \in Nat,
           NEW s \in Written(t, r, size)
    PROVE  Carries(kind, t, s) /\ r \in Kept(kind, s) \cup Passed(kind, s)
<1>1. t \in BufferState(TaskIds) /\ t.buffer \in Seq(TaskIds)
  BY SoundBuffer, StateFields
<1>2. ToItemThrows \notin Nat /\ size \in Nat \cup {ToItemThrows, SizeOfThrows}
  BY DEF ToItemThrows
<1>3. PICK p \in BufferState(TaskIds) :
         /\ p.buffer = Append(t.buffer, r)
         /\ p.sent = t.sent /\ p.sending = t.sending /\ p.lost = t.lost
         /\ Moved(TaskIds, p, s) \/ s = p
  BY <1>1, <1>2, WrittenMoves
<1>4. Elements(p.buffer) = Elements(t.buffer) \cup {r}
  BY <1>1, <1>3, ElementsAppend
<1>5. Sound(kind, p) /\ Passed(kind, p) = Passed(kind, t) /\ Kept(kind, p) = Kept(kind, t) \cup {r}
  BY <1>3, <1>4, SoundBuffer
<1>6. CASE s = p
  BY <1>5, <1>6 DEF Carries
<1>7. CASE Moved(TaskIds, p, s)
  <2>1. Carries(kind, p, s) /\ Kept(kind, p) \subseteq Passed(kind, s)
    BY <1>5, <1>7, MovedCarries, SoundBuffer
  <2>2. QED
    BY <1>5, <2>1 DEF Carries
<1>8. QED
  BY <1>3, <1>6, <1>7

\* The promise of a batch settles.
LEMMA SettledCarries ==
    ASSUME NEW kind \in Buffering, NEW t, Sound(kind, t), NEW batch \in t.sending,
           NEW s \in Settled(t, batch)
    PROVE  Carries(kind, t, s)
<1>1. t \in BufferState(TaskIds) /\ t.sending \subseteq Elements(t.sent)
  BY SoundBuffer
<1>2. /\ s \in BufferState(TaskIds) /\ s.buffer = t.buffer /\ s.sent = t.sent
      /\ s.sending = t.sending \ {batch} /\ t.lost \subseteq s.lost
  BY <1>1, SettledMoves
<1>3. QED
  BY <1>1, <1>2, SoundBuffer DEF Carries

-----------------------------------------------------------------------------
(* The transports of a logger. *)

LEMMA ProgramFacts ==
    ASSUME program \in Programs
    PROVE  /\ Indices = 1..Len(kinds) /\ Len(kinds) \in Nat
           /\ \A i \in Indices : kinds[i] \in Kinds
           /\ program.ends \subseteq Flushes /\ program.policy \in Policies
           /\ program.records \in 0..MaxTasks
<1>1. kinds \in Seq(Kinds)
  BY LifecycleAssumption DEF LifecycleAssumption, Kinds, kinds
<1>2. QED
  BY <1>1, LenProperties, ElementOfSeq, LifecycleAssumption DEF LifecycleAssumption, Indices

LEMMA WriteCarries ==
    ASSUME program \in Programs, NEW i \in Indices, Sound(kinds[i], transports[i]),
           NEW r \in TaskIds, NEW s \in AfterWrite(i, r)
    PROVE  /\ Carries(kinds[i], transports[i], s)
           /\ r \in Kept(kinds[i], s) \cup Passed(kinds[i], s)
           /\ kinds[i] = "file" =>
                 /\ s.open = transports[i].open
                 /\ s.refused \subseteq transports[i].refused \cup {r}
                 /\ s.open => s.refused = transports[i].refused
<1> DEFINE t == transports[i]
<1>1. kinds[i] \in Kinds
  BY ProgramFacts
<1>2. CASE kinds[i] \in Buffering
  <2>1. s \in Written(t, r, SizeFor(kinds[i])) /\ SizeFor(kinds[i]) \in Nat
    BY <1>2, KindsDiffer DEF AfterWrite, SizeFor
  <2>2. QED
    BY <1>2, <2>1, KindsDiffer, WrittenCarries
<1>3. CASE kinds[i] = "otel"
  <2>1. s = Emitted(t, r) /\ t \in Provider
    BY <1>3, KindsDiffer, SoundProvider DEF AfterWrite
  <2> HIDE DEF t
  <2>2. CASE t.open
    <3>1. /\ s \in Provider /\ s.held = t.held \cup {r} /\ s.exporting = t.exporting
          /\ s.delivered = t.delivered /\ s.lost = t.lost
      BY <2>1, <2>2 DEF Emitted, Provider
    <3>2. QED
      BY <1>3, <3>1, SoundProvider DEF Carries, t
  <2>3. CASE ~t.open
    <3>1. /\ s \in Provider /\ s.held = t.held /\ s.exporting = t.exporting
          /\ s.delivered = t.delivered /\ s.lost = t.lost \cup {r}
      BY <2>1, <2>3 DEF Emitted, Provider
    <3>2. QED
      BY <1>3, <3>1, SoundProvider DEF Carries, t
  <2>4. QED
    BY <2>2, <2>3
<1>4. CASE kinds[i] = "file"
  <2>1. s = WrittenToFile(t, r) /\ t \in File
    BY <1>4, KindsDiffer, SoundFile DEF AfterWrite
  <2> HIDE DEF t
  <2>2. CASE t.open
    <3>1. s \in File /\ s.written = t.written \cup {r} /\ s.refused = t.refused /\ s.open = t.open
      BY <2>1, <2>2 DEF WrittenToFile, File
    <3>2. QED
      BY <1>4, <3>1, SoundFile DEF Carries, t
  <2>3. CASE ~t.open
    <3>1. s \in File /\ s.written = t.written /\ s.refused = t.refused \cup {r} /\ s.open = t.open
      BY <2>1, <2>3 DEF WrittenToFile, File
    <3>2. QED
      BY <1>4, <2>3, <3>1, SoundFile DEF Carries, t
  <2>4. QED
    BY <2>2, <2>3
<1>5. QED
  BY <1>1, <1>2, <1>3, <1>4, KindsDiffer

LEMMA FlushCarries ==
    ASSUME program \in Programs, NEW i \in Indices, Sound(kinds[i], transports[i]),
           kinds[i] # "file", NEW s \in AfterFlush(i)
    PROVE  /\ Carries(kinds[i], transports[i], s) /\ Kept(kinds[i], s) = {}
           /\ kinds[i] = "otel" => s.exporting \subseteq SUBSET TaskIds
<1>1. CASE kinds[i] = "otel"
  BY <1>1, ExportedCarries DEF AfterFlush, Provider
<1>2. CASE kinds[i] \in Buffering
  BY <1>2, KindsDiffer, FlushedCarries DEF AfterFlush
<1>3. QED
  BY <1>1, <1>2, KindsDiffer, ProgramFacts

LEMMA CloseCarries ==
    ASSUME program \in Programs, NEW i \in Indices, Sound(kinds[i], transports[i]),
           NEW s \in AfterClose(i)
    PROVE  /\ Carries(kinds[i], transports[i], s)
           /\ kinds[i] = "file" => s.refused = transports[i].refused
<1> DEFINE t == transports[i]
<1>1. CASE kinds[i] \in Buffering
  BY <1>1, KindsDiffer, FlushedCarries DEF AfterClose
<1>2. CASE kinds[i] = "otel"
  <2> DEFINE e == Exported(t)
  <2>1. s = [e EXCEPT !.open = FALSE]
    BY <1>2, KindsDiffer DEF AfterClose
  <2>2. e \in Provider /\ Carries("otel", t, e)
    BY <1>2, ExportedCarries
  <2> HIDE DEF e
  <2>3. /\ s \in Provider /\ s.held = e.held /\ s.exporting = e.exporting
        /\ s.delivered = e.delivered /\ s.lost = e.lost
    BY <2>1, <2>2 DEF Provider
  <2>4. QED
    BY <1>2, <2>2, <2>3, SoundProvider DEF Carries
<1>3. CASE kinds[i] = "file"
  <2>1. s = [t EXCEPT !.open = FALSE] /\ t \in File
    BY <1>3, KindsDiffer, SoundFile DEF AfterClose
  <2>2. s \in File /\ s.written = t.written /\ s.refused = t.refused
    BY <2>1 DEF File
  <2>3. QED
    BY <1>3, <2>2, SoundFile DEF Carries
<1>4. QED
  BY <1>1, <1>2, <1>3, KindsDiffer, ProgramFacts

-----------------------------------------------------------------------------
(* What a step of the whole may do, said of the queue, of each transport and *)
(* of each call, and that this is enough.                                    *)

QueueInv == TypeOK /\ EachTaskOnce /\ FlushInv /\ RunsInv /\ NothingStranded /\ CalledWaits

TransportsTurn ==
    /\ DOMAIN transports' = Indices
    /\ \A i \in Indices :
          /\ Carries(kinds[i], transports[i], transports'[i])
          /\ Running' \ Running \subseteq Kept(kinds[i], transports'[i])
                                             \cup Passed(kinds[i], transports'[i])
    /\ \A i \in Of({"file"}) :
          /\ transports'[i].refused \subseteq transports[i].refused \cup (Running' \ Running)
          /\ transports[i].open => transports'[i].refused = transports[i].refused
          /\ transports[i].open /\ ~transports'[i].open =>
                \E c \in called \ {"handler"} : Over(c)'

Stays(c) ==
    /\ stage'[c] = stage[c] /\ next'[c] = next[c] /\ before'[c] = before[c]
    /\ c \in called' <=> c \in called

Begins(c) ==
    /\ c \in program.ends \ called /\ c \in called'
    /\ stage'[c] = "flushing" /\ next'[c] = next[c] /\ before'[c] = submitted
    /\ 1..submitted \subseteq owed'[c] \cup settled \cup dropped

Walks(c) ==
    /\ stage[c] = "flushing" /\ c \in resolved /\ c \in called'
    /\ stage'[c] \in {"flushing", "done", "rejected"} /\ before'[c] = before[c]
    /\ \A j \in Indices : Over(c)' \/ j < next'[c] =>
          j < next[c] \/ Kept(kinds[j], transports'[j]) = {}

CallsTurn ==
    /\ program' = program
    /\ stage' \in [Flushes -> {"idle", "flushing", "done", "rejected"}]
    /\ next' \in [Flushes -> 1..(Len(kinds) + 1)]
    /\ awaited' \in [Flushes -> SUBSET SUBSET TaskIds]
    /\ exitAfter' \in BOOLEAN /\ signalled' \in BOOLEAN /\ exited' \in BOOLEAN
    /\ before' \in [Flushes -> 0..MaxTasks]
    /\ \A c \in Flushes : Stays(c) \/ Begins(c) \/ Walks(c)
    /\ exited' /\ "shutdown" \in called' => exited \/ Over("shutdown")
    /\ exited => called' = called

LEMMA TurnKeeps ==
    ASSUME QueueInv, QueueInv', [Next]_vars, LifecycleInv, TransportsTurn, CallsTurn
    PROVE  LifecycleInv'
<1>1. /\ program \in Programs /\ program' = program /\ kinds' = kinds /\ Indices' = Indices
      /\ Of({"file"})' = Of({"file"}) /\ Of({"file"}) \subseteq Indices
      /\ called \subseteq Flushes /\ called' \subseteq Flushes
      /\ Running \subseteq TaskIds /\ Running' \subseteq TaskIds
      /\ submitted \in 0..MaxTasks /\ before \in [Flushes -> 0..MaxTasks]
      /\ before' \in [Flushes -> 0..MaxTasks]
  BY DEF LifecycleInv, LifecycleShapes, CallsTurn, kinds, Indices, Of, QueueInv, TypeOK, Running
<1>2. /\ Running \subseteq Running' /\ settled \subseteq settled' /\ dropped \subseteq dropped'
      /\ resolved \subseteq resolved' /\ called \subseteq called'
      /\ \A c \in called : owed'[c] = owed[c]
  BY QueueGrows DEF QueueInv, Running
<1>3. \A c \in Flushes : Stays(c) \/ Begins(c) \/ Walks(c)
  BY DEF CallsTurn
<1>4. \A c \in called : /\ before'[c] = before[c] /\ (Over(c) => Over(c)')
                        /\ c \in Flushes /\ c \in called'
  BY <1>1, <1>2, <1>3 DEF Stays, Begins, Walks, Over
<1>5. \A c \in called' \ called : Begins(c)
  BY <1>1, <1>3 DEF Stays, Walks, LifecycleInv, CallsInStep
<1>6. \A c \in Flushes : c \in resolved => c \in called /\ 1..before[c] \subseteq settled \cup dropped
  BY DEF QueueInv, FlushInv, FlushKeepsPromise, LifecycleInv, OwedToCalls
<1>7. LifecycleShapes'
  BY <1>1 DEF LifecycleShapes, CallsTurn, TransportsTurn, Carries
<1>8. CallsInStep'
  <2>1. called' \subseteq program'.ends
    BY <1>1, <1>2, <1>5 DEF Begins, LifecycleInv, CallsInStep
  <2>2. ASSUME NEW c \in Flushes
        PROVE  /\ c \notin called' => stage'[c] = "idle" /\ next'[c] = 1 /\ before'[c] = 0
               /\ c \in called' => stage'[c] # "idle"
               /\ Over(c)' \/ next'[c] > 1 => c \in resolved'
    BY <1>2, <1>3 DEF Stays, Begins, Walks, LifecycleInv, CallsInStep, Over
  <2>3. QED
    BY <2>1, <2>2 DEF CallsInStep, Over
<1>9. OwedToCalls'
  BY <1>2, <1>4, <1>5 DEF Begins, OwedToCalls, LifecycleInv
<1>10. RunIsWritten'
  <2>1. ASSUME NEW i \in Indices
        PROVE  Running' \subseteq Kept(kinds[i], transports'[i]) \cup Passed(kinds[i], transports'[i])
    BY DEF TransportsTurn, Carries, LifecycleInv, RunIsWritten
  <2>2. QED
    BY <1>1, <2>1 DEF RunIsWritten
<1>11. WalkedIsPassed'
  <2>1. ASSUME NEW c \in Flushes, NEW i \in Indices, Over(c)' \/ i < next'[c],
               NEW r \in 1..before'[c], r \notin dropped'
        PROVE  r \in Passed(kinds[i], transports'[i])
    <3>1. Passed(kinds[i], transports[i]) \subseteq Passed(kinds[i], transports'[i])
      BY DEF TransportsTurn, Carries
    <3>2. CASE Stays(c)
      BY <1>2, <2>1, <3>1, <3>2 DEF Stays, LifecycleInv, WalkedIsPassed, Over
    <3>3. CASE Begins(c)
      BY <1>1, <2>1, <3>3, ProgramFacts DEF Begins, LifecycleInv, CallsInStep, Over
    <3>4. CASE Walks(c)
      <4>1. CASE i < next[c]
        BY <1>2, <2>1, <3>1, <3>4, <4>1 DEF Walks, LifecycleInv, WalkedIsPassed
      <4>2. CASE Kept(kinds[i], transports'[i]) = {}
        <5>1. r \in settled
          BY <1>2, <1>6, <2>1, <3>4 DEF Walks
        <5>2. r \in Running'
          BY <1>2, <5>1 DEF QueueInv, RunsInv, Running
        <5>3. QED
          BY <1>1, <1>10, <4>2, <5>2 DEF RunIsWritten
      <4>3. QED
        BY <2>1, <3>4, <4>1, <4>2 DEF Walks
    <3>5. QED
      BY <1>3, <3>2, <3>3, <3>4
  <2>2. QED
    BY <1>1, <2>1 DEF WalkedIsPassed, Over
<1>12. ClosedByClose'
  BY <1>1, <1>4 DEF TransportsTurn, LifecycleInv, ClosedByClose
<1>13. RefusedOnlyLate'
  <2>1. ASSUME NEW i \in Of({"file"}), NEW r \in transports'[i].refused
        PROVE  \E c \in called' \ {"handler"} : before'[c] < r
    <3>1. CASE r \in transports[i].refused
      BY <1>4, <3>1 DEF LifecycleInv, RefusedOnlyLate
    <3>2. CASE r \notin transports[i].refused
      <4>1. r \in Running' \ Running /\ ~transports[i].open
        BY <2>1, <3>2 DEF TransportsTurn
      <4>2. PICK c \in called \ {"handler"} : Over(c)
        BY <4>1 DEF LifecycleInv, ClosedByClose
      <4>3. 1..before[c] \subseteq settled \cup dropped
        BY <1>1, <1>6, <4>2 DEF LifecycleInv, CallsInStep
      <4>4. r \notin settled /\ r \notin dropped
        BY <1>2, <4>1 DEF QueueInv, RunsInv, EachTaskOnce, Running
      <4>5. r \notin 1..before[c] /\ r \in 1..MaxTasks /\ before[c] \in 0..MaxTasks /\ MaxTasks \in Nat
        BY <1>1, <4>1, <4>2, <4>3, <4>4, QueueAssumption DEF TaskIds, QueueAssumption
      <4>6. before[c] < r
        BY <4>5
      <4>7. QED
        BY <1>4, <4>2, <4>6
    <3>3. QED
      BY <3>1, <3>2
  <2>2. QED
    BY <1>1, <2>1 DEF RefusedOnlyLate
<1>14. ExitsWhenOver'
  <2>1. ASSUME exited', "shutdown" \in called' PROVE Over("shutdown")'
    <3>1. exited => "shutdown" \in called
      BY <2>1 DEF CallsTurn
    <3>2. Over("shutdown") /\ "shutdown" \in Flushes
      BY <1>1, <2>1, <3>1 DEF CallsTurn, LifecycleInv, ExitsWhenOver
    <3>3. "shutdown" \in called
      BY <3>2 DEF LifecycleInv, CallsInStep, Over
    <3>4. QED
      BY <1>4, <3>2, <3>3
  <2>2. QED
    BY <2>1 DEF ExitsWhenOver
<1>15. QED
  BY <1>7, <1>8, <1>9, <1>10, <1>11, <1>12, <1>13, <1>14 DEF LifecycleInv

-----------------------------------------------------------------------------
(* Every action is such a step. *)

LEMMA OutcomesAre ==
    ASSUME NEW F, NEW f \in Outcomes(F)
    PROVE  DOMAIN f = Indices /\ \A i \in Indices : f[i] \in F[i]
  BY DEF Outcomes

LEMMA TransportsStay ==
    ASSUME LifecycleInv, transports' = transports, Running' = Running
    PROVE  TransportsTurn
  BY CarriesItself DEF LifecycleInv, LifecycleShapes, TransportsTurn, Of

LEMMA OneTransportTurns ==
    ASSUME LifecycleInv, Running' = Running, NEW i \in Indices, kinds[i] # "file", NEW s,
           Carries(kinds[i], transports[i], s), transports' = [transports EXCEPT ![i] = s]
    PROVE  TransportsTurn
<1>1. DOMAIN transports = Indices /\ \A j \in Indices : Sound(kinds[j], transports[j])
  BY DEF LifecycleInv, LifecycleShapes
<1>2. /\ DOMAIN transports' = Indices /\ transports'[i] = s
      /\ \A j \in Indices \ {i} : transports'[j] = transports[j]
  BY <1>1
<1>3. \A j \in Indices : Carries(kinds[j], transports[j], transports'[j])
  BY <1>1, <1>2, CarriesItself
<1>4. QED
  BY <1>2, <1>3 DEF TransportsTurn, Of

LEMMA CallsStay ==
    ASSUME LifecycleInv, UNCHANGED closerVars, called' = called
    PROVE  CallsTurn
<1>1. UNCHANGED <<program, stage, next, awaited, exitAfter, signalled, exited, before>>
  BY DEF closerVars
<1>2. QED
  BY <1>1 DEF CallsTurn, Stays, LifecycleInv, LifecycleShapes

\* writeAndNotify(), by whatever step of the queue started the task.
LEMMA WritesTurn ==
    ASSUME LifecycleInv, QueueInv, QueueInv', [Next]_vars,
           IF Running' = Running THEN UNCHANGED transports
           ELSE \A r \in Running' \ Running : WriteAndNotify(r)
    PROVE  TransportsTurn
<1>1. CASE Running' = Running
  BY <1>1, TransportsStay
<1>2. CASE Running' # Running
  <2>1. Running \subseteq Running' /\ Running' \subseteq TaskIds
    BY QueueGrows DEF QueueInv, TypeOK, Running
  <2>2. PICK r \in Running' \ Running : TRUE
    BY <1>2, <2>1
  <2>3. ASSUME NEW u \in Running' \ Running
        PROVE  /\ DOMAIN transports' = Indices
               /\ \A i \in Indices : transports'[i] \in AfterWrite(i, u)
    <3>1. transports' \in Outcomes([i \in Indices |-> AfterWrite(i, u)])
      BY <1>2, <2>3 DEF WriteAndNotify
    <3>2. QED
      BY <3>1, OutcomesAre
  <2>4. ASSUME NEW u \in Running' \ Running, NEW i \in Indices
        PROVE  /\ Carries(kinds[i], transports[i], transports'[i])
               /\ u \in Kept(kinds[i], transports'[i]) \cup Passed(kinds[i], transports'[i])
               /\ kinds[i] = "file" =>
                     /\ transports'[i].open = transports[i].open
                     /\ transports'[i].refused \subseteq transports[i].refused \cup {u}
                     /\ transports'[i].open => transports'[i].refused = transports[i].refused
    BY <2>1, <2>3, WriteCarries DEF LifecycleInv, LifecycleShapes
  <2>5. QED
    BY <2>2, <2>3, <2>4 DEF TransportsTurn, Of
<1>3. QED
  BY <1>1, <1>2

LEMMA SendSettlesTurn ==
    ASSUME LifecycleInv, SendSettles
    PROVE  TransportsTurn /\ CallsTurn
<1>1. PICK i \in BatchingIndices : \E batch \in transports[i].sending :
          \E after \in Settled(transports[i], batch) :
             transports' = [transports EXCEPT ![i] = after]
  BY DEF SendSettles
<1>2. i \in Indices /\ kinds[i] \in Buffering /\ kinds[i] # "file"
  BY KindsDiffer DEF BatchingIndices, Of
<1>3. UNCHANGED <<vars, closerVars>>
  BY DEF SendSettles
<1>4. Running' = Running /\ called' = called
  BY <1>3 DEF vars, Running, drainVars, runVars, flushVars
<1>5. Sound(kinds[i], transports[i])
  BY <1>2 DEF LifecycleInv, LifecycleShapes
<1>6. QED
  BY <1>1, <1>2, <1>3, <1>4, <1>5, SettledCarries, OneTransportTurns, CallsStay

LEMMA ExportStartsTurn ==
    ASSUME LifecycleInv, ExportStarts
    PROVE  TransportsTurn /\ CallsTurn
<1>1. PICK i \in Of({"otel"}) : transports' = [transports EXCEPT ![i] = Exported(transports[i])]
  BY DEF ExportStarts
<1>2. i \in Indices /\ kinds[i] = "otel" /\ Sound("otel", transports[i])
  BY DEF Of, LifecycleInv, LifecycleShapes
<1>3. UNCHANGED <<vars, closerVars>>
  BY DEF ExportStarts
<1>4. Running' = Running /\ called' = called
  BY <1>3 DEF vars, Running, drainVars, runVars, flushVars
<1>5. Carries(kinds[i], transports[i], Exported(transports[i]))
  BY <1>2, ExportedCarries
<1>6. QED
  BY <1>1, <1>2, <1>3, <1>4, <1>5, OneTransportTurns, CallsStay

LEMMA ExportSettlesTurn ==
    ASSUME LifecycleInv, ExportSettles
    PROVE  TransportsTurn /\ CallsTurn
<1>1. PICK i \in Of({"otel"}) : \E batch \in transports[i].exporting :
          LET over == [transports[i] EXCEPT !.exporting = @ \ {batch}]
          IN  transports' \in {[transports EXCEPT ![i] = [over EXCEPT !.delivered = @ \cup batch]],
                              [transports EXCEPT ![i] = [over EXCEPT !.lost = @ \cup batch]]}
  BY DEF ExportSettles
<1>0. PICK batch \in transports[i].exporting :
          LET over == [transports[i] EXCEPT !.exporting = @ \ {batch}]
          IN  transports' \in {[transports EXCEPT ![i] = [over EXCEPT !.delivered = @ \cup batch]],
                              [transports EXCEPT ![i] = [over EXCEPT !.lost = @ \cup batch]]}
  BY <1>1
<1>2. i \in Indices /\ kinds[i] = "otel" /\ transports[i] \in Provider
  BY SoundProvider DEF Of, LifecycleInv, LifecycleShapes
<1>3. UNCHANGED <<vars, closerVars>>
  BY DEF ExportSettles
<1>4. Running' = Running /\ called' = called
  BY <1>3 DEF vars, Running, drainVars, runVars, flushVars
<1> DEFINE t == transports[i]
           over == [t EXCEPT !.exporting = @ \ {batch}]
<1>5. /\ over \in Provider /\ over.held = t.held /\ over.exporting = t.exporting \ {batch}
      /\ over.delivered = t.delivered /\ over.lost = t.lost /\ batch \in SUBSET TaskIds
  BY <1>2 DEF Provider
<1>6. PICK s \in {[over EXCEPT !.delivered = @ \cup batch], [over EXCEPT !.lost = @ \cup batch]} :
         transports' = [transports EXCEPT ![i] = s]
  BY <1>0
<1> HIDE DEF over, t
<1>7. /\ s \in Provider /\ s.held = t.held /\ s.exporting = t.exporting \ {batch}
      /\ s.delivered \cup s.lost = t.delivered \cup t.lost \cup batch
  BY <1>5, <1>6 DEF Provider
<1>8. Carries("otel", t, s)
  BY <1>7, SoundProvider DEF Carries
<1>9. QED
  BY <1>2, <1>3, <1>4, <1>6, <1>8, OneTransportTurns, CallsStay DEF t

-----------------------------------------------------------------------------
LEMMA LeastNumber ==
    ASSUME NEW T \in SUBSET Nat, T # {}
    PROVE  Min(T) \in T /\ \A m \in T : Min(T) <= m
<1>1. \E n \in T : \A m \in T : n <= m
  BY LeastNatural
<1>2. QED
  BY <1>1 DEF Min

-----------------------------------------------------------------------------
(* The calls *)

LEMMA BeginTurn ==
    ASSUME LifecycleInv, QueueInv, NEW c \in program.ends, Begin(c),
           exitAfter' \in BOOLEAN, signalled' \in BOOLEAN
    PROVE  TransportsTurn /\ CallsTurn
<1>1. /\ held = <<>> /\ Running \subseteq settled /\ ~exited /\ c \notin called
      /\ called' = called \cup {c} /\ owed' = [owed EXCEPT ![c] = Owed]
      /\ UNCHANGED <<started, inlined, program, transports, next, awaited, exited>>
      /\ stage' = [stage EXCEPT ![c] = "flushing"] /\ before' = [before EXCEPT ![c] = submitted]
  BY DEF Begin, Turn, Returned, Flush, drainVars, runVars
<1>2. /\ program \in Programs /\ c \in Flushes /\ submitted \in 0..MaxTasks
      /\ owed \in [Flushes -> SUBSET TaskIds]
      /\ stage \in [Flushes -> {"idle", "flushing", "done", "rejected"}]
      /\ before \in [Flushes -> 0..MaxTasks]
  BY ProgramFacts DEF LifecycleInv, LifecycleShapes, QueueInv, TypeOK
<1>3. TransportsTurn
  BY <1>1, TransportsStay DEF Running
<1>4. 1..submitted \subseteq Owed \cup settled \cup dropped
  <2>1. InQueue(held) = {}
    BY <1>1, EmptySeq DEF InQueue
  <2>2. QED
    BY <1>1, <2>1 DEF QueueInv, EachTaskOnce, Gone, Running, Owed
<1>5. Begins(c)
  BY <1>1, <1>2, <1>4 DEF Begins
<1>6. \A d \in Flushes \ {c} : Stays(d)
  BY <1>1, <1>2 DEF Stays
<1>7. QED
  BY <1>1, <1>2, <1>3, <1>5, <1>6 DEF CallsTurn, LifecycleInv, LifecycleShapes

\* The loop over the transports: each was flushed, so that nothing is kept in one.
LEMMA CloseTransportsTurn ==
    ASSUME LifecycleInv, NEW c \in Flushes \cap called, stage[c] = "flushing", CloseTransports(c),
           Running' = Running, c # "handler"
    PROVE  /\ TransportsTurn
           /\ stage' = [stage EXCEPT ![c] = "done"] \/ stage' = [stage EXCEPT ![c] = "rejected"]
<1>1. PICK after \in Outcomes([i \in Indices |-> AfterClose(i)]) :
         /\ \E reached \in [Indices -> BOOLEAN] :
               transports' = [i \in Indices |-> IF reached[i] THEN after[i] ELSE transports[i]]
         /\ stage' = [stage EXCEPT ![c] = "done"] \/ stage' = [stage EXCEPT ![c] = "rejected"]
  <2>1. PICK after \in Outcomes([i \in Indices |-> AfterClose(i)]) :
           LET throwing == {i \in Indices : CloseThrows(i, after[i])}
               reached(i) == \A j \in throwing : i <= j
           IN  /\ transports' = [i \in Indices |-> IF reached(i) THEN after[i]
                                                                 ELSE transports[i]]
               /\ stage' = [stage EXCEPT ![c] = IF throwing = {} THEN "done" ELSE "rejected"]
    BY DEF CloseTransports
  <2> DEFINE throwing == {i \in Indices : CloseThrows(i, after[i])}
             upTo == [i \in Indices |-> \A j \in throwing : i <= j]
  <2>2. transports' = [i \in Indices |-> IF upTo[i] THEN after[i] ELSE transports[i]]
    BY <2>1
  <2>3. upTo \in [Indices -> BOOLEAN]
    OBVIOUS
  <2>4. stage' = [stage EXCEPT ![c] = "done"] \/ stage' = [stage EXCEPT ![c] = "rejected"]
    BY <2>1
  <2> HIDE DEF upTo
  <2>5. QED
    BY <2>2, <2>3, <2>4
<1>2. DOMAIN transports' = Indices /\ \A i \in Indices : transports'[i] \in {after[i], transports[i]}
  BY <1>1
<1>3. \A i \in Indices : after[i] \in AfterClose(i)
  BY OutcomesAre
<1>4. Over(c)' /\ c \in called \ {"handler"}
  BY <1>1 DEF LifecycleInv, LifecycleShapes, Over
<1>5. ASSUME NEW i \in Indices
      PROVE  /\ Carries(kinds[i], transports[i], transports'[i])
             /\ kinds[i] = "file" => transports'[i].refused = transports[i].refused
  BY <1>2, <1>3, CloseCarries, CarriesItself DEF LifecycleInv, LifecycleShapes
<1>6. QED
  BY <1>1, <1>2, <1>4, <1>5 DEF TransportsTurn, Of

LEMMA ContinueTurn ==
    ASSUME LifecycleInv, QueueInv, NEW c \in Flushes, Continue(c)
    PROVE  TransportsTurn /\ CallsTurn
<1>1. /\ ~exited /\ stage[c] = "flushing" /\ c \in resolved /\ Walk(c)
      /\ UNCHANGED <<started, inlined, called, program, exitAfter, signalled, exited, before>>
  BY DEF Continue, Turn, CanContinue, vars, drainVars, runVars, flushVars
<1>2. /\ program \in Programs /\ c \in called /\ Len(kinds) \in Nat /\ Indices = 1..Len(kinds)
      /\ \A i \in Indices : kinds[i] \in Kinds /\ Sound(kinds[i], transports[i])
      /\ DOMAIN transports = Indices
      /\ stage \in [Flushes -> {"idle", "flushing", "done", "rejected"}]
      /\ next \in [Flushes -> 1..(Len(kinds) + 1)]
      /\ awaited \in [Flushes -> SUBSET SUBSET TaskIds]
  BY <1>1, ProgramFacts DEF LifecycleInv, LifecycleShapes, QueueInv, RunsInv
<1>3. Running' = Running
  BY <1>1 DEF Running
<1> DEFINE ahead == {i \in Indices : kinds[i] # "file" /\ i >= next[c]}
<1>4. ASSUME NEW d \in Flushes, stage'[d] = stage[d], next'[d] = next[d] PROVE Stays(d)
  BY <1>1, <1>4 DEF Stays
<1>5. ASSUME TransportsTurn, Walks(c), \A d \in Flushes \ {c} : Stays(d),
             stage' \in [Flushes -> {"idle", "flushing", "done", "rejected"}],
             next' \in [Flushes -> 1..(Len(kinds) + 1)],
             awaited' \in [Flushes -> SUBSET SUBSET TaskIds]
      PROVE  TransportsTurn /\ CallsTurn
  BY <1>1, <1>5 DEF CallsTurn, LifecycleInv, LifecycleShapes
<1>6. CASE ahead = {}
  <2>1. EndWalk(c) /\ next' = next /\ awaited' = awaited
    BY <1>1, <1>6 DEF Walk, EndWalk
  <2>2. /\ TransportsTurn
        /\ stage' = [stage EXCEPT ![c] = "done"] \/ stage' = [stage EXCEPT ![c] = "rejected"]
    BY <1>1, <1>2, <1>3, <2>1, TransportsStay, CloseTransportsTurn DEF EndWalk
  <2>3. /\ stage' \in [Flushes -> {"idle", "flushing", "done", "rejected"}]
        /\ stage'[c] \in {"done", "rejected"} /\ \A d \in Flushes \ {c} : stage'[d] = stage[d]
    BY <1>2, <2>2
  <2>4. ASSUME NEW j \in Indices PROVE j < next[c] \/ Kept(kinds[j], transports'[j]) = {}
    <3>1. next[c] \in Nat /\ j \in Nat
      BY <1>2
    <3>2. j < next[c] \/ kinds[j] = "file"
      BY <1>6, <3>1
    <3>3. QED
      BY <3>2, SoundFile
  <2>5. Walks(c)
    BY <1>1, <1>2, <2>1, <2>3, <2>4 DEF Walks
  <2>6. QED
    BY <1>2, <1>4, <1>5, <2>1, <2>2, <2>3, <2>5
<1>7. CASE ahead # {}
  <2> DEFINE i == Min(ahead)
  <2>1. ahead \subseteq Nat
    BY <1>2
  <2>2. i \in ahead /\ \A j \in ahead : i <= j
    BY <1>7, <2>1, LeastNumber
  <2>3. /\ \E after \in AfterFlush(i) : transports' = [transports EXCEPT ![i] = after]
        /\ next' = [next EXCEPT ![c] = i + 1]
        /\ awaited' = [awaited EXCEPT ![c] =
                          IF kinds[i] = "otel" THEN transports'[i].exporting \ transports[i].exporting
                                               ELSE {}]
        /\ stage' = stage
    BY <1>1, <1>7 DEF Walk
  <2> HIDE DEF i
  <2>4. /\ i \in Indices /\ kinds[i] # "file" /\ i >= next[c]
        /\ \A j \in Indices : j < i + 1 => j < next[c] \/ kinds[j] = "file" \/ j = i
    <3>1. i \in Nat /\ next[c] \in Nat /\ \A j \in Indices : j \in Nat
      BY <1>2, <2>2
    <3>2. QED
      BY <2>2, <3>1
  <2> HIDE DEF ahead
  <2>5. PICK s \in AfterFlush(i) : transports' = [transports EXCEPT ![i] = s]
    BY <2>3
  <2>6. /\ Carries(kinds[i], transports[i], s) /\ Kept(kinds[i], s) = {}
        /\ kinds[i] = "otel" => s.exporting \subseteq SUBSET TaskIds
    BY <1>2, <2>4, FlushCarries
  <2>7. TransportsTurn /\ transports'[i] = s
    BY <1>2, <1>3, <2>4, <2>5, <2>6, OneTransportTurns
  <2>8. /\ next'[c] = i + 1 /\ \A d \in Flushes \ {c} : next'[d] = next[d]
        /\ next' \in [Flushes -> 1..(Len(kinds) + 1)]
    BY <1>2, <2>3, <2>4
  <2>9. awaited' \in [Flushes -> SUBSET SUBSET TaskIds]
    BY <1>2, <2>3, <2>6, <2>7
  <2>10. \A j \in Indices : j < next'[c] => j < next[c] \/ Kept(kinds[j], transports'[j]) = {}
    BY <2>4, <2>6, <2>7, <2>8, SoundFile
  <2>11. Walks(c)
    BY <1>1, <1>2, <2>3, <2>10 DEF Walks, Over
  <2>12. QED
    BY <1>2, <1>4, <1>5, <2>3, <2>7, <2>8, <2>9, <2>11
<1>8. QED
  BY <1>6, <1>7

LEMMA ExitTurn ==
    ASSUME LifecycleInv, QueueInv,
           Exit \/ NaturalExit \/ (Signal /\ "shutdown" \in called)
    PROVE  TransportsTurn /\ CallsTurn
<1>1. /\ UNCHANGED <<vars, program, transports, stage, next, awaited, exitAfter, before>>
      /\ signalled' \in BOOLEAN /\ exited' \in BOOLEAN
  BY DEF Exit, NaturalExit, Signal, LifecycleInv, LifecycleShapes
<1>2. called' = called /\ Running' = Running
  BY <1>1 DEF vars, Running, drainVars, runVars, flushVars
<1>3. ASSUME exited', "shutdown" \in called, ~exited PROVE Over("shutdown")
  <2>1. CASE Exit
    BY <2>1 DEF Exit
  <2>2. CASE NaturalExit
    <3>1. /\ ~scheduled /\ ~draining /\ ~CanContinue("shutdown")
          /\ \A i \in Of({"otel"}) : transports[i].exporting = {}
      BY <1>3, <2>2 DEF NaturalExit, LoopEmpty, QueueInv, TypeOK
    <3>2. "shutdown" \in resolved
      BY <1>3, <3>1 DEF QueueInv, CalledWaits, NothingStranded
    <3>3. stage["shutdown"] # "flushing"
      BY <3>1, <3>2 DEF CanContinue
    <3>4. /\ stage["shutdown"] \in {"idle", "flushing", "done", "rejected"}
          /\ stage["shutdown"] # "idle"
      BY <1>3 DEF LifecycleInv, LifecycleShapes, CallsInStep, QueueInv, TypeOK
    <3>5. QED
      BY <3>3, <3>4 DEF Over
  <2>3. CASE Signal
    BY <1>3, <2>3 DEF Signal, Turn
  <2>4. QED
    BY <2>1, <2>2, <2>3
<1>4. TransportsTurn
  BY <1>1, <1>2, TransportsStay
<1>5. QED
  BY <1>1, <1>2, <1>3, <1>4 DEF CallsTurn, Stays, LifecycleInv, LifecycleShapes

-----------------------------------------------------------------------------
(* The queue in a logger takes the steps of the queue alone. *)

LEMMA QueueStepIsNext ==
    ASSUME program \in Programs, LifecycleNext
    PROVE  [Next]_vars
<1>1. CASE \/ QueueStep(Enqueue) \/ QueueStep(OnDropReturns) \/ QueueStep(Tick)
           \/ QueueStep(RunScheduled) \/ QueueStep(ResumeDrain) \/ TaskReturns
  BY <1>1 DEF QueueStep, TaskReturns, Next
<1>2. CASE SendSettles \/ ExportStarts \/ ExportSettles \/ Exit \/ NaturalExit
           \/ \E c \in Flushes : Continue(c)
  BY <1>2 DEF SendSettles, ExportStarts, ExportSettles, Exit, NaturalExit, Continue
<1>3. ASSUME NEW c \in program.ends, Begin(c) PROVE Next
  BY <1>3, ProgramFacts DEF Begin, Next
<1>4. CASE \E c \in Flushes : Call(c)
  BY <1>3, <1>4 DEF Call
<1>5. CASE Signal
  BY <1>3, <1>5 DEF Signal
<1>6. CASE BeforeExit
  BY <1>3, <1>6 DEF BeforeExit
<1>7. QED
  BY <1>1, <1>2, <1>4, <1>5, <1>6 DEF LifecycleNext

LEMMA StepTurns ==
    ASSUME LifecycleInv, QueueInv, QueueInv', [Next]_vars, [LifecycleNext]_lifecycleVars
    PROVE  TransportsTurn /\ CallsTurn
<1>2. CASE QueueStep(Enqueue)
  <2>1. called' = called
    BY <1>2 DEF QueueStep, Enqueue, flushVars
  <2>2. QED
    BY <1>2, <2>1, WritesTurn, CallsStay DEF QueueStep
<1>3. CASE QueueStep(OnDropReturns)
  <2>1. called' = called
    BY <1>3 DEF QueueStep, OnDropReturns, flushVars
  <2>2. QED
    BY <1>3, <2>1, WritesTurn, CallsStay DEF QueueStep
<1>4. CASE QueueStep(Tick)
  <2>1. called' = called
    BY <1>4 DEF QueueStep, Tick, flushVars
  <2>2. QED
    BY <1>4, <2>1, WritesTurn, CallsStay DEF QueueStep
<1>5. CASE QueueStep(RunScheduled)
  <2>1. called' = called
    BY <1>5 DEF QueueStep, RunScheduled
  <2>2. QED
    BY <1>5, <2>1, WritesTurn, CallsStay DEF QueueStep
<1>6. CASE QueueStep(ResumeDrain)
  <2>1. called' = called
    BY <1>6 DEF QueueStep, ResumeDrain
  <2>2. QED
    BY <1>6, <2>1, WritesTurn, CallsStay DEF QueueStep
<1>7. CASE TaskReturns
  <2>1. UNCHANGED <<transports, closerVars, started, inlined, called>>
    BY <1>7 DEF TaskReturns, Settle, drainVars, flushVars
  <2>2. QED
    BY <2>1, TransportsStay, CallsStay DEF Running
<1>8. CASE SendSettles \/ ExportStarts \/ ExportSettles
  BY <1>8, SendSettlesTurn, ExportStartsTurn, ExportSettlesTurn
<1>9. ASSUME NEW c \in Flushes, Call(c) PROVE TransportsTurn /\ CallsTurn
  <2>1. c \in program.ends /\ Begin(c) /\ exitAfter' = exitAfter /\ signalled' = signalled
    BY <1>9 DEF Call
  <2>2. QED
    BY <2>1, BeginTurn DEF LifecycleInv, LifecycleShapes
<1>10. CASE \E c \in Flushes : Continue(c)
  BY <1>10, ContinueTurn
<1>11. CASE Signal
  <2>1. CASE "shutdown" \in called
    BY <1>11, <2>1, ExitTurn
  <2>2. CASE "shutdown" \notin called
    <3>1. /\ "shutdown" \in program.ends /\ Begin("shutdown")
          /\ exitAfter' = TRUE /\ signalled' = TRUE
      BY <1>11, <2>2 DEF Signal
    <3>2. QED
      BY <3>1, BeginTurn
  <2>3. QED
    BY <2>1, <2>2
<1>12. CASE BeforeExit
  <2>1. /\ "shutdown" \in program.ends /\ Begin("shutdown")
        /\ exitAfter' = exitAfter /\ signalled' = signalled
    BY <1>12 DEF BeforeExit
  <2>2. QED
    BY <2>1, BeginTurn DEF LifecycleInv, LifecycleShapes
<1>13. CASE Exit \/ NaturalExit
  BY <1>13, ExitTurn
<1>14. CASE UNCHANGED lifecycleVars
  <2>1. UNCHANGED <<transports, closerVars, started, inlined, called>>
    BY <1>14 DEF lifecycleVars, vars, drainVars, runVars, flushVars
  <2>2. QED
    BY <2>1, TransportsStay, CallsStay DEF Running
<1>15. QED
  BY <1>2, <1>3, <1>4, <1>5, <1>6, <1>7, <1>8, <1>9, <1>10, <1>11, <1>12, <1>13, <1>14
     DEF LifecycleNext

LEMMA LifecycleStarts == LifecycleInit => LifecycleInv
<1> SUFFICES ASSUME LifecycleInit PROVE LifecycleInv
  OBVIOUS
<1>1. /\ program \in Programs /\ transports = [i \in Indices |-> Fresh(kinds[i])]
      /\ stage = [c \in Flushes |-> "idle"] /\ next = [c \in Flushes |-> 1]
      /\ awaited = [c \in Flushes |-> {}] /\ before = [c \in Flushes |-> 0]
      /\ exitAfter = FALSE /\ signalled = FALSE /\ exited = FALSE
      /\ called = {} /\ started = {} /\ inlined = {}
  BY DEF LifecycleInit, Init
<1>2. \A i \in Indices :
         /\ Sound(kinds[i], transports[i])
         /\ kinds[i] = "file" => transports[i].open /\ transports[i].refused = {}
  BY <1>1, ProgramFacts, FreshSound
<1>3. Len(kinds) \in Nat /\ MaxTasks \in Nat
  BY <1>1, ProgramFacts, QueueAssumption DEF QueueAssumption
<1>4. LifecycleShapes
  <2>1. DOMAIN transports = Indices
    BY <1>1
  <2>2. 1 \in 1..(Len(kinds) + 1) /\ 0 \in 0..MaxTasks
    BY <1>3
  <2>3. /\ stage \in [Flushes -> {"idle", "flushing", "done", "rejected"}]
        /\ next \in [Flushes -> 1..(Len(kinds) + 1)] /\ before \in [Flushes -> 0..MaxTasks]
        /\ awaited \in [Flushes -> SUBSET SUBSET TaskIds]
    BY <1>1, <2>2
  <2>4. QED
    BY <1>1, <1>2, <2>1, <2>3 DEF LifecycleShapes
<1>5. CallsInStep
  BY <1>1 DEF CallsInStep, Over
<1>6. RunIsWritten /\ OwedToCalls /\ ExitsWhenOver
  BY <1>1 DEF RunIsWritten, OwedToCalls, ExitsWhenOver, Running
<1>7. WalkedIsPassed
  BY <1>1 DEF WalkedIsPassed
<1>8. ClosedByClose /\ RefusedOnlyLate
  BY <1>2 DEF ClosedByClose, RefusedOnlyLate, Of
<1>9. QED
  BY <1>4, <1>5, <1>6, <1>7, <1>8 DEF LifecycleInv

LEMMA LifecycleInvHolds == LifecycleSpec => [](LifecycleInv /\ QueueInv)
<1>1. LifecycleInit => program \in Programs
  BY DEF LifecycleInit
<1>2. program \in Programs /\ [LifecycleNext]_lifecycleVars => [Next]_vars
  <2>1. UNCHANGED lifecycleVars => UNCHANGED vars
    BY DEF lifecycleVars
  <2>2. QED
    BY <2>1, QueueStepIsNext
<1>3. program \in Programs /\ [LifecycleNext]_lifecycleVars => (program \in Programs)'
  BY DEF LifecycleNext, QueueStep, TaskReturns, SendSettles, ExportStarts, ExportSettles, Call,
         Begin, Continue, Signal, BeforeExit, Exit, NaturalExit, lifecycleVars, closerVars
<1>4. LifecycleInit => Init
  BY DEF LifecycleInit
<1>5. LifecycleSpec => Steps
  BY <1>1, <1>2, <1>3, <1>4, PTL DEF LifecycleSpec, Steps
<1>6. LifecycleSpec => []QueueInv
  BY <1>5, TypeHolds, EachTaskOnceHolds, FlushInvHolds, RunsInvHolds, NothingStrandedHolds,
     CalledWaitsHolds, PTL DEF QueueInv
<1>7. LifecycleInit => LifecycleInv
  BY LifecycleStarts
<1>8. QueueInv /\ QueueInv' /\ LifecycleInv /\ [LifecycleNext]_lifecycleVars => LifecycleInv'
  <2> SUFFICES ASSUME QueueInv, QueueInv', LifecycleInv, [LifecycleNext]_lifecycleVars
               PROVE  LifecycleInv'
    OBVIOUS
  <2>1. [Next]_vars
    BY <1>2 DEF LifecycleInv, LifecycleShapes
  <2>2. QED
    BY <2>1, StepTurns, TurnKeeps
<1>9. QED
  BY <1>6, <1>7, <1>8, PTL DEF LifecycleSpec

-----------------------------------------------------------------------------
(* What it is for. *)

\* Record r has been through transport i as far as the properties can tell.
LEMMA HandedOutIsPassed ==
    ASSUME program \in Programs, NEW i \in Indices, NEW r
    PROVE  HandedOut(i, r) <=> r \in Passed(kinds[i], transports[i])
<1>1. CASE kinds[i] \in Buffering
  BY <1>1, KindsDiffer DEF HandedOut, Passed
<1>2. CASE kinds[i] = "otel"
  BY <1>2, KindsDiffer DEF HandedOut, Passed
<1>3. CASE kinds[i] = "file"
  BY <1>3, KindsDiffer DEF HandedOut, Passed
<1>4. QED
  BY <1>1, <1>2, <1>3, KindsDiffer, ProgramFacts

\* Transports keep their shapes, whatever records are written to them and however the
\* calls overlap, and the walks of close(), shutdown() and withFlush keep within the
\* transports there are.
THEOREM LifecycleTypeCorrect == LifecycleSpec => []LifecycleTypeOK
<1>1. LifecycleInv => LifecycleTypeOK
  <2> SUFFICES ASSUME LifecycleInv PROVE LifecycleTypeOK
    OBVIOUS
  <2>1. LifecycleShapes
    BY DEF LifecycleInv
  <2>2. ASSUME NEW i \in BatchingIndices
        PROVE  /\ transports[i].buffer \in Seq(TaskIds) /\ transports[i].bytes \in Nat
               /\ transports[i].sending \subseteq Elements(transports[i].sent)
               /\ transports[i].delivered \cup transports[i].lost \subseteq TaskIds
    <3>1. /\ transports[i] \in BufferState(TaskIds)
          /\ transports[i].sending \subseteq Elements(transports[i].sent)
      BY <2>1 DEF LifecycleShapes, BatchingIndices, Of, Sound
    <3>2. QED
      BY <3>1, StateFields
  <2>3. \A i \in Of({"otel"}) : transports[i] \in Provider
    BY <2>1, SoundProvider DEF LifecycleShapes, Of
  <2>4. \A i \in Of({"otel"}) :
           /\ transports[i].exporting \subseteq SUBSET TaskIds
           /\ transports[i].held \cup transports[i].delivered \cup transports[i].lost \subseteq TaskIds
    BY <2>3 DEF Provider
  <2>5. \A i \in Of({"file"}) : transports[i] \in File
    BY <2>1, SoundFile DEF LifecycleShapes, Of
  <2>6. QED
    BY <2>1, <2>2, <2>4, <2>5 DEF LifecycleTypeOK, LifecycleShapes, File
<1>2. QED
  BY <1>1, LifecycleInvHolds, PTL

\* close(), shutdown() and withFlush return, or reject, only when every record logged
\* before the call was evicted or has left every buffer on its way, although calls
\* overlap, callers go on logging and a transport that throws ends the close() loop.
THEOREM CallsEmptyTheLogger == LifecycleSpec => []EmptiedOnReturn
<1>1. LifecycleInv => EmptiedOnReturn
  <2> SUFFICES ASSUME LifecycleInv, NEW c \in Flushes, Over(c), NEW r \in 1..before[c],
                      r \notin dropped, NEW i \in Indices
               PROVE  HandedOut(i, r)
    BY DEF EmptiedOnReturn
  <2>1. r \in Passed(kinds[i], transports[i])
    BY DEF LifecycleInv, WalkedIsPassed
  <2>2. QED
    BY <2>1, HandedOutIsPassed DEF LifecycleInv, LifecycleShapes
<1>2. QED
  BY <1>1, LifecycleInvHolds, PTL

\* A process with the shutdown handlers never stops, on a signal or of itself, with a
\* record queued or buffered that was logged before the shutdown began.
THEOREM NothingIsQueuedAtExit ==
    ASSUME "shutdown" \in Flushes
    PROVE  LifecycleSpec => []NothingQueuedAtExit
<1>1. LifecycleInv => NothingQueuedAtExit
  <2> SUFFICES ASSUME LifecycleInv, exited, NEW r \in 1..before["shutdown"],
                      r \notin dropped, NEW i \in Indices
               PROVE  HandedOut(i, r)
    BY DEF NothingQueuedAtExit
  <2>1. "shutdown" \in called
    <3>1. "shutdown" \notin called => before["shutdown"] = 0
      BY DEF LifecycleInv, CallsInStep
    <3>2. QED
      BY <3>1
  <2>2. Over("shutdown")
    BY <2>1 DEF LifecycleInv, ExitsWhenOver
  <2>3. r \in Passed(kinds[i], transports[i])
    BY <2>2 DEF LifecycleInv, WalkedIsPassed
  <2>4. QED
    BY <2>3, HandedOutIsPassed DEF LifecycleInv, LifecycleShapes
<1>2. QED
  BY <1>1, LifecycleInvHolds, PTL

\* A file transport refuses a record because it was closed only if the record was
\* logged after some close() was called: a close() in progress costs no record that
\* came before it.
THEOREM FilesRefuseOnlyLate == LifecycleSpec => []RefusedOnlyLate
<1>1. LifecycleInv => RefusedOnlyLate
  BY DEF LifecycleInv
<1>2. QED
  BY <1>1, LifecycleInvHolds, PTL
=============================================================================
