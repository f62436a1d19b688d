----------------------- MODULE BatchingTransportProofs -----------------------
(***************************************************************************)
(* Proofs about BatchingTransport, for every bound and any number of       *)
(* writes, from what the operations of BatchBuffer do.                     *)
(***************************************************************************)
EXTENDS BatchingTransport, BatchBufferProofs

-----------------------------------------------------------------------------
(* The moves of BatchBuffer as actions. *)

LEMMA NextRecord ==
    ASSUME TypeOK, Write
    PROVE  /\ Len(sizes) + 1 \in Records /\ sizes' \in Seq(Sizes) /\ Len(sizes') <= MaxWrites
           /\ DOMAIN sizes' = DOMAIN sizes \cup {Len(sizes) + 1}
           /\ Len(sizes) + 1 \notin DOMAIN sizes
<1>1. PICK size \in Sizes : sizes' = Append(sizes, size)
  BY DEF Write
<1>2. /\ DOMAIN sizes = 1..Len(sizes) /\ Len(sizes) \in Nat /\ Len(sizes) < MaxWrites
      /\ DOMAIN sizes' = 1..(Len(sizes) + 1) /\ Len(sizes') = Len(sizes) + 1
      /\ sizes' \in Seq(Sizes) /\ MaxWrites \in Nat
  BY <1>1, WritesAssumption, AppendProperties DEF TypeOK, Write, WritesAssumption
<1>3. 1..(Len(sizes) + 1) = (1..Len(sizes)) \cup {Len(sizes) + 1}
  BY <1>2
<1>4. QED
  BY <1>2, <1>3 DEF Records

LEMMA SizesGiven ==
    ASSUME NEW size \in Sizes
    PROVE  size \in Nat \cup {ToItemThrows, SizeOfThrows}
  BY WritesAssumption DEF WritesAssumption

LEMMA MovedType ==
    ASSUME NEW b \in BufferState(Records), b.sending \subseteq Elements(b.sent),
           NEW s, Moved(Records, b, s)
    PROVE  s \in BufferState(Records) /\ s.sending \subseteq Elements(s.sent)
<1>1. Elements(s.sent) = Elements(b.sent) \cup {b.buffer}
  BY StateFields, ElementsAppend DEF Moved
<1>2. QED
  BY <1>1 DEF Moved

\* The transport keeps its type whatever sends and conversions do.
THEOREM TransportTypeCorrect == Spec => []TypeOK
<1>1. Init => TypeOK
  <2> SUFFICES ASSUME Init PROVE TypeOK
    OBVIOUS
  <2>1. sizes = <<>> /\ transport = EmptyTransport
    BY DEF Init
  <2>2. transport \in BufferState(Records)
    BY <2>1, EmptySeq DEF EmptyTransport, BufferState
  <2>3. sizes \in Seq(Sizes) /\ Len(sizes) <= MaxWrites
    BY <2>1, EmptySeq, WritesAssumption DEF WritesAssumption
  <2>4. transport.sending = {}
    BY <2>1 DEF EmptyTransport
  <2>5. QED
    BY <2>2, <2>3, <2>4 DEF TypeOK, BufferState
<1>2. TypeOK /\ [Next]_vars => TypeOK'
  <2> SUFFICES ASSUME TypeOK, [Next]_vars PROVE TypeOK'
    OBVIOUS
  <2>1. transport \in BufferState(Records) /\ transport.sending \subseteq Elements(transport.sent)
    BY DEF TypeOK, BufferState
  <2>2. ASSUME transport' \in BufferState(Records),
               transport'.sending \subseteq Elements(transport'.sent),
               sizes' \in Seq(Sizes), Len(sizes') <= MaxWrites
        PROVE  TypeOK'
    BY <2>2 DEF TypeOK, BufferState
  <2>3. CASE Write
    <3>1. PICK size \in Sizes : transport' \in Written(transport, Len(sizes) + 1, size)
      BY <2>3 DEF Write
    <3>2. CASE transport' = [transport EXCEPT !.lost = @ \cup {Len(sizes) + 1}]
      <4>1. /\ transport' \in BufferState(Records) /\ transport'.sending = transport.sending
            /\ transport'.sent = transport.sent
        BY <2>1, <2>3, <3>2, NextRecord DEF BufferState
      <4>2. QED
        BY <2>1, <2>2, <2>3, <4>1, NextRecord
    <3>3. ASSUME NEW p \in BufferState(Records),
                 p.sent = transport.sent, p.sending = transport.sending,
                 Moved(Records, p, transport') \/ transport' = p
          PROVE  TypeOK'
      <4>1. /\ transport' \in BufferState(Records)
            /\ transport'.sending \subseteq Elements(transport'.sent)
        BY <2>1, <3>3, MovedType
      <4>2. QED
        BY <2>2, <2>3, <4>1, NextRecord
    <3>4. QED
      BY <2>1, <2>3, <3>1, <3>2, <3>3, NextRecord, SizesGiven, WrittenMoves
  <2>4. CASE Flush
    <3>1. Moved(Records, transport, transport') \/ transport' = transport
      BY <2>1, <2>4, FlushedMoves DEF Flush
    <3>2. sizes' = sizes /\ sizes \in Seq(Sizes) /\ Len(sizes) <= MaxWrites
      BY <2>4 DEF Flush, TypeOK
    <3>3. QED
      BY <2>1, <2>2, <3>1, <3>2, MovedType
  <2>5. CASE Settle
    BY <2>1, <2>2, <2>5, SettledMoves DEF Settle, TypeOK
  <2>6. CASE UNCHANGED vars
    BY <2>1, <2>2, <2>6 DEF vars, TypeOK
  <2>7. QED
    BY <2>3, <2>4, <2>5, <2>6 DEF Next
<1>3. QED
  BY <1>1, <1>2, PTL DEF Spec

\* When every record that reaches the buffer can be sized, no call leaves the
\* buffer at either threshold.
THEOREM BufferIsBounded ==
    ASSUME SizeOfThrows \notin Sizes
    PROVE  Spec => []BufferBounded
<1>1. \A b \in BufferState(Records) :
         b.buffer = <<>> /\ b.bytes = 0 => Len(b.buffer) < MaxRecords /\ b.bytes < MaxBytes
  BY BufferAssumption, EmptySeq DEF BufferAssumption
<1>2. Init => BufferBounded
  BY BufferAssumption, EmptySeq DEF BufferAssumption, Init, BufferBounded, EmptyTransport
<1>3. TypeOK /\ BufferBounded /\ [Next]_vars => BufferBounded'
  <2> SUFFICES ASSUME TypeOK, BufferBounded, [Next]_vars PROVE BufferBounded'
    OBVIOUS
  <2>1. transport \in BufferState(Records)
    BY DEF TypeOK, BufferState
  <2>2. ASSUME NEW p, Moved(Records, p, transport') PROVE BufferBounded'
    BY <1>1, <2>2 DEF Moved, BufferBounded
  <2>3. ASSUME transport'.buffer = transport.buffer, transport'.bytes = transport.bytes
        PROVE  BufferBounded'
    BY <2>3 DEF BufferBounded
  <2>4. CASE Write
    <3>1. PICK size \in Sizes : transport' \in Written(transport, Len(sizes) + 1, size)
      BY <2>4 DEF Write
    <3>2. CASE transport' = [transport EXCEPT !.lost = @ \cup {Len(sizes) + 1}]
      <4>1. transport'.buffer = transport.buffer /\ transport'.bytes = transport.bytes
        BY <2>1, <3>2 DEF BufferState
      <4>2. QED
        BY <2>3, <4>1
    <3>3. ASSUME NEW p \in BufferState(Records), transport' = p, ~Full(p) PROVE BufferBounded'
      <4>1. Len(p.buffer) \in Nat /\ p.bytes \in Nat
        BY StateFields
      <4>2. QED
        BY <3>3, <4>1, BufferAssumption DEF Full, BufferBounded, BufferAssumption
    <3>4. QED
      BY <2>1, <2>2, <2>4, <3>1, <3>2, <3>3, NextRecord, SizesGiven, WrittenMoves
  <2>5. CASE Flush
    BY <2>1, <2>2, <2>3, <2>5, FlushedMoves DEF Flush
  <2>6. CASE Settle
    BY <2>1, <2>3, <2>6, SettledMoves DEF Settle
  <2>7. CASE UNCHANGED vars
    BY <2>3, <2>7 DEF vars
  <2>8. QED
    BY <2>4, <2>5, <2>6, <2>7 DEF Next
<1>4. QED
  BY <1>2, <1>3, TransportTypeCorrect, PTL DEF Spec

-----------------------------------------------------------------------------
(* OnePlace, said of a state b and the records D it has been given. *)

InFlight(b) == UNION {Elements(batch) : batch \in b.sending}
Ended(b) == b.delivered \cup b.lost

Placed(b, D) ==
    /\ D = Elements(b.buffer) \cup InFlight(b) \cup Ended(b)
    /\ Elements(b.buffer) \cap (InFlight(b) \cup Ended(b)) = {}
    /\ InFlight(b) \cap Ended(b) = {}
    /\ b.delivered \cap b.lost = {}
    /\ \A x, y \in b.sending : x # y => Elements(x) \cap Elements(y) = {}

LEMMA MovedPlaced ==
    ASSUME NEW b, NEW s, NEW D, Placed(b, D), Moved(Records, b, s)
    PROVE  Placed(s, D)
<1>1. s.buffer = <<>> /\ Elements(s.buffer) = {}
  BY DEF Moved, Elements
<1>2. CASE s.sending = b.sending \cup {b.buffer} /\ s.delivered = b.delivered /\ s.lost = b.lost
  <2>1. InFlight(s) = InFlight(b) \cup Elements(b.buffer) /\ Ended(s) = Ended(b)
    BY <1>2 DEF InFlight, Ended
  <2>2. \A x \in b.sending : Elements(x) \subseteq InFlight(b)
    BY DEF InFlight
  <2>3. \A x, y \in s.sending : x # y => Elements(x) \cap Elements(y) = {}
    BY <1>2, <2>2 DEF Placed
  <2>4. QED
    BY <1>1, <1>2, <2>1, <2>3 DEF Placed
<1>3. CASE s.sending = b.sending /\ s.delivered = b.delivered \cup Elements(b.buffer)
           /\ s.lost = b.lost
  <2>1. InFlight(s) = InFlight(b)
    BY <1>3 DEF InFlight
  <2>2. QED
    BY <1>1, <1>3, <2>1 DEF Placed, Ended
<1>4. CASE s.sending = b.sending /\ s.delivered = b.delivered
           /\ s.lost = b.lost \cup Elements(b.buffer)
  <2>1. InFlight(s) = InFlight(b)
    BY <1>4 DEF InFlight
  <2>2. QED
    BY <1>1, <1>4, <2>1 DEF Placed, Ended
<1>5. QED
  BY <1>2, <1>3, <1>4 DEF Moved

LEMMA SettledPlaced ==
    ASSUME NEW b \in BufferState(Records), NEW batch \in b.sending, NEW s \in Settled(b, batch),
           NEW D, Placed(b, D)
    PROVE  Placed(s, D)
<1>1. /\ s.buffer = b.buffer /\ s.sending = b.sending \ {batch}
      /\ \/ s.delivered = b.delivered \cup Elements(batch) /\ s.lost = b.lost
         \/ s.lost = b.lost \cup Elements(batch) /\ s.delivered = b.delivered
  BY SettledMoves
<1>2. InFlight(s) = InFlight(b) \ Elements(batch) /\ Elements(batch) \subseteq InFlight(b)
  BY <1>1 DEF InFlight, Placed
<1>3. Ended(s) = Ended(b) \cup Elements(batch)
  BY <1>1 DEF Ended
<1>4. \A x, y \in s.sending : x # y => Elements(x) \cap Elements(y) = {}
  BY <1>1 DEF Placed
<1>5. s.delivered \cap s.lost = {}
  BY <1>1, <1>2 DEF Placed, Ended
<1>6. QED
  BY <1>1, <1>2, <1>3, <1>4, <1>5 DEF Placed

LEMMA WrittenPlaced ==
    ASSUME NEW b \in BufferState(Records), NEW r \in Records, NEW size \in Sizes,
           NEW s \in Written(b, r, size), NEW D, Placed(b, D), r \notin D
    PROVE  Placed(s, D \cup {r})
<1>1. CASE s = [b EXCEPT !.lost = @ \cup {r}]
  <2>1. /\ s.buffer = b.buffer /\ s.sending = b.sending /\ s.delivered = b.delivered
        /\ s.lost = b.lost \cup {r}
    BY <1>1 DEF BufferState
  <2>2. InFlight(s) = InFlight(b)
    BY <2>1 DEF InFlight
  <2>3. QED
    BY <2>1, <2>2 DEF Placed, Ended
<1>2. ASSUME NEW p \in BufferState(Records), p.buffer = Append(b.buffer, r), p.sending = b.sending,
             p.delivered = b.delivered, p.lost = b.lost, Moved(Records, p, s) \/ s = p
      PROVE  Placed(s, D \cup {r})
  <2>1. Elements(p.buffer) = Elements(b.buffer) \cup {r}
    BY <1>2, StateFields, ElementsAppend
  <2>2. InFlight(p) = InFlight(b) /\ Ended(p) = Ended(b)
    BY <1>2 DEF InFlight, Ended
  <2>3. Placed(p, D \cup {r})
    BY <1>2, <2>1, <2>2 DEF Placed
  <2>4. QED
    BY <1>2, <2>3, MovedPlaced
<1>3. QED
  <2>1. size \in Nat \cup {ToItemThrows, SizeOfThrows}
    BY SizesGiven
  <2>2. \/ s = [b EXCEPT !.lost = @ \cup {r}]
        \/ \E p \in BufferState(Records) :
              /\ p.buffer = Append(b.buffer, r) /\ p.sending = b.sending
              /\ p.delivered = b.delivered /\ p.lost = b.lost
              /\ Moved(Records, p, s) \/ s = p
    BY <2>1, WrittenMoves
  <2>3. QED
    BY <1>1, <1>2, <2>2

\* A record is never duplicated, nor forgotten, between buffer, pending sends
\* and their outcomes.
THEOREM RecordsInOnePlace == Spec => []OnePlace
<1>1. OnePlace <=> Placed(transport, DOMAIN sizes)
  BY DEF OnePlace, Placed, Pending, InFlight, Ended
<1>2. Init => Placed(transport, DOMAIN sizes)
  BY DEF Init, EmptyTransport, Placed, InFlight, Ended, Elements
<1>3. TypeOK /\ Placed(transport, DOMAIN sizes) /\ [Next]_vars => Placed(transport, DOMAIN sizes)'
  <2> SUFFICES ASSUME TypeOK, Placed(transport, DOMAIN sizes), [Next]_vars
               PROVE  Placed(transport', DOMAIN sizes')
    OBVIOUS
  <2>1. transport \in BufferState(Records)
    BY DEF TypeOK, BufferState
  <2>2. CASE Write
    <3>1. PICK size \in Sizes : transport' \in Written(transport, Len(sizes) + 1, size)
      BY <2>2 DEF Write
    <3>2. QED
      BY <2>1, <2>2, <3>1, NextRecord, WrittenPlaced
  <2>3. CASE Flush
    BY <2>1, <2>3, FlushedMoves, MovedPlaced DEF Flush
  <2>4. CASE Settle
    BY <2>1, <2>4, SettledPlaced DEF Settle
  <2>5. CASE UNCHANGED vars
    BY <2>5 DEF vars
  <2>6. QED
    BY <2>2, <2>3, <2>4, <2>5 DEF Next
<1>4. QED
  BY <1>1, <1>2, <1>3, TransportTypeCorrect, PTL DEF Spec
-----------------------------------------------------------------------------
(* Bytes: a function defined by recursion on a length exists, by the least  *)
(* length for which it would not.                                           *)

SumsTo(f, q, m, weight) ==
    f = [n \in 0..m |-> IF n = 0 THEN 0 ELSE f[n - 1] + weight[q[n]]]

Weights == [r \in Records |-> IF sizes[r] \in Nat THEN sizes[r] ELSE 0]

LEMMA SumExists ==
    ASSUME NEW q, NEW m \in Nat, NEW weight
    PROVE  \E f : SumsTo(f, q, m, weight)
<1> DEFINE None == {n \in Nat : ~\E f : SumsTo(f, q, n, weight)}
<1> SUFFICES ASSUME None # {} PROVE FALSE
  OBVIOUS
<1>1. PICK n \in None : \A k \in None : n <= k
  BY LeastNatural
<1>2. n # 0
  <2>1. SumsTo([k \in 0..0 |-> 0], q, 0, weight)
    BY DEF SumsTo
  <2>2. QED
    BY <2>1
<1>3. PICK f : SumsTo(f, q, n - 1, weight)
  <2>1. n - 1 \in Nat /\ n - 1 \notin None
    BY <1>1, <1>2
  <2>2. QED
    BY <2>1
<1> DEFINE g == [k \in 0..n |-> IF k = n THEN f[n - 1] + weight[q[n]] ELSE f[k]]
<1>4. SumsTo(g, q, n, weight)
  <2>1. \A k \in 0..n : g[k] = IF k = 0 THEN 0 ELSE g[k - 1] + weight[q[k]]
    BY <1>2, <1>3 DEF SumsTo
  <2>2. QED
    BY <2>1 DEF SumsTo
<1>5. QED
  BY <1>1, <1>4

\* It is one function, on the part of two sequences that is the same.
LEMMA SumsAgree ==
    ASSUME NEW q, NEW p, NEW m \in Nat, NEW l \in Nat, NEW v, NEW w, NEW f, NEW g,
           SumsTo(f, q, m, v), SumsTo(g, p, l, w),
           NEW k \in Nat, k <= m, k <= l, \A i \in 1..k : v[q[i]] = w[p[i]]
    PROVE  f[k] = g[k]
<1> DEFINE Differ == {n \in 0..k : f[n] # g[n]}
<1> SUFFICES ASSUME Differ # {} PROVE FALSE
  OBVIOUS
<1>1. PICK n \in Differ : \A i \in Differ : n <= i
  <2>1. Differ \in SUBSET Nat
    OBVIOUS
  <2>2. QED
    BY <2>1, LeastNatural
<1>2. /\ f[n] = IF n = 0 THEN 0 ELSE f[n - 1] + v[q[n]]
      /\ g[n] = IF n = 0 THEN 0 ELSE g[n - 1] + w[p[n]]
  BY <1>1 DEF SumsTo
<1>3. n # 0 => f[n - 1] = g[n - 1]
  BY <1>1
<1>4. QED
  BY <1>1, <1>2, <1>3

Summed(b, weight) ==
    \E f : SumsTo(f, b.buffer, Len(b.buffer), weight) /\ b.bytes = f[Len(b.buffer)]

LEMMA BytesAreSum ==
    ASSUME TypeOK
    PROVE  BytesMatch <=> Summed(transport, Weights)
<1> DEFINE q == transport.buffer
<1>1. q \in Seq(Records) /\ Len(q) \in Nat /\ \A n \in 1..Len(q) : q[n] \in Records
  BY DEF TypeOK
<1>2. \A n \in 1..Len(q) : Weights[q[n]] = SizeOf(q[n])
  BY <1>1 DEF Weights, SizeOf
<1> HIDE DEF q
<1>3. \A f : SumsTo(f, q, Len(q), Weights) <=>
             f = [n \in 0..Len(q) |-> IF n = 0 THEN 0 ELSE f[n - 1] + SizeOf(q[n])]
  BY <1>1, <1>2 DEF SumsTo
<1>4. PICK f : SumsTo(f, q, Len(q), Weights)
  BY <1>1, SumExists
<1> DEFINE chosen == CHOOSE g : g = [n \in 0..Len(q) |-> IF n = 0 THEN 0 ELSE g[n - 1] + SizeOf(q[n])]
<1>5. SumsTo(chosen, q, Len(q), Weights)
  BY <1>3, <1>4
<1>6. BytesOf(q) = chosen[Len(q)]
  BY DEF BytesOf
<1> HIDE DEF chosen
<1>7. ASSUME NEW g, SumsTo(g, q, Len(q), Weights) PROVE g[Len(q)] = BytesOf(q)
  BY <1>1, <1>5, <1>6, <1>7, SumsAgree
<1>8. QED
  BY <1>4, <1>7 DEF BytesMatch, Summed, q

LEMMA SummedEmpty ==
    ASSUME NEW b, b.buffer = <<>>, b.bytes = 0, NEW weight
    PROVE  Summed(b, weight)
<1>1. Len(b.buffer) = 0
  BY EmptySeq
<1>2. PICK f : SumsTo(f, b.buffer, 0, weight)
  <2>1. 0 \in Nat
    OBVIOUS
  <2>2. QED
    BY <2>1, SumExists, Zenon
<1>3. f[0] = 0
  BY <1>2 DEF SumsTo
<1>4. QED
  BY <1>1, <1>2, <1>3 DEF Summed

\* The sizes of the records in the buffer are all that matter.
LEMMA SummedAlike ==
    ASSUME NEW b \in BufferState(Records), NEW p, p.buffer = b.buffer, p.bytes = b.bytes,
           NEW v, NEW w, Summed(b, v), \A r \in Elements(b.buffer) : v[r] = w[r]
    PROVE  Summed(p, w)
<1> DEFINE q == b.buffer
<1>1. q \in Seq(Records) /\ Len(q) \in Nat /\ DOMAIN q = 1..Len(q)
  BY StateFields
<1>2. \A i \in 1..Len(q) : v[q[i]] = w[q[i]]
  BY <1>1 DEF Elements
<1>3. PICK f : SumsTo(f, q, Len(q), v) /\ b.bytes = f[Len(q)]
  BY DEF Summed
<1>4. PICK g : SumsTo(g, q, Len(q), w)
  BY <1>1, SumExists
<1> HIDE DEF q
<1>5. f[Len(q)] = g[Len(q)]
  BY <1>1, <1>2, <1>3, <1>4, SumsAgree
<1>6. QED
  BY <1>3, <1>4, <1>5 DEF Summed, q

LEMMA SummedOneMore ==
    ASSUME NEW b \in BufferState(Records), NEW p, NEW r \in Records, NEW w, Summed(b, w),
           p.buffer = Append(b.buffer, r), p.bytes = b.bytes + w[r]
    PROVE  Summed(p, w)
<1> DEFINE q == b.buffer
           n == Len(q)
<1>1. /\ q \in Seq(Records) /\ n \in Nat
      /\ Len(p.buffer) = n + 1 /\ p.buffer[n + 1] = r
      /\ \A i \in 1..n : p.buffer[i] = q[i]
  BY StateFields, AppendProperties
<1>2. PICK f : SumsTo(f, q, n, w) /\ b.bytes = f[n]
  BY DEF Summed
<1> HIDE DEF n, q
<1> DEFINE g == [k \in 0..(n + 1) |-> IF k = n + 1 THEN f[n] + w[r] ELSE f[k]]
<1>3. SumsTo(g, p.buffer, n + 1, w)
  <2>1. \A k \in 0..(n + 1) : g[k] = IF k = 0 THEN 0 ELSE g[k - 1] + w[p.buffer[k]]
    BY <1>1, <1>2 DEF SumsTo
  <2>2. QED
    BY <2>1 DEF SumsTo
<1>4. g[n + 1] = b.bytes + w[r]
  BY <1>1, <1>2
<1>5. QED
  BY <1>1, <1>3, <1>4 DEF Summed

\* bufferBytes is the size of what is buffered, whatever throws or is refused.
THEOREM BytesAreCounted == Spec => []BytesMatch
<1>1. Init => Summed(transport, Weights)
  BY SummedEmpty DEF Init, EmptyTransport
<1>2. /\ TypeOK /\ OnePlace /\ Summed(transport, Weights) /\ [Next]_vars
      => Summed(transport, Weights)'
  <2> SUFFICES ASSUME TypeOK, OnePlace, Summed(transport, Weights), [Next]_vars
               PROVE  Summed(transport', Weights')
    OBVIOUS
  <2>1. transport \in BufferState(Records) /\ Elements(transport.buffer) \subseteq DOMAIN sizes
    BY DEF TypeOK, OnePlace, BufferState
  <2>2. ASSUME NEW p, Moved(Records, p, transport') PROVE Summed(transport', Weights')
    BY <2>2, SummedEmpty DEF Moved
  <2>3. ASSUME transport'.buffer = transport.buffer, transport'.bytes = transport.bytes,
               \A r \in DOMAIN sizes : Weights'[r] = Weights[r]
        PROVE  Summed(transport', Weights')
    BY <2>1, <2>3, SummedAlike
  <2>4. CASE Write
    <3>1. PICK size \in Sizes : /\ transport' \in Written(transport, Len(sizes) + 1, size)
                                /\ sizes' = Append(sizes, size)
      BY <2>4 DEF Write
    <3> DEFINE r == Len(sizes) + 1
               W == Weights'
    <3>2. r \in Records /\ \A i \in DOMAIN sizes : i \in Records
      <4>1. DOMAIN sizes = 1..Len(sizes) /\ Len(sizes) \in Nat
        BY DEF TypeOK
      <4>2. QED
        BY <2>4, <4>1, NextRecord, WritesAssumption DEF Records, WritesAssumption, TypeOK
    <3>3. /\ \A i \in DOMAIN sizes : sizes'[i] = sizes[i]
          /\ sizes'[r] = size
      BY <3>1, AppendProperties DEF TypeOK
    <3>4. /\ W[r] = IF size \in Nat THEN size ELSE 0
          /\ \A i \in DOMAIN sizes : W[i] = Weights[i]
      BY <3>2, <3>3 DEF Weights
    <3> HIDE DEF W
    <3>5. CASE transport' = [transport EXCEPT !.lost = @ \cup {r}]
      <4>1. transport'.buffer = transport.buffer /\ transport'.bytes = transport.bytes
        BY <2>1, <3>5 DEF BufferState
      <4>2. QED
        BY <2>3, <3>4, <4>1 DEF W
    <3>6. ASSUME NEW p \in BufferState(Records), transport' = p,
                 p.buffer = Append(transport.buffer, r),
                 p.bytes = transport.bytes + (IF size \in Nat THEN size ELSE 0)
          PROVE  Summed(p, W)
      <4>1. Summed(transport, W)
        BY <2>1, <3>4, SummedAlike
      <4>2. QED
        BY <2>1, <3>2, <3>4, <3>6, <4>1, SummedOneMore
    <3>7. \/ transport' = [transport EXCEPT !.lost = @ \cup {r}]
          \/ \E p \in BufferState(Records) :
                /\ p.buffer = Append(transport.buffer, r)
                /\ p.bytes = transport.bytes + (IF size \in Nat THEN size ELSE 0)
                /\ Moved(Records, p, transport') \/ transport' = p
      BY <2>1, <3>1, <3>2, SizesGiven, WrittenMoves
    <3>8. QED
      BY <2>2, <3>5, <3>6, <3>7 DEF W
  <2>5. ASSUME UNCHANGED sizes PROVE \A r \in DOMAIN sizes : Weights'[r] = Weights[r]
    BY <2>5 DEF Weights
  <2>6. CASE Flush
    BY <2>1, <2>2, <2>3, <2>5, <2>6, FlushedMoves DEF Flush
  <2>7. CASE Settle
    BY <2>1, <2>3, <2>5, <2>7, SettledMoves DEF Settle
  <2>8. CASE UNCHANGED vars
    BY <2>3, <2>5, <2>8 DEF vars
  <2>9. QED
    BY <2>4, <2>6, <2>7, <2>8 DEF Next
<1>3. QED
  BY <1>1, <1>2, BytesAreSum, TransportTypeCorrect, RecordsInOnePlace, PTL DEF Spec

-----------------------------------------------------------------------------
(* Order: FlattenSeq of one sequence more. *)

Joined(q, e) == q \o e

FlattensTo(f, q, m) == f = [i \in 1..m |-> IF i = 1 THEN q[i] ELSE Joined(f[i - 1], q[i])]

LEMMA FlattenExists ==
    ASSUME NEW q, NEW m \in Nat
    PROVE  \E f : FlattensTo(f, q, m)
<1> DEFINE None == {n \in Nat : ~\E f : FlattensTo(f, q, n)}
<1> SUFFICES ASSUME None # {} PROVE FALSE
  OBVIOUS
<1>1. PICK n \in None : \A k \in None : n <= k
  BY LeastNatural
<1>2. n # 0
  <2>1. FlattensTo(<<>>, q, 0)
    BY DEF FlattensTo
  <2>2. QED
    BY <2>1
<1>3. PICK f : FlattensTo(f, q, n - 1)
  <2>1. n - 1 \in Nat /\ n - 1 \notin None
    BY <1>1, <1>2
  <2>2. QED
    BY <2>1
<1> DEFINE g == [k \in 1..n |-> IF k = n THEN IF n = 1 THEN q[1] ELSE Joined(f[n - 1], q[n]) ELSE f[k]]
<1>4. FlattensTo(g, q, n)
  <2>1. \A k \in 1..n : g[k] = IF k = 1 THEN q[k] ELSE Joined(g[k - 1], q[k])
    BY <1>2, <1>3 DEF FlattensTo
  <2>2. QED
    BY <2>1 DEF FlattensTo
<1>5. QED
  BY <1>1, <1>4

LEMMA FlattensAgree ==
    ASSUME NEW q, NEW m \in Nat, NEW f, NEW g, FlattensTo(f, q, m), FlattensTo(g, q, m),
           NEW k \in 1..m
    PROVE  f[k] = g[k]
<1> DEFINE Differ == {n \in 1..m : f[n] # g[n]}
<1> SUFFICES ASSUME Differ # {} PROVE FALSE
  OBVIOUS
<1>1. PICK n \in Differ : \A i \in Differ : n <= i
  <2>1. Differ \in SUBSET Nat
    OBVIOUS
  <2>2. QED
    BY <2>1, LeastNatural
<1>2. /\ f[n] = IF n = 1 THEN q[n] ELSE Joined(f[n - 1], q[n])
      /\ g[n] = IF n = 1 THEN q[n] ELSE Joined(g[n - 1], q[n])
  BY <1>1 DEF FlattensTo
<1>3. n # 1 => f[n - 1] = g[n - 1]
  BY <1>1
<1>4. QED
  BY <1>1, <1>2, <1>3

LEMMA FlattensToSeq ==
    ASSUME NEW S, NEW q \in Seq(Seq(S)), NEW f, FlattensTo(f, q, Len(q)), NEW k \in 1..Len(q)
    PROVE  f[k] \in Seq(S)
<1> DEFINE Odd == {n \in 1..Len(q) : f[n] \notin Seq(S)}
<1> SUFFICES ASSUME Odd # {} PROVE FALSE
  OBVIOUS
<1>1. PICK n \in Odd : \A i \in Odd : n <= i
  <2>1. Odd \in SUBSET Nat
    OBVIOUS
  <2>2. QED
    BY <2>1, LeastNatural
<1>2. f[n] = IF n = 1 THEN q[n] ELSE Joined(f[n - 1], q[n])
  BY <1>1 DEF FlattensTo
<1>3. q[n] \in Seq(S)
  BY <1>1, ElementOfSeq
<1>4. n # 1 => f[n - 1] \in Seq(S)
  BY <1>1
<1>5. CASE n = 1
  BY <1>1, <1>2, <1>3, <1>5
<1>6. CASE n # 1
  <2>1. f[n] = f[n - 1] \o q[n]
    BY <1>2, <1>6, Zenon DEF Joined
  <2>2. f[n - 1] \o q[n] \in Seq(S)
    BY <1>3, <1>4, <1>6, ConcatProperties, Zenon
  <2>3. QED
    BY <1>1, <2>1, <2>2
<1>7. QED
  BY <1>5, <1>6

LEMMA FlattenIsOne ==
    ASSUME NEW S, NEW q \in Seq(Seq(S)), Len(q) # 0, NEW f, FlattensTo(f, q, Len(q))
    PROVE  FlattenSeq(q) = f[Len(q)]
<1>1. Len(q) \in Nat /\ Len(q) \in 1..Len(q)
  OBVIOUS
<1> DEFINE chosen == CHOOSE g : g = [i \in 1..Len(q) |-> IF i = 1 THEN q[i] ELSE g[i - 1] \o q[i]]
<1>2. FlattensTo(chosen, q, Len(q))
  BY DEF FlattensTo, Joined
<1>3. FlattenSeq(q) = chosen[Len(q)]
  BY DEF FlattenSeq
<1> HIDE DEF chosen
<1>4. QED
  BY <1>1, <1>2, <1>3, FlattensAgree

LEMMA FlattenOneMore ==
    ASSUME NEW S, NEW q \in Seq(Seq(S)), NEW e \in Seq(S)
    PROVE  /\ FlattenSeq(q) \in Seq(S)
           /\ FlattenSeq(Append(q, e)) = FlattenSeq(q) \o e
<1> DEFINE n == Len(q)
           p == Append(q, e)
<1>1. n \in Nat
  OBVIOUS
<1>2. /\ p \in Seq(Seq(S)) /\ Len(p) = n + 1 /\ p[n + 1] = e
      /\ \A i \in 1..n : p[i] = q[i]
  BY AppendProperties
<1> HIDE DEF p
<1>3. PICK f : FlattensTo(f, q, n)
  BY <1>1, FlattenExists
<1>4. n # 0 => FlattenSeq(q) = f[n] /\ f[n] \in Seq(S)
  BY <1>1, <1>3, FlattenIsOne, FlattensToSeq
<1>5. n = 0 => FlattenSeq(q) = <<>> /\ <<>> \o e = e /\ <<>> \in Seq(S)
  BY EmptySeq, ConcatEmptySeq DEF FlattenSeq
<1> DEFINE last == IF n = 0 THEN e ELSE Joined(f[n], e)
           g == [k \in 1..(n + 1) |-> IF k = n + 1 THEN last ELSE f[k]]
<1>6. FlattensTo(g, p, n + 1)
  <2> HIDE DEF n
  <2>1. \A k \in 1..(n + 1) : g[k] = IF k = 1 THEN p[k] ELSE Joined(g[k - 1], p[k])
    <3> SUFFICES ASSUME NEW k \in 1..(n + 1)
                 PROVE  g[k] = IF k = 1 THEN p[k] ELSE Joined(g[k - 1], p[k])
      OBVIOUS
    <3>1. CASE k = n + 1
      BY <1>1, <1>2, <3>1
    <3>2. CASE k # n + 1
      BY <1>1, <1>2, <1>3, <3>2 DEF FlattensTo
    <3>3. QED
      BY <3>1, <3>2
  <2>2. QED
    BY <2>1 DEF FlattensTo
<1>7. g[n + 1] = last
  BY <1>1
<1>8. FlattenSeq(p) = last
  <2> HIDE DEF g, last
  <2>1. Len(p) # 0 /\ Len(p) = n + 1
    BY <1>1, <1>2
  <2>2. QED
    BY <1>2, <1>6, <1>7, <2>1, FlattenIsOne
<1>9. QED
  BY <1>4, <1>5, <1>8 DEF p, Joined

\* What has left a transport and what is still in it.
Gone(b) == FlattenSeq(b.sent) \o b.buffer

LEMMA GoneMoved ==
    ASSUME NEW b \in BufferState(Records), NEW s, Moved(Records, b, s)
    PROVE  Gone(s) = Gone(b)
<1>1. FlattenSeq(Append(b.sent, b.buffer)) = Gone(b) /\ Gone(b) \in Seq(Records)
  <2>1. b.sent \in Seq(Seq(Records)) /\ b.buffer \in Seq(Records)
    BY StateFields
  <2>2. /\ FlattenSeq(b.sent) \in Seq(Records)
        /\ FlattenSeq(Append(b.sent, b.buffer)) = FlattenSeq(b.sent) \o b.buffer
    BY <2>1, FlattenOneMore
  <2>3. FlattenSeq(b.sent) \o b.buffer \in Seq(Records)
    BY <2>1, <2>2, ConcatProperties, Zenon
  <2>4. QED
    BY <2>2, <2>3, Zenon DEF Gone
<1>2. Gone(s) = FlattenSeq(s.sent) \o <<>> /\ s.sent = Append(b.sent, b.buffer)
  BY DEF Gone, Moved
<1>3. QED
  BY <1>1, <1>2, ConcatEmptySeq

LEMMA GoneOneMore ==
    ASSUME NEW b \in BufferState(Records), NEW p, NEW r \in Records, p.sent = b.sent,
           p.buffer = Append(b.buffer, r)
    PROVE  Gone(b) \in Seq(Records) /\ Gone(p) = Append(Gone(b), r)
<1>1. /\ FlattenSeq(b.sent) \in Seq(Records) /\ b.buffer \in Seq(Records)
      /\ <<r>> \in Seq(Records)
  BY StateFields, FlattenOneMore
<1>2. Gone(b) \in Seq(Records)
  BY <1>1, ConcatProperties DEF Gone
<1>3. Append(b.buffer, r) = b.buffer \o <<r>> /\ Append(Gone(b), r) = Gone(b) \o <<r>>
  BY <1>1, <1>2, AppendIsConcat
<1>4. Gone(p) = FlattenSeq(b.sent) \o (b.buffer \o <<r>>)
  BY <1>3, Zenon DEF Gone
<1>5. FlattenSeq(b.sent) \o (b.buffer \o <<r>>) = Gone(b) \o <<r>>
  <2>1. ASSUME NEW x \in Seq(Records), NEW y \in Seq(Records), NEW z \in Seq(Records)
        PROVE  x \o (y \o z) = (x \o y) \o z
    BY ConcatAssociative
  <2>2. FlattenSeq(b.sent) \o (b.buffer \o <<r>>) = (FlattenSeq(b.sent) \o b.buffer) \o <<r>>
    BY <1>1, <2>1, Zenon
  <2>3. QED
    BY <2>2, Zenon DEF Gone
<1>6. QED
  BY <1>2, <1>3, <1>4, <1>5

InOrder(gone, given) ==
    /\ Elements(gone) = given
    /\ \A i, j \in DOMAIN gone : i < j => gone[i] < gone[j]

LEMMA OneMoreInOrder ==
    ASSUME NEW gone \in Seq(Records), NEW given, InOrder(gone, given), NEW r \in Records,
           \A i \in given : i < r
    PROVE  InOrder(Append(gone, r), given \cup {r})
<1> DEFINE g == Append(gone, r)
<1>1. /\ Len(gone) \in Nat /\ DOMAIN gone = 1..Len(gone) /\ DOMAIN g = 1..(Len(gone) + 1)
      /\ \A i \in 1..Len(gone) : g[i] = gone[i]
      /\ g[Len(gone) + 1] = r
  BY AppendProperties
<1>2. Elements(g) = given \cup {r}
  BY ElementsAppend DEF InOrder
<1>3. \A i \in 1..Len(gone) : gone[i] < r
  BY <1>1 DEF InOrder, Elements
<1> HIDE DEF g
<1>4. \A i, j \in DOMAIN g : i < j => g[i] < g[j]
  <2> SUFFICES ASSUME NEW i \in DOMAIN g, NEW j \in DOMAIN g, i < j PROVE g[i] < g[j]
    OBVIOUS
  <2>1. i \in 1..Len(gone) /\ g[i] = gone[i]
    BY <1>1
  <2>2. CASE j = Len(gone) + 1
    BY <1>1, <1>3, <2>1, <2>2
  <2>3. CASE j # Len(gone) + 1
    <3>1. j \in 1..Len(gone) /\ g[j] = gone[j]
      BY <1>1, <2>3
    <3>2. QED
      BY <1>1, <2>1, <3>1 DEF InOrder
  <2>4. QED
    BY <2>2, <2>3
<1>5. QED
  BY <1>2, <1>4 DEF InOrder, g

\* Batches and buffer hold what could be converted, in order and without a gap.
THEOREM RecordsGoInOrder == Spec => []SentInOrder
<1> DEFINE Given == {i \in DOMAIN sizes : Convertible(i)}
<1>1. SentInOrder <=> InOrder(Gone(transport), Given)
  BY DEF SentInOrder, InOrder, Gone
<1>2. Init => InOrder(Gone(transport), Given)
  <2> SUFFICES ASSUME Init PROVE InOrder(Gone(transport), Given)
    OBVIOUS
  <2>1. transport.sent = <<>> /\ transport.buffer = <<>> /\ DOMAIN sizes = {}
    BY DEF Init, EmptyTransport
  <2>2. Gone(transport) = <<>>
    <3>1. FlattenSeq(<<>>) = <<>>
      BY EmptySeq DEF FlattenSeq
    <3>2. <<>> \o <<>> = <<>>
      BY EmptySeq, ConcatEmptySeq
    <3>3. QED
      BY <2>1, <3>1, <3>2, Zenon DEF Gone
  <2>3. DOMAIN Gone(transport) = {} /\ Given = {}
    BY <2>1, <2>2
  <2>4. QED
    BY <2>3 DEF InOrder, Elements
<1>3. /\ TypeOK /\ InOrder(Gone(transport), Given) /\ [Next]_vars
      => InOrder(Gone(transport), Given)'
  <2> SUFFICES ASSUME TypeOK, InOrder(Gone(transport), Given), [Next]_vars
               PROVE  InOrder(Gone(transport'), Given')
    OBVIOUS
  <2>1. transport \in BufferState(Records)
    BY DEF TypeOK, BufferState
  <2>2. ASSUME Given' = Given, Gone(transport') = Gone(transport)
        PROVE  InOrder(Gone(transport'), Given')
    BY <2>2
  <2>3. ASSUME transport'.sent = transport.sent, transport'.buffer = transport.buffer
        PROVE  Gone(transport') = Gone(transport)
    BY <2>3 DEF Gone
  <2>4. UNCHANGED sizes => Given' = Given
    BY DEF Convertible
  <2>5. CASE Write
    <3>1. PICK size \in Sizes : /\ transport' \in Written(transport, Len(sizes) + 1, size)
                                /\ sizes' = Append(sizes, size)
      BY <2>5 DEF Write
    <3> DEFINE r == Len(sizes) + 1
               G == Given'
    <3>2. /\ r \in Records /\ DOMAIN sizes = 1..Len(sizes) /\ DOMAIN sizes' = DOMAIN sizes \cup {r}
          /\ r \notin DOMAIN sizes /\ Len(sizes) \in Nat
      BY <2>5, NextRecord DEF TypeOK
    <3>3. /\ \A i \in DOMAIN sizes : sizes'[i] = sizes[i]
          /\ sizes'[r] = size
      BY <3>1, AppendProperties DEF TypeOK
    <3>4. G = IF size = ToItemThrows THEN Given ELSE Given \cup {r}
      BY <3>2, <3>3 DEF Convertible
    <3>5. \A i \in Given : i < r
      BY <3>2
    <3> HIDE DEF G
    <3>6. CASE transport' = [transport EXCEPT !.lost = @ \cup {r}] /\ size = ToItemThrows
      <4>1. transport'.sent = transport.sent /\ transport'.buffer = transport.buffer
        BY <2>1, <3>6 DEF BufferState
      <4>2. QED
        BY <2>2, <2>3, <3>4, <3>6, <4>1 DEF G
    <3>7. ASSUME NEW p \in BufferState(Records), size # ToItemThrows,
                 Moved(Records, p, transport') \/ transport' = p,
                 p.buffer = Append(transport.buffer, r), p.sent = transport.sent
          PROVE  InOrder(Gone(transport'), G)
      <4>1. Gone(transport') = Gone(p)
        BY <3>7, GoneMoved
      <4>2. Gone(transport) \in Seq(Records) /\ Gone(p) = Append(Gone(transport), r)
        BY <2>1, <3>2, <3>7, GoneOneMore
      <4> HIDE DEF Given
      <4>3. InOrder(Append(Gone(transport), r), Given \cup {r})
        BY <3>2, <3>5, <4>2, OneMoreInOrder
      <4>4. QED
        BY <3>4, <3>7, <4>1, <4>2, <4>3
    <3>8. \/ transport' = [transport EXCEPT !.lost = @ \cup {r}] /\ size = ToItemThrows
          \/ \E p \in BufferState(Records) :
                /\ size # ToItemThrows
                /\ p.buffer = Append(transport.buffer, r) /\ p.sent = transport.sent
                /\ Moved(Records, p, transport') \/ transport' = p
      BY <2>1, <3>1, <3>2, SizesGiven, WrittenMoves
    <3>9. QED
      BY <3>6, <3>7, <3>8 DEF G
  <2>6. CASE Flush
    <3>1. Gone(transport') = Gone(transport)
      BY <2>1, <2>6, FlushedMoves, GoneMoved DEF Flush
    <3>2. QED
      BY <2>2, <2>4, <2>6, <3>1 DEF Flush
  <2>7. CASE Settle
    <3>1. Gone(transport') = Gone(transport)
      BY <2>1, <2>3, <2>7, SettledMoves DEF Settle
    <3>2. QED
      BY <2>2, <2>4, <2>7, <3>1 DEF Settle
  <2>8. CASE UNCHANGED vars
    BY <2>2, <2>3, <2>4, <2>8 DEF vars
  <2>9. QED
    BY <2>5, <2>6, <2>7, <2>8 DEF Next
<1>4. QED
  BY <1>1, <1>2, <1>3, TransportTypeCorrect, PTL DEF Spec
=============================================================================
