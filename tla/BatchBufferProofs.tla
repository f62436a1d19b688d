-------------------------- MODULE BatchBufferProofs --------------------------
(***************************************************************************)
(* What the operations of BatchBuffer do, for any set R of records.        *)
(* Everything one of them does to a transport is one of five moves:        *)
(* nothing, losing a record unconverted, buffering one, sending the buffer *)
(* and settling a batch; Written and Flushed are made of them.             *)
(***************************************************************************)
EXTENDS BatchBuffer, SequenceTheorems, WellFoundedInduction, TLAPS

BufferState(R) ==
    [buffer : Seq(R), bytes : Nat, sent : Seq(Seq(R)), sending : SUBSET Seq(R),
     delivered : SUBSET R, lost : SUBSET R]

\* A set of natural numbers that is not empty has a least element.
LEMMA LeastByRelation ==
    ASSUME NEW R, IsWellFoundedOn(R, Nat), \A x, y \in Nat : <<y, x>> \in R <=> y < x,
           NEW T \in SUBSET Nat, T # {}
    PROVE  \E n \in T : \A m \in T : n <= m
<1>1. PICK n \in T : \A m \in T : ~(<<m, n>> \in R)
  BY WFMin
<1>2. \A m \in T : m \in Nat /\ n \in Nat /\ ~(m < n)
  BY <1>1
<1>3. \A m \in T : n <= m
  BY <1>2
<1>4. QED
  BY <1>3

LEMMA LeastNatural ==
    ASSUME NEW T \in SUBSET Nat, T # {}
    PROVE  \E n \in T : \A m \in T : n <= m
<1>1. IsWellFoundedOn(OpToRel(<, Nat), Nat)
  BY NatLessThanWellFounded
<1>2. \A x, y \in Nat : <<y, x>> \in OpToRel(<, Nat) <=> y < x
  BY DEF OpToRel
<1>3. \E R : IsWellFoundedOn(R, Nat) /\ \A x, y \in Nat : <<y, x>> \in R <=> y < x
  BY <1>1, <1>2, Zenon
<1>4. PICK R : IsWellFoundedOn(R, Nat) /\ \A x, y \in Nat : <<y, x>> \in R <=> y < x
  BY <1>3
<1>5. QED
  BY <1>4, LeastByRelation

LEMMA ElementsAppend ==
    ASSUME NEW S, NEW q \in Seq(S), NEW e \in S
    PROVE  /\ Elements(Append(q, e)) = Elements(q) \cup {e}
           /\ Elements(q) \subseteq S /\ Append(q, e) \in Seq(S)
           /\ Len(Append(q, e)) = Len(q) + 1
<1>1. /\ DOMAIN q = 1..Len(q) /\ Len(q) \in Nat
      /\ DOMAIN Append(q, e) = 1..(Len(q) + 1)
      /\ \A i \in 1..Len(q) : Append(q, e)[i] = q[i]
      /\ Append(q, e)[Len(q) + 1] = e
      /\ Append(q, e) \in Seq(S) /\ Len(Append(q, e)) = Len(q) + 1
  OBVIOUS
<1>2. 1..(Len(q) + 1) = (1..Len(q)) \cup {Len(q) + 1}
  BY <1>1
<1>3. QED
  BY <1>1, <1>2 DEF Elements

LEMMA StateFields ==
    ASSUME NEW R, NEW b \in BufferState(R)
    PROVE  /\ b.buffer \in Seq(R) /\ b.bytes \in Nat
           /\ b.sent \in Seq(Seq(R)) /\ b.sending \in SUBSET Seq(R)
           /\ b.delivered \in SUBSET R /\ b.lost \in SUBSET R
  BY DEF BufferState

(* What Sent, Flushed and Written come to, field by field. *)
Moved(R, b, s) ==      \* a batch goes from the buffer of b to one place in s
    /\ s \in BufferState(R)
    /\ s.buffer = <<>> /\ s.bytes = 0
    /\ b.buffer # <<>>
    /\ s.sent = Append(b.sent, b.buffer)
    /\ \/ /\ s.sending = b.sending \cup {b.buffer}
          /\ s.delivered = b.delivered /\ s.lost = b.lost
       \/ /\ s.sending = b.sending
          /\ s.delivered = b.delivered \cup Elements(b.buffer) /\ s.lost = b.lost
       \/ /\ s.sending = b.sending
          /\ s.delivered = b.delivered /\ s.lost = b.lost \cup Elements(b.buffer)

LEMMA FlushedMoves ==
    ASSUME NEW R, NEW b \in BufferState(R), NEW s \in Flushed(b)
    PROVE  Moved(R, b, s) \/ (s = b /\ b.buffer = <<>>)
<1>1. CASE b.buffer = <<>>
  BY <1>1 DEF Flushed
<1>2. CASE b.buffer # <<>>
  <2> DEFINE q == b.buffer
             e == [b EXCEPT !.buffer = <<>>, !.bytes = 0]
             h == [e EXCEPT !.sent = Append(@, q)]
  <2>1. /\ q \in Seq(R) /\ Append(b.sent, q) \in Seq(Seq(R))
        /\ <<>> \in Seq(R) /\ Elements(q) \subseteq R
    BY StateFields, EmptySeq, AppendProperties DEF Elements
  <2>2. /\ e \in BufferState(R) /\ e.buffer = <<>> /\ e.bytes = 0 /\ e.sent = b.sent
        /\ e.sending = b.sending /\ e.delivered = b.delivered /\ e.lost = b.lost
    BY <2>1 DEF BufferState
  <2>3. s \in Sent(e, q)
    BY <1>2 DEF Flushed
  <2> HIDE DEF e
  <2>4. /\ h \in BufferState(R) /\ h.buffer = <<>> /\ h.bytes = 0 /\ h.sent = Append(b.sent, q)
        /\ h.sending = b.sending /\ h.delivered = b.delivered /\ h.lost = b.lost
    BY <2>1, <2>2 DEF BufferState
  <2>5. s \in { [h EXCEPT !.sending = @ \cup {q}],
                [h EXCEPT !.delivered = @ \cup Elements(q)],
                [h EXCEPT !.lost = @ \cup Elements(q)] }
    BY <2>3 DEF Sent
  <2> HIDE DEF h
  <2>6. CASE s = [h EXCEPT !.sending = @ \cup {q}]
    <3>1. /\ s \in BufferState(R) /\ s.buffer = <<>> /\ s.bytes = 0 /\ s.sent = h.sent
          /\ s.sending = h.sending \cup {q} /\ s.delivered = h.delivered /\ s.lost = h.lost
      BY <2>1, <2>4, <2>6 DEF BufferState
    <3>2. QED
      BY <1>2, <2>4, <3>1 DEF Moved
  <2>7. CASE s = [h EXCEPT !.delivered = @ \cup Elements(q)]
    <3>1. /\ s \in BufferState(R) /\ s.buffer = <<>> /\ s.bytes = 0 /\ s.sent = h.sent
          /\ s.sending = h.sending /\ s.lost = h.lost
          /\ s.delivered = h.delivered \cup Elements(q)
      BY <2>1, <2>4, <2>7 DEF BufferState
    <3>2. QED
      BY <1>2, <2>4, <3>1 DEF Moved
  <2>8. CASE s = [h EXCEPT !.lost = @ \cup Elements(q)]
    <3>1. /\ s \in BufferState(R) /\ s.buffer = <<>> /\ s.bytes = 0 /\ s.sent = h.sent
          /\ s.sending = h.sending /\ s.delivered = h.delivered
          /\ s.lost = h.lost \cup Elements(q)
      BY <2>1, <2>4, <2>8 DEF BufferState
    <3>2. QED
      BY <1>2, <2>4, <3>1 DEF Moved
  <2>9. QED
    BY <2>5, <2>6, <2>7, <2>8
<1>3. QED
  BY <1>1, <1>2

(* Record r joins the buffer, which may then be sent. *)
LEMMA WrittenMoves ==
    ASSUME NEW R, NEW b \in BufferState(R), NEW r \in R,
           NEW size \in Nat \cup {ToItemThrows, SizeOfThrows}, NEW s \in Written(b, r, size)
    PROVE  \/ s = [b EXCEPT !.lost = @ \cup {r}] /\ size = ToItemThrows
           \/ \E p \in BufferState(R) :
                 /\ p.buffer = Append(b.buffer, r) /\ size # ToItemThrows
                 /\ p.bytes = b.bytes + (IF size \in Nat THEN size ELSE 0)
                 /\ p.sent = b.sent /\ p.sending = b.sending
                 /\ p.delivered = b.delivered /\ p.lost = b.lost
                 /\ \/ Moved(R, p, s)
                    \/ s = p /\ (size # SizeOfThrows => ~Full(p))
<1> DEFINE u == [b EXCEPT !.buffer = Append(@, r)]
           z == [u EXCEPT !.bytes = @ + size]
<1>1. Append(b.buffer, r) \in Seq(R) /\ Append(b.buffer, r) # <<>>
  BY StateFields, AppendProperties
<1>2. /\ u \in BufferState(R) /\ u.buffer = Append(b.buffer, r) /\ u.bytes = b.bytes
      /\ u.sent = b.sent /\ u.sending = b.sending
      /\ u.delivered = b.delivered /\ u.lost = b.lost
  BY <1>1 DEF BufferState
<1>3. ASSUME size \in Nat
      PROVE  /\ z \in BufferState(R) /\ z.buffer = u.buffer /\ z.sent = u.sent
             /\ z.bytes = b.bytes + size /\ z.sending = u.sending /\ z.delivered = u.delivered /\ z.lost = u.lost
  <2> HIDE DEF u
  <2>1. u.bytes + size \in Nat
    BY <1>2, <1>3, StateFields
  <2>2. QED
    BY <1>2, <2>1 DEF BufferState
<1>4. size \in Nat \/ size = ToItemThrows \/ size = SizeOfThrows
  OBVIOUS
<1>5. ToItemThrows \notin Nat /\ SizeOfThrows \notin Nat /\ ToItemThrows # SizeOfThrows
  BY DEF ToItemThrows, SizeOfThrows
<1>6. CASE size = ToItemThrows
  BY <1>5, <1>6 DEF Written
<1>7. CASE size = SizeOfThrows
  <2>1. s = u
    BY <1>5, <1>7 DEF Written
  <2>2. u.bytes = b.bytes + (IF size \in Nat THEN size ELSE 0)
    BY <1>2, <1>5, <1>7, StateFields
  <2>3. QED
    BY <1>2, <1>5, <1>7, <2>1, <2>2
<1>8. CASE size \in Nat
  <2>1. s \in IF Full(z) THEN Flushed(z) ELSE {z}
    BY <1>5, <1>8 DEF Written
  <2> HIDE DEF z, u
  <2>2. z.buffer # <<>>
    BY <1>1, <1>2, <1>3, <1>8
  <2>3. Moved(R, z, s) \/ (s = z /\ ~Full(z))
    BY <1>3, <1>8, <2>1, <2>2, FlushedMoves
  <2>4. QED
    BY <1>2, <1>3, <1>5, <1>8, <2>3
<1>9. QED
  BY <1>4, <1>6, <1>7, <1>8

LEMMA SettledMoves ==
    ASSUME NEW R, NEW b \in BufferState(R), NEW batch \in b.sending, NEW s \in Settled(b, batch)
    PROVE  /\ s \in BufferState(R) /\ s.buffer = b.buffer /\ s.bytes = b.bytes /\ s.sent = b.sent
           /\ s.sending = b.sending \ {batch}
           /\ \/ s.delivered = b.delivered \cup Elements(batch) /\ s.lost = b.lost
              \/ s.lost = b.lost \cup Elements(batch) /\ s.delivered = b.delivered
<1> DEFINE o == [b EXCEPT !.sending = @ \ {batch}]
<1>1. Elements(batch) \subseteq R
  BY StateFields DEF Elements
<1>2. /\ o \in BufferState(R) /\ o.buffer = b.buffer /\ o.bytes = b.bytes /\ o.sent = b.sent
      /\ o.sending = b.sending \ {batch} /\ o.delivered = b.delivered /\ o.lost = b.lost
  BY DEF BufferState
<1>3. s \in { [o EXCEPT !.delivered = @ \cup Elements(batch)],
              [o EXCEPT !.lost = @ \cup Elements(batch)] }
  BY DEF Settled
<1> HIDE DEF o
<1>4. QED
  BY <1>1, <1>2, <1>3 DEF BufferState
=============================================================================
