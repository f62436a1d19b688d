--------------------------- MODULE TracingProofs ---------------------------
(***************************************************************************)
(* Proofs about Tracing, for any call chains, blocks, keys, loggers and    *)
(* programs: that the one stack a browser has tells each chain where it is *)
(* as long as the open blocks are all around whoever uses it, by any order *)
(* of entering and leaving.                                                *)
(***************************************************************************)
EXTENDS Tracing, SequenceTheorems, FiniteSetTheorems, WellFoundedInduction, TLAPS

-----------------------------------------------------------------------------
(* Sequences of blocks, and the greatest of some indices. *)

LEMMA ToSetIs ==
    ASSUME NEW S, NEW q \in Seq(S)
    PROVE  /\ Len(q) \in Nat /\ DOMAIN q = 1..Len(q)
           /\ ToSet(q) = {q[i] : i \in 1..Len(q)} /\ ToSet(q) \subseteq S
           /\ \A i \in 1..Len(q) : q[i] \in S
           /\ q = <<>> <=> Len(q) = 0
  BY LenProperties, ElementOfSeq, EmptySeq DEF ToSet

LEMMA ToSetAppend ==
    ASSUME NEW S, NEW q \in Seq(S), NEW e \in S
    PROVE  /\ Append(q, e) \in Seq(S) /\ Len(Append(q, e)) = Len(q) + 1
           /\ \A i \in 1..Len(q) : Append(q, e)[i] = q[i]
           /\ Append(q, e)[Len(q) + 1] = e
           /\ ToSet(Append(q, e)) = ToSet(q) \cup {e}
<1> DEFINE r == Append(q, e)
<1>1. /\ r \in Seq(S) /\ Len(r) = Len(q) + 1 /\ \A i \in 1..Len(q) : r[i] = q[i]
      /\ r[Len(q) + 1] = e
  BY AppendProperties
<1>2. Len(q) \in Nat /\ 1..(Len(q) + 1) = 1..Len(q) \cup {Len(q) + 1}
  BY ToSetIs
<1> HIDE DEF r
<1>3. ToSet(r) = {r[i] : i \in 1..(Len(q) + 1)} /\ ToSet(q) = {q[i] : i \in 1..Len(q)}
  BY <1>1, ToSetIs
<1>4. ToSet(r) = ToSet(q) \cup {e}
  BY <1>1, <1>2, <1>3
<1>5. QED
  BY <1>1, <1>4 DEF r

LEMMA FrontIs ==
    ASSUME NEW S, NEW q \in Seq(S), q # <<>>
    PROVE  /\ Front(q) \in Seq(S) /\ Len(Front(q)) = Len(q) - 1 /\ Len(q) \in Nat \ {0}
           /\ \A i \in 1..(Len(q) - 1) : Front(q)[i] = q[i]
           /\ ToSet(q) = ToSet(Front(q)) \cup {Last(q)} /\ Last(q) = q[Len(q)]
<1> DEFINE n == Len(q) - 1
           r == SubSeq(q, 1, n)
<1>1. n \in Nat /\ Len(q) = n + 1 /\ \A i \in 1..n : q[i] \in S
  BY ToSetIs
<1> HIDE DEF n
<1>2. /\ r \in Seq(S) /\ Len(r) = IF 1 <= n THEN n - 1 + 1 ELSE 0
      /\ \A i \in 1..(n - 1 + 1) : r[i] = q[1 + i - 1]
  BY <1>1, SubSeqProperties
<1>3. Len(r) = n /\ \A i \in 1..n : r[i] = q[i]
  BY <1>1, <1>2
<1>4. 1..(n + 1) = 1..n \cup {n + 1}
  BY <1>1
<1> HIDE DEF r
<1>5. ToSet(r) = {r[i] : i \in 1..n} /\ ToSet(q) = {q[i] : i \in 1..(n + 1)}
  BY <1>1, <1>2, <1>3, ToSetIs
<1>6. ToSet(q) = ToSet(r) \cup {q[n + 1]}
  BY <1>3, <1>4, <1>5
<1>7. r = Front(q) /\ Last(q) = q[n + 1]
  BY <1>1 DEF r, n, Front, Last
<1>8. QED
  BY <1>1, <1>2, <1>3, <1>6, <1>7

LEMMA LeastByOrder ==
    ASSUME NEW R, IsWellFoundedOn(R, Nat), \A x, y \in Nat : <<y, x>> \in R <=> y < x,
           NEW T \in SUBSET Nat, T # {}
    PROVE  \E n \in T : \A m \in T : n <= m
<1>1. PICK n \in T : \A m \in T : ~(<<m, n>> \in R)
  BY WFMin
<1>2. \A m \in T : m \in Nat /\ n \in Nat /\ ~(m < n)
  BY <1>1
<1>3. QED
  BY <1>2

LEMMA GreatestOf ==
    ASSUME NEW n \in Nat, NEW T \in SUBSET (1..n), T # {}
    PROVE  Max(T) \in T /\ \A m \in T : m <= Max(T)
<1>1. PICK R : IsWellFoundedOn(R, Nat) /\ \A x, y \in Nat : <<y, x>> \in R <=> y < x
  <2>1. IsWellFoundedOn(OpToRel(<, Nat), Nat)
    BY NatLessThanWellFounded
  <2>2. \A x, y \in Nat : <<y, x>> \in OpToRel(<, Nat) <=> y < x
    BY DEF OpToRel
  <2>3. QED
    BY <2>1, <2>2, Zenon
<1> DEFINE D == {n - m : m \in T}
<1>2. D \in SUBSET Nat /\ D # {}
  <2>1. \A m \in T : n - m \in Nat
    OBVIOUS
  <2>2. QED
    BY <2>1
<1>3. PICK d \in D : \A e \in D : d <= e
  BY <1>1, <1>2, LeastByOrder
<1>4. PICK g \in T : d = n - g
  BY <1>3
<1>5. \A m \in T : g >= m /\ g \in Nat /\ m \in Nat
  <2>1. ASSUME NEW m \in T PROVE g >= m /\ g \in Nat /\ m \in Nat
    <3>1. n - g <= n - m /\ g \in 1..n /\ m \in 1..n
      BY <1>3, <1>4
    <3>2. QED
      BY <3>1
  <2>2. QED
    BY <2>1
<1>6. Max(T) \in T /\ \A m \in T : Max(T) >= m
  BY <1>5 DEF Max
<1>7. QED
  BY <1>6

\* Blocks stand in the order in which they were opened.
Ordered(q) == \A i, j \in 1..Len(q) : i < j => q[i].id < q[j].id

LEMMA BlockNumbered == \A b \in Block : b.id \in Nat /\ b.id \in 1..MaxBlocks
  BY ScopesAssumption DEF ScopesAssumption, Block

\* The innermost of some blocks is the newest of them, whatever sequence they stand in.
LEMMA InnermostIsNewest ==
    ASSUME NEW q \in Seq(Block), Ordered(q), NEW J \in SUBSET (1..Len(q)), J # {}
    PROVE  \E j \in J : /\ Innermost(q, J) = q[j].id
                        /\ \A i \in J : q[i].id <= q[j].id
<1>1. Len(q) \in Nat /\ \A i \in 1..Len(q) : q[i] \in Block
  BY ToSetIs
<1>2. Max(J) \in J /\ \A i \in J : i <= Max(J)
  BY <1>1, GreatestOf
<1> DEFINE j == Max(J)
<1>3. j \in J /\ \A i \in J : i <= j
  BY <1>2
<1>4. Innermost(q, J) = q[j].id
  BY DEF Innermost
<1> HIDE DEF j
<1>5. ASSUME NEW i \in J PROVE q[i].id <= q[j].id
  <2>1. q[i].id \in Nat /\ q[j].id \in Nat /\ i \in Nat /\ j \in Nat /\ i <= j
    BY <1>1, <1>3, BlockNumbered
  <2>2. CASE i = j
    BY <2>1, <2>2
  <2>3. CASE i < j
    BY <1>3, <2>1, <2>3 DEF Ordered
  <2>4. QED
    BY <2>1, <2>2, <2>3
<1>6. QED
  BY <1>3, <1>4, <1>5

LEMMA SameInnermost ==
    ASSUME NEW p \in Seq(Block), NEW q \in Seq(Block), Ordered(p), Ordered(q),
           NEW I \in SUBSET (1..Len(p)), NEW J \in SUBSET (1..Len(q)),
           \A i \in I : \E j \in J : q[j] = p[i],
           \A j \in J : \E i \in I : p[i] = q[j]
    PROVE  Innermost(p, I) = Innermost(q, J)
<1>1. CASE I = {}
  BY <1>1 DEF Innermost
<1>2. CASE I # {}
  <2>1. J # {}
    BY <1>2
  <2>2. PICK i \in I : Innermost(p, I) = p[i].id /\ \A k \in I : p[k].id <= p[i].id
    BY <1>2, InnermostIsNewest
  <2>3. PICK j \in J : Innermost(q, J) = q[j].id /\ \A k \in J : q[k].id <= q[j].id
    BY <2>1, InnermostIsNewest
  <2>4. p[i].id \in Nat /\ q[j].id \in Nat
    BY ToSetIs, BlockNumbered
  <2>5. (\E k \in J : q[k] = p[i]) /\ (\E k \in I : p[k] = q[j])
    OBVIOUS
  <2>6. p[i].id <= q[j].id /\ q[j].id <= p[i].id
    BY <2>2, <2>3, <2>5
  <2>7. p[i].id = q[j].id
    <3>1. \A x, y \in Nat : x <= y /\ y <= x => x = y
      OBVIOUS
    <3>2. QED
      BY <2>4, <2>6, <3>1, Zenon
  <2>8. QED
    BY <2>2, <2>3, <2>7
<1>3. QED
  BY <1>1, <1>2

-----------------------------------------------------------------------------
(* The blocks a chain has entered itself, and all that are open. *)

OwnOf(q, n) == ToSet(SubSeq(q, n + 1, Len(q)))
OpenIn(scopes, from) == UNION {OwnOf(scopes[c], from[c]) : c \in Chains}

LEMMA OpenIsOpenIn == Open = OpenIn(scope, inherited) /\ Open' = OpenIn(scope', inherited')
  BY DEF Open, OpenIn, Own, OwnOf

LEMMA OwnIs ==
    ASSUME NEW S, NEW q \in Seq(S), NEW n \in 0..Len(q)
    PROVE  /\ OwnOf(q, n) = {q[i] : i \in (n + 1)..Len(q)}
           /\ SubSeq(q, n + 1, Len(q)) = <<>> <=> n = Len(q)
<1> DEFINE m == Len(q)
           r == SubSeq(q, n + 1, m)
<1>1. m \in Nat /\ n \in Nat /\ n <= m /\ \A i \in 1..m : q[i] \in S
  BY ToSetIs
<1> HIDE DEF m
<1>2. n + 1 \in Int /\ m \in Int /\ \A i \in (n + 1)..m : q[i] \in S
  BY <1>1
<1>3. /\ r \in Seq(S) /\ Len(r) = IF n + 1 <= m THEN m - (n + 1) + 1 ELSE 0
      /\ \A i \in 1..(m - (n + 1) + 1) : r[i] = q[n + 1 + i - 1]
  BY <1>2, SubSeqProperties
<1>4. Len(r) = m - n /\ \A i \in 1..(m - n) : r[i] = q[n + i]
  BY <1>1, <1>3
<1> HIDE DEF r
<1>5. ToSet(r) = {r[i] : i \in 1..(m - n)} /\ (r = <<>> <=> m - n = 0)
  BY <1>3, <1>4, ToSetIs
<1>6. \A i \in (n + 1)..m : i - n \in 1..(m - n) /\ q[i] = r[i - n]
  BY <1>1, <1>4
<1>7. \A i \in 1..(m - n) : n + i \in (n + 1)..m
  BY <1>1
<1>8. ToSet(r) = {q[i] : i \in (n + 1)..m}
  <2>1. \A i \in 1..(m - n) : r[i] \in {q[j] : j \in (n + 1)..m}
    BY <1>4, <1>7
  <2>2. \A i \in (n + 1)..m : q[i] \in {r[j] : j \in 1..(m - n)}
    BY <1>6
  <2>3. QED
    BY <1>5, <2>1, <2>2
<1>9. QED
  BY <1>1, <1>5, <1>8 DEF r, m, OwnOf

LEMMA OwnAppend ==
    ASSUME NEW S, NEW q \in Seq(S), NEW n \in 0..Len(q), NEW b \in S
    PROVE  OwnOf(Append(q, b), n) = OwnOf(q, n) \cup {b}
<1> DEFINE r == Append(q, b)
           m == Len(q)
<1>1. /\ r \in Seq(S) /\ Len(r) = m + 1 /\ r[m + 1] = b /\ m \in Nat
      /\ \A i \in 1..m : r[i] = q[i]
  BY ToSetAppend, ToSetIs
<1>3. n \in Nat /\ n <= m /\ n \in 0..(m + 1)
  BY <1>1
<1> HIDE DEF r
<1>2. /\ OwnOf(q, n) = {q[i] : i \in (n + 1)..m}
      /\ OwnOf(r, n) = {r[i] : i \in (n + 1)..(m + 1)}
  BY <1>1, <1>3, OwnIs
<1> HIDE DEF m
<1>4. (n + 1)..(m + 1) = (n + 1)..m \cup {m + 1} /\ \A i \in (n + 1)..m : i \in 1..m
  BY <1>1, <1>3
<1>5. QED
  BY <1>1, <1>2, <1>4 DEF r

LEMMA OwnFront ==
    ASSUME NEW S, NEW q \in Seq(S), NEW n \in 0..Len(q), n # Len(q)
    PROVE  /\ q # <<>> /\ n \in 0..Len(Front(q))
           /\ OwnOf(q, n) = OwnOf(Front(q), n) \cup {Last(q)}
<1> DEFINE r == Front(q)
           m == Len(q)
<1>1. m \in Nat /\ n \in Nat /\ n < m /\ q # <<>>
  BY ToSetIs
<1>2. /\ r \in Seq(S) /\ Len(r) = m - 1 /\ Last(q) = q[m]
      /\ \A i \in 1..(m - 1) : r[i] = q[i]
  BY <1>1, FrontIs
<1> HIDE DEF r
<1>6. n \in 0..Len(r)
  BY <1>1, <1>2
<1>3. /\ OwnOf(q, n) = {q[i] : i \in (n + 1)..m}
      /\ OwnOf(r, n) = {r[i] : i \in (n + 1)..(m - 1)}
  BY <1>1, <1>2, <1>6, OwnIs
<1> HIDE DEF m
<1>4. (n + 1)..m = (n + 1)..(m - 1) \cup {m} /\ \A i \in (n + 1)..(m - 1) : i \in 1..(m - 1)
  BY <1>1
<1>5. QED
  BY <1>1, <1>2, <1>3, <1>4, <1>6 DEF r

\* What one chain enters or leaves is all that changes.
LEMMA OpenElsewhere ==
    ASSUME NEW sc, NEW inh, NEW sc2, NEW inh2, NEW c \in Chains,
           \A d \in Chains \ {c} : OwnOf(sc2[d], inh2[d]) = OwnOf(sc[d], inh[d])
    PROVE  OpenIn(sc2, inh2) \cup OwnOf(sc[c], inh[c]) = OpenIn(sc, inh) \cup OwnOf(sc2[c], inh2[c])
<1> DEFINE own(d) == OwnOf(sc[d], inh[d])
           own2(d) == OwnOf(sc2[d], inh2[d])
<1>1. \A x : x \in OpenIn(sc, inh) <=> \E d \in Chains : x \in own(d)
  BY DEF OpenIn
<1>2. \A x : x \in OpenIn(sc2, inh2) <=> \E d \in Chains : x \in own2(d)
  BY DEF OpenIn
<1>3. \A d \in Chains \ {c} : own2(d) = own(d)
  OBVIOUS
<1> HIDE DEF own, own2
<1>4. OpenIn(sc2, inh2) \cup own(c) = OpenIn(sc, inh) \cup own2(c)
  BY <1>1, <1>2, <1>3
<1>5. QED
  BY <1>4 DEF own, own2

-----------------------------------------------------------------------------
(* A browser's stacks, and the open blocks q they stand for, in order: one *)
(* holds their ids, the other what each and those below it bind.           *)

Contexts == [Keys -> Nat \cup {None}]

SpansMatch(stack, q, open) ==
    /\ stack \in Seq(Nat) /\ q \in Seq(Block) /\ Ordered(q) /\ ToSet(q) = open
    /\ Len(stack) = Len(q) /\ \A i \in 1..Len(q) : stack[i] = q[i].id

ContextsMatch(stack, q, open) ==
    /\ stack \in Seq(Contexts) /\ q \in Seq(Block) /\ Ordered(q) /\ ToSet(q) = open
    /\ Len(stack) = Len(q)
    /\ \A i \in 1..Len(q), k \in Keys : stack[i][k] = Innermost(q, {j \in 1..i : q[j].key = k})

LEMMA OrderedAppend ==
    ASSUME NEW q \in Seq(Block), Ordered(q), NEW b \in Block, \A x \in ToSet(q) : x.id < b.id
    PROVE  Ordered(Append(q, b))
<1> DEFINE r == Append(q, b)
<1>1. /\ Len(q) \in Nat /\ Len(r) = Len(q) + 1 /\ r[Len(q) + 1] = b
      /\ \A i \in 1..Len(q) : r[i] = q[i] /\ q[i] \in ToSet(q)
  BY ToSetAppend, ToSetIs
<1> HIDE DEF r
<1>2. ASSUME NEW i \in 1..Len(r), NEW j \in 1..Len(r), i < j PROVE r[i].id < r[j].id
  <2>1. i \in 1..Len(q)
    BY <1>1, <1>2
  <2>2. CASE j \in 1..Len(q)
    BY <1>1, <1>2, <2>1, <2>2 DEF Ordered
  <2>3. CASE j = Len(q) + 1
    BY <1>1, <2>1, <2>3
  <2>4. QED
    BY <1>1, <2>2, <2>3
<1>3. QED
  BY <1>2 DEF Ordered, r

\* The newest block of a sequence is at its end, and nowhere else.
LEMMA OrderedFront ==
    ASSUME NEW q \in Seq(Block), Ordered(q), NEW b \in ToSet(q), \A x \in ToSet(q) : x.id <= b.id
    PROVE  /\ q # <<>> /\ Last(q) = b /\ Ordered(Front(q))
           /\ ToSet(Front(q)) = ToSet(q) \ {b}
<1>1. /\ Len(q) \in Nat /\ ToSet(q) = {q[i] : i \in 1..Len(q)} /\ q # <<>>
      /\ \A i \in 1..Len(q) : q[i].id \in Nat
  BY ToSetIs, BlockNumbered
<1>2. PICK i \in 1..Len(q) : q[i] = b
  BY <1>1
<1>3. i = Len(q)
  <2>1. CASE i < Len(q)
    <3>1. Len(q) \in 1..Len(q) /\ q[i].id < q[Len(q)].id /\ q[Len(q)] \in ToSet(q)
      BY <1>1, <2>1 DEF Ordered
    <3>2. q[Len(q)].id <= q[i].id
      BY <1>2, <3>1
    <3>3. QED
      BY <1>1, <3>1, <3>2
  <2>2. QED
    BY <1>1, <2>1
<1>4. /\ Front(q) \in Seq(Block) /\ Len(Front(q)) = Len(q) - 1
      /\ \A j \in 1..(Len(q) - 1) : Front(q)[j] = q[j]
      /\ ToSet(q) = ToSet(Front(q)) \cup {b} /\ Last(q) = b
  BY <1>1, <1>2, <1>3, FrontIs
<1>5. Ordered(Front(q))
  <2>1. \A j \in 1..Len(Front(q)) : j \in 1..Len(q) /\ Front(q)[j] = q[j]
    BY <1>1, <1>4
  <2>2. QED
    BY <2>1 DEF Ordered
<1>6. b \notin ToSet(Front(q))
  <2>1. ASSUME NEW j \in 1..(Len(q) - 1) PROVE Front(q)[j] # b
    <3>1. q[j].id < q[Len(q)].id /\ q[j].id \in Nat /\ q[Len(q)].id \in Nat
      BY <1>1 DEF Ordered
    <3>2. q[j] # b
      BY <1>2, <1>3, <3>1
    <3>3. QED
      BY <1>4, <3>2
  <2>2. ToSet(Front(q)) = {Front(q)[j] : j \in 1..(Len(q) - 1)}
    BY <1>4, ToSetIs
  <2>3. QED
    BY <2>1, <2>2
<1>7. QED
  BY <1>1, <1>4, <1>5, <1>6

LEMMA PushSpan ==
    ASSUME NEW stack, NEW q, NEW open, SpansMatch(stack, q, open),
           NEW b \in Block, \A x \in open : x.id < b.id
    PROVE  SpansMatch(Append(stack, b.id), Append(q, b), open \cup {b})
<1>1. b.id \in Nat
  BY BlockNumbered
<1>2. /\ Append(stack, b.id) \in Seq(Nat) /\ Append(q, b) \in Seq(Block)
      /\ Ordered(Append(q, b)) /\ ToSet(Append(q, b)) = open \cup {b}
      /\ Len(Append(stack, b.id)) = Len(Append(q, b))
  BY <1>1, ToSetAppend, OrderedAppend DEF SpansMatch
<1>3. /\ Len(q) \in Nat /\ Len(Append(q, b)) = Len(q) + 1
      /\ \A i \in 1..Len(q) : Append(q, b)[i] = q[i] /\ Append(stack, b.id)[i] = stack[i]
      /\ Append(q, b)[Len(q) + 1] = b /\ Append(stack, b.id)[Len(q) + 1] = b.id
  BY <1>1, ToSetAppend, ToSetIs DEF SpansMatch
<1>4. \A i \in 1..(Len(q) + 1) : i \in 1..Len(q) \/ i = Len(q) + 1
  BY <1>3
<1>5. QED
  BY <1>2, <1>3, <1>4 DEF SpansMatch

LEMMA PopSpan ==
    ASSUME NEW stack, NEW q, NEW open, SpansMatch(stack, q, open),
           NEW b \in open, \A x \in open : x.id <= b.id
    PROVE  SpansMatch(Front(stack), Front(q), open \ {b})
<1>1. q # <<>> /\ Ordered(Front(q)) /\ ToSet(Front(q)) = open \ {b}
  BY OrderedFront DEF SpansMatch
<1>2. stack # <<>>
  BY <1>1, ToSetIs DEF SpansMatch
<1>3. /\ Front(q) \in Seq(Block) /\ Front(stack) \in Seq(Nat) /\ Len(q) \in Nat
      /\ Len(Front(q)) = Len(q) - 1 /\ Len(Front(stack)) = Len(q) - 1
      /\ \A i \in 1..(Len(q) - 1) : Front(q)[i] = q[i] /\ Front(stack)[i] = stack[i]
  BY <1>1, <1>2, FrontIs DEF SpansMatch
<1>4. \A i \in 1..(Len(q) - 1) : i \in 1..Len(q)
  BY <1>3
<1>5. QED
  BY <1>1, <1>3, <1>4 DEF SpansMatch

\* What a block binds is what the next one starts from.
LEMMA BindingsBelow ==
    ASSUME NEW q, NEW r, NEW i \in Nat, NEW J \in SUBSET (1..i), \A j \in J : r[j] = q[j]
    PROVE  Innermost(r, J) = Innermost(q, J)
  BY GreatestOf DEF Innermost

\* The context on top of the stack, and what bindContext() makes of it.
Top(stack) == IF stack = <<>> THEN NoContext ELSE Last(stack)

LEMMA TopBinds ==
    ASSUME NEW stack, NEW q, NEW open, ContextsMatch(stack, q, open)
    PROVE  /\ Top(stack) \in Contexts /\ Len(q) \in Nat
           /\ \A k \in Keys : Top(stack)[k] = Innermost(q, {j \in 1..Len(q) : q[j].key = k})
<1>1. /\ Len(q) \in Nat /\ Len(stack) = Len(q) /\ (stack = <<>> <=> Len(q) = 0)
      /\ \A i \in 1..Len(q) : stack[i] \in Contexts
  BY ToSetIs DEF ContextsMatch
<1>2. CASE Len(q) = 0
  <2>1. Top(stack) = NoContext /\ \A k : {j \in 1..Len(q) : q[j].key = k} = {}
    BY <1>1, <1>2 DEF Top
  <2>2. QED
    BY <1>1, <2>1 DEF NoContext, Contexts, Innermost
<1>3. CASE Len(q) # 0
  <2>1. Len(q) \in 1..Len(q) /\ Top(stack) = stack[Len(q)]
    BY <1>1, <1>3 DEF Top, Last
  <2>2. QED
    BY <1>1, <2>1 DEF ContextsMatch
<1>4. QED
  BY <1>2, <1>3

LEMMA PushContext ==
    ASSUME NEW stack, NEW q, NEW open, ContextsMatch(stack, q, open),
           NEW b \in Block, b.key \in Keys, \A x \in open : x.id < b.id
    PROVE  ContextsMatch(Append(stack, [Top(stack) EXCEPT ![b.key] = b.id]), Append(q, b), open \cup {b})
<1> DEFINE n == Len(q)
           t == [Top(stack) EXCEPT ![b.key] = b.id]
           r == Append(q, b)
           s == Append(stack, t)
<1>0. /\ Top(stack) \in Contexts /\ n \in Nat
      /\ \A k \in Keys : Top(stack)[k] = Innermost(q, {j \in 1..n : q[j].key = k})
  BY TopBinds
<1>1. /\ b.id \in Nat /\ Top(stack) \in Contexts /\ n \in Nat /\ Len(stack) = n
      /\ stack \in Seq(Contexts) /\ q \in Seq(Block) /\ Ordered(q) /\ ToSet(q) = open
  BY <1>0, BlockNumbered DEF ContextsMatch
<1>2. t \in Contexts /\ t[b.key] = b.id /\ \A k \in Keys \ {b.key} : t[k] = Top(stack)[k]
  BY <1>1 DEF Contexts
<1> HIDE DEF t
<1>3. /\ s \in Seq(Contexts) /\ Len(s) = n + 1 /\ s[n + 1] = t
      /\ \A i \in 1..n : s[i] = stack[i]
  BY <1>1, <1>2, ToSetAppend
<1>4. /\ r \in Seq(Block) /\ Len(r) = n + 1 /\ r[n + 1] = b /\ \A i \in 1..n : r[i] = q[i]
      /\ Ordered(r) /\ ToSet(r) = open \cup {b}
  BY <1>1, ToSetAppend, OrderedAppend
<1> HIDE DEF r, s
<1>5. ASSUME NEW i \in 1..n, NEW k \in Keys
      PROVE  s[i][k] = Innermost(r, {j \in 1..i : r[j].key = k})
  <2>1. i \in Nat /\ \A j \in 1..i : r[j] = q[j]
    BY <1>1, <1>4
  <2>2. stack[i][k] = Innermost(q, {j \in 1..i : q[j].key = k})
    BY DEF ContextsMatch, n
  <2> DEFINE J == {j \in 1..i : q[j].key = k}
  <2>3. {j \in 1..i : r[j].key = k} = J /\ J \in SUBSET (1..i) /\ \A j \in J : r[j] = q[j]
    BY <2>1
  <2> HIDE DEF J
  <2>4. Innermost(r, J) = Innermost(q, J)
    BY <2>1, <2>3, BindingsBelow
  <2>5. s[i][k] = Innermost(q, J)
    BY <1>3, <2>2 DEF J
  <2>6. QED
    BY <2>3, <2>4, <2>5
<1>6. ASSUME NEW k \in Keys
      PROVE  s[n + 1][k] = Innermost(r, {j \in 1..(n + 1) : r[j].key = k})
  <2> DEFINE J == {j \in 1..(n + 1) : r[j].key = k}
  <2>1. CASE k = b.key
    <3>1. J # {} /\ n + 1 \in J /\ \A j \in J : j <= n + 1
      BY <1>1, <1>4, <2>1
    <3>2. Max(J) \in J /\ \A j \in J : j <= Max(J)
      <4>1. n + 1 \in Nat /\ J \in SUBSET (1..(n + 1))
        BY <1>1
      <4> HIDE DEF J
      <4>2. QED
        BY <3>1, <4>1, GreatestOf
    <3>3. Max(J) = n + 1
      BY <1>1, <3>1, <3>2
    <3>4. Innermost(r, J) = r[n + 1].id
      BY <3>1, <3>3 DEF Innermost
    <3>5. QED
      BY <1>2, <1>3, <1>4, <2>1, <3>4
  <2>2. CASE k # b.key
    <3> DEFINE I == {j \in 1..n : q[j].key = k}
    <3>1. J = I /\ I \in SUBSET (1..n) /\ \A j \in I : r[j] = q[j]
      BY <1>1, <1>4, <2>2
    <3>2. t[k] = Innermost(q, I)
      BY <1>0, <1>2, <2>2
    <3> HIDE DEF I, J
    <3>3. Innermost(r, I) = Innermost(q, I)
      BY <1>1, <3>1, BindingsBelow
    <3>4. QED
      BY <1>3, <3>1, <3>2, <3>3 DEF J
  <2>3. QED
    BY <2>1, <2>2
<1>7. \A i \in 1..(n + 1) : i \in 1..n \/ i = n + 1
  BY <1>1
<1>8. ContextsMatch(s, r, open \cup {b})
  BY <1>3, <1>4, <1>5, <1>6, <1>7 DEF ContextsMatch
<1>9. QED
  BY <1>8 DEF s, r, t

LEMMA PopContext ==
    ASSUME NEW stack, NEW q, NEW open, ContextsMatch(stack, q, open),
           NEW b \in open, \A x \in open : x.id <= b.id
    PROVE  ContextsMatch(Front(stack), Front(q), open \ {b})
<1> DEFINE r == Front(q)
           s == Front(stack)
<1>1. q # <<>> /\ Ordered(r) /\ ToSet(r) = open \ {b}
  BY OrderedFront DEF ContextsMatch
<1>2. stack # <<>>
  BY <1>1, ToSetIs DEF ContextsMatch
<1>3. /\ r \in Seq(Block) /\ s \in Seq(Contexts) /\ Len(q) \in Nat
      /\ Len(r) = Len(q) - 1 /\ Len(s) = Len(q) - 1
      /\ \A i \in 1..(Len(q) - 1) : r[i] = q[i] /\ s[i] = stack[i]
  BY <1>1, <1>2, FrontIs DEF ContextsMatch
<1> HIDE DEF r, s
<1>4. ASSUME NEW i \in 1..(Len(q) - 1), NEW k \in Keys
      PROVE  s[i][k] = Innermost(r, {j \in 1..i : r[j].key = k})
  <2>1. i \in Nat /\ i \in 1..Len(q) /\ \A j \in 1..i : r[j] = q[j]
    BY <1>3
  <2>2. stack[i][k] = Innermost(q, {j \in 1..i : q[j].key = k})
    BY <2>1 DEF ContextsMatch
  <2> DEFINE J == {j \in 1..i : q[j].key = k}
  <2>3. {j \in 1..i : r[j].key = k} = J /\ J \in SUBSET (1..i) /\ \A j \in J : r[j] = q[j]
    BY <2>1
  <2> HIDE DEF J
  <2>4. Innermost(r, J) = Innermost(q, J)
    BY <2>1, <2>3, BindingsBelow
  <2>5. s[i][k] = Innermost(q, J)
    BY <1>3, <2>2 DEF J
  <2>6. QED
    BY <2>3, <2>4, <2>5
<1>5. ContextsMatch(s, r, open \ {b})
  BY <1>1, <1>3, <1>4 DEF ContextsMatch
<1>6. QED
  BY <1>5 DEF s, r

\* A chain that is in just the open blocks finds on the stacks what it is in.
LEMMA TopSpan ==
    ASSUME NEW stack, NEW q, NEW p \in Seq(Block), Ordered(p),
           SpansMatch(stack, q, {b \in ToSet(p) : b.type = "span"})
    PROVE  (IF stack = <<>> THEN None ELSE Last(stack)) = Enclosing(p)
<1> DEFINE I == {i \in DOMAIN p : p[i].type = "span"}
           J == 1..Len(q)
<1>1. /\ Len(q) \in Nat /\ Len(stack) = Len(q) /\ (stack = <<>> <=> Len(q) = 0)
      /\ q \in Seq(Block) /\ Ordered(q) /\ ToSet(q) = {q[j] : j \in J}
  BY ToSetIs DEF SpansMatch
<1>2. DOMAIN p = 1..Len(p) /\ ToSet(p) = {p[i] : i \in 1..Len(p)}
  BY ToSetIs
<1>3. {p[i] : i \in I} = {q[j] : j \in J}
  <2>1. {p[i] : i \in I} = {b \in ToSet(p) : b.type = "span"}
    BY <1>2
  <2>2. QED
    BY <1>1, <2>1 DEF SpansMatch
<1>4. I \in SUBSET (1..Len(p))
  BY <1>2
<1> HIDE DEF I
<1>8. (\A i \in I : \E j \in J : q[j] = p[i]) /\ (\A j \in J : \E i \in I : p[i] = q[j])
  BY <1>3
<1>5. Innermost(p, I) = Innermost(q, J)
  <2>1. q \in Seq(Block) /\ Ordered(q) /\ J \in SUBSET (1..Len(q))
    BY <1>1
  <2> HIDE DEF J
  <2>2. QED
    BY <1>4, <1>8, <2>1, SameInnermost
<1>6. (IF stack = <<>> THEN None ELSE Last(stack)) = Innermost(q, J)
  <2>1. CASE Len(q) = 0
    <3>1. J = {} /\ stack = <<>>
      BY <1>1, <2>1
    <3>2. QED
      BY <3>1 DEF Innermost
  <2>2. CASE Len(q) # 0
    <3>1. Len(q) \in J /\ \A j \in J : j <= Len(q)
      BY <1>1, <2>2
    <3>2. Max(J) \in J /\ \A j \in J : j <= Max(J)
      BY <1>1, <3>1, GreatestOf
    <3>3. Max(J) = Len(q)
      BY <1>1, <3>1, <3>2
    <3>4. stack[Len(q)] = q[Len(q)].id
      BY <3>1 DEF SpansMatch
    <3>5. QED
      BY <1>1, <2>2, <3>1, <3>3, <3>4 DEF Innermost, Last
  <2>3. QED
    BY <2>1, <2>2
<1>7. QED
  BY <1>5, <1>6 DEF Enclosing, I

LEMMA TopContext ==
    ASSUME NEW stack, NEW q, NEW p \in Seq(Block), Ordered(p),
           ContextsMatch(stack, q, {b \in ToSet(p) : b.type = "context"})
    PROVE  Top(stack) = Bound(p)
<1>1. /\ Len(q) \in Nat /\ Len(stack) = Len(q)
      /\ q \in Seq(Block) /\ Ordered(q) /\ ToSet(q) = {q[j] : j \in 1..Len(q)}
      /\ DOMAIN p = 1..Len(p) /\ ToSet(p) = {p[i] : i \in 1..Len(p)}
      /\ {q[j] : j \in 1..Len(q)} = {b \in ToSet(p) : b.type = "context"}
  BY ToSetIs DEF ContextsMatch
<1>2. ASSUME NEW k \in Keys PROVE Top(stack)[k] = Bound(p)[k]
  <2> DEFINE I == {i \in DOMAIN p : p[i].type = "context" /\ p[i].key = k}
             J == {j \in 1..Len(q) : q[j].key = k}
  <2>1. {p[i] : i \in I} = {b \in ToSet(p) : b.type = "context" /\ b.key = k}
    BY <1>1
  <2>2. {q[j] : j \in J} = {b \in {q[j] : j \in 1..Len(q)} : b.key = k}
    OBVIOUS
  <2>3. {p[i] : i \in I} = {q[j] : j \in J}
    BY <1>1, <2>1, <2>2
  <2>4. I \in SUBSET (1..Len(p)) /\ J \in SUBSET (1..Len(q))
    BY <1>1
  <2>5. Bound(p)[k] = Innermost(p, I)
    BY DEF Bound
  <2>6. Top(stack)[k] = Innermost(q, J)
    BY TopBinds
  <2> HIDE DEF I, J
  <2>7. (\A i \in I : \E j \in J : q[j] = p[i]) /\ (\A j \in J : \E i \in I : p[i] = q[j])
    BY <2>3
  <2>8. Innermost(p, I) = Innermost(q, J)
    BY <1>1, <2>4, <2>7, SameInnermost
  <2>9. QED
    BY <2>5, <2>6, <2>8
<1>3. Top(stack) = [k \in Keys |-> Top(stack)[k]]
  BY TopBinds DEF Contexts
<1>4. Bound(p) = [k \in Keys |-> Bound(p)[k]]
  BY DEF Bound
<1>5. QED
  BY <1>2, <1>3, <1>4

-----------------------------------------------------------------------------
(* The inductive invariant of the scopes. *)

OpenOf(type) == {b \in Open : b.type = type}

ScopesShapes ==
    /\ runtime \in {"node", "browser"} /\ alive \subseteq Chains
    /\ blocks \in 0..MaxBlocks /\ mixed \in BOOLEAN
    /\ scope \in [Chains -> Seq(Block)] /\ inherited \in [Chains -> Nat]
    /\ \A c \in Chains : inherited[c] <= Len(scope[c]) /\ (c \notin alive => scope[c] = <<>>)
    /\ spanStack \in Seq(Nat) /\ \A i \in 1..Len(spanStack) : spanStack[i] \in 1..blocks
    /\ contextStack \in Seq(Contexts)
    /\ \A i \in 1..Len(contextStack) : contextStack[i] \in [Keys -> 1..blocks \cup {None}]

\* A chain was in each block before those that it entered later.
Nested(q) ==
    /\ q \in Seq(Block) /\ Ordered(q)
    /\ \A i \in 1..Len(q) : q[i].id <= blocks /\ (q[i].type = "context" => q[i].key \in Keys)

ScopesNested == \A c \in Chains : Nested(scope[c])

\* A block is open in one place.
OpenOnce ==
    \A c, d \in Chains :
        \A i \in (inherited[c] + 1)..Len(scope[c]), j \in (inherited[d] + 1)..Len(scope[d]) :
            scope[c][i].id = scope[d][j].id => c = d /\ i = j

\* However blocks are left, each takes one off the stack it put one on.
StackCounts ==
    /\ IsFiniteSet(OpenOf("span")) /\ IsFiniteSet(OpenOf("context"))
    /\ IF runtime = "node" THEN spanStack = <<>> /\ contextStack = <<>>
       ELSE /\ Cardinality(OpenOf("span")) = Len(spanStack)
            /\ Cardinality(OpenOf("context")) = Len(contextStack)

\* Unless the stacks are mixed they stand for the open blocks.
StacksMatch ==
    /\ \E q : SpansMatch(spanStack, q, OpenOf("span"))
    /\ \E q : ContextsMatch(contextStack, q, OpenOf("context"))

ScopesInv ==
    /\ ScopesShapes /\ ScopesNested /\ OpenOnce /\ StackCounts
    /\ runtime = "browser" /\ ~mixed => StacksMatch

LEMMA OpenInHas ==
    ASSUME NEW sc \in [Chains -> Seq(Block)], NEW inh \in [Chains -> Nat],
           \A c \in Chains : inh[c] <= Len(sc[c])
    PROVE  \A b : b \in OpenIn(sc, inh) <=>
                  \E c \in Chains : \E i \in (inh[c] + 1)..Len(sc[c]) : b = sc[c][i]
<1>1. \A c \in Chains : sc[c] \in Seq(Block) /\ inh[c] \in 0..Len(sc[c])
  BY ToSetIs
<1>2. \A c \in Chains : OwnOf(sc[c], inh[c]) = {sc[c][i] : i \in (inh[c] + 1)..Len(sc[c])}
  BY <1>1, OwnIs
<1>3. \A b : b \in OpenIn(sc, inh) <=> \E c \in Chains : b \in OwnOf(sc[c], inh[c])
  BY DEF OpenIn
<1>4. ASSUME NEW b, NEW c \in Chains
      PROVE  b \in OwnOf(sc[c], inh[c]) <=> \E i \in (inh[c] + 1)..Len(sc[c]) : b = sc[c][i]
  BY <1>2
<1>5. QED
  BY <1>3, <1>4

LEMMA OpenHas ==
    /\ ScopesShapes =>
          \A b : b \in Open <=>
                 \E c \in Chains : \E i \in (inherited[c] + 1)..Len(scope[c]) : b = scope[c][i]
    /\ ScopesShapes' =>
          \A b : b \in Open' <=>
                 \E c \in Chains : \E i \in (inherited'[c] + 1)..Len(scope'[c]) : b = scope'[c][i]
<1>1. /\ ScopesShapes => /\ scope \in [Chains -> Seq(Block)] /\ inherited \in [Chains -> Nat]
                         /\ \A c \in Chains : inherited[c] <= Len(scope[c])
      /\ ScopesShapes' => /\ scope' \in [Chains -> Seq(Block)] /\ inherited' \in [Chains -> Nat]
                          /\ \A c \in Chains : inherited'[c] <= Len(scope'[c])
  BY DEF ScopesShapes
<1>2. ASSUME ScopesShapes
      PROVE  \A b : b \in Open <=>
                 \E c \in Chains : \E i \in (inherited[c] + 1)..Len(scope[c]) : b = scope[c][i]
  <2>1. \A b : b \in OpenIn(scope, inherited) <=>
            \E c \in Chains : \E i \in (inherited[c] + 1)..Len(scope[c]) : b = scope[c][i]
    BY <1>1, <1>2, OpenInHas
  <2>2. QED
    BY <2>1, OpenIsOpenIn
<1>3. ASSUME ScopesShapes'
      PROVE  \A b : b \in Open' <=>
                 \E c \in Chains : \E i \in (inherited'[c] + 1)..Len(scope'[c]) : b = scope'[c][i]
  <2>1. \A b : b \in OpenIn(scope', inherited') <=>
            \E c \in Chains : \E i \in (inherited'[c] + 1)..Len(scope'[c]) : b = scope'[c][i]
    BY <1>1, <1>3, OpenInHas
  <2>2. QED
    BY <2>1, OpenIsOpenIn
<1>4. QED
  BY <1>2, <1>3

LEMMA OpenAreBlocks ==
    ASSUME ScopesShapes, ScopesNested
    PROVE  \A b \in Open : b \in Block /\ b.id <= blocks
<1>1. \A c \in Chains : \A i \in (inherited[c] + 1)..Len(scope[c]) : i \in 1..Len(scope[c])
  BY ToSetIs DEF ScopesShapes
<1>2. \A c \in Chains : \A i \in 1..Len(scope[c]) : scope[c][i] \in Block /\ scope[c][i].id <= blocks
  BY ToSetIs DEF ScopesShapes, ScopesNested, Nested
<1>3. QED
  BY <1>1, <1>2, OpenHas

\* No block is open, so that the stacks are empty.
LEMMA NoneOpen ==
    ASSUME ScopesInv, runtime = "browser", Open = {}
    PROVE  StacksMatch
<1>1. OpenOf("span") = {} /\ OpenOf("context") = {}
  BY DEF OpenOf
<1>2. Len(spanStack) = 0 /\ Len(contextStack) = 0
  BY <1>1, FS_EmptySet DEF ScopesInv, StackCounts
<1>3. <<>> \in Seq(Block) /\ Len(<<>>) = 0 /\ ToSet(<<>>) = {}
  BY EmptySeq DEF ToSet
<1>4. SpansMatch(spanStack, <<>>, {}) /\ ContextsMatch(contextStack, <<>>, {})
  BY <1>2, <1>3 DEF SpansMatch, ContextsMatch, Ordered, ScopesInv, ScopesShapes
<1>5. QED
  BY <1>1, <1>4 DEF StacksMatch

\* Whoever uses the stacks without mixing them is in all that is open.
LEMMA NotMixing ==
    ASSUME ScopesInv, runtime = "browser", NEW c \in Chains, ~Mixing(c)
    PROVE  StacksMatch /\ ToSet(scope[c]) = Open
<1>1. ToSet(scope[c]) = Open /\ (~mixed \/ Open = {})
  BY DEF Mixing
<1>2. QED
  BY <1>1, NoneOpen DEF ScopesInv

\* What the logger sees then is what the chain is in.
LEMMA StacksTell ==
    ASSUME ScopesInv, NEW c \in Chains, runtime = "node" \/ (~mixed /\ ToSet(scope[c]) = Open)
    PROVE  CurrentSpanId(c) = Enclosing(scope[c]) /\ CurrentContext(c) = Bound(scope[c])
<1>1. CASE runtime = "node"
  BY <1>1 DEF CurrentSpanId, CurrentContext
<1>2. CASE runtime # "node"
  <2>1. runtime = "browser" /\ ToSet(scope[c]) = Open /\ StacksMatch
    BY <1>2 DEF ScopesInv, ScopesShapes
  <2>2. scope[c] \in Seq(Block) /\ Ordered(scope[c])
    BY DEF ScopesInv, ScopesNested, Nested
  <2>3. /\ \E q : SpansMatch(spanStack, q, {b \in ToSet(scope[c]) : b.type = "span"})
        /\ \E q : ContextsMatch(contextStack, q, {b \in ToSet(scope[c]) : b.type = "context"})
    BY <2>1 DEF StacksMatch, OpenOf
  <2>4. (IF spanStack = <<>> THEN None ELSE Last(spanStack)) = Enclosing(scope[c])
    BY <2>2, <2>3, TopSpan
  <2>5. Top(contextStack) = Bound(scope[c])
    BY <2>2, <2>3, TopContext
  <2>6. QED
    BY <1>2, <2>4, <2>5 DEF CurrentSpanId, CurrentContext, Top
<1>3. QED
  BY <1>1, <1>2

LEMMA ScopesStart == ScopesInit => ScopesInv
<1> SUFFICES ASSUME ScopesInit PROVE ScopesInv
  OBVIOUS
<1>1. /\ runtime \in {"node", "browser"} /\ alive = {} /\ spanStack = <<>> /\ contextStack = <<>>
      /\ scope = [c \in Chains |-> <<>>] /\ inherited = [c \in Chains |-> 0]
      /\ blocks = 0 /\ mixed = FALSE /\ MaxBlocks \in Nat
  BY ScopesAssumption DEF ScopesInit, ScopesAssumption
<1>2. \A S : <<>> \in Seq(S) /\ Len(<<>>) = 0
  BY EmptySeq
<1>3. ScopesShapes
  <2>1. <<>> \in Seq(Block) /\ <<>> \in Seq(Nat) /\ <<>> \in Seq(Contexts) /\ 1..Len(<<>>) = {}
    BY <1>2
  <2>2. \A c \in Chains : inherited[c] <= Len(scope[c]) /\ scope[c] = <<>>
    BY <1>1, <1>2
  <2>3. spanStack \in Seq(Nat) /\ \A i \in 1..Len(spanStack) : spanStack[i] \in 1..blocks
    BY <1>1, <2>1
  <2>4. /\ contextStack \in Seq(Contexts)
        /\ \A i \in 1..Len(contextStack) : contextStack[i] \in [Keys -> 1..blocks \cup {None}]
    BY <1>1, <2>1
  <2>5. scope \in [Chains -> Seq(Block)] /\ inherited \in [Chains -> Nat]
    BY <1>1, <2>1
  <2>6. /\ runtime \in {"node", "browser"} /\ alive \subseteq Chains
        /\ blocks \in 0..MaxBlocks
    BY <1>1
  <2>7. mixed \in BOOLEAN
    BY <1>1
  <2>8. QED
    BY <2>2, <2>3, <2>4, <2>5, <2>6, <2>7 DEF ScopesShapes
<1>4. ScopesNested /\ OpenOnce
  BY <1>1, <1>2 DEF ScopesNested, OpenOnce, Nested, Ordered
<1>5. Open = {}
  BY <1>1, <1>2, <1>3, <1>4, OpenHas
<1>6. OpenOf("span") = {} /\ OpenOf("context") = {}
  BY <1>5 DEF OpenOf
<1>7. StackCounts
  BY <1>1, <1>2, <1>6, FS_EmptySet DEF StackCounts
<1>8. <<>> \in Seq(Block) /\ ToSet(<<>>) = {}
  BY EmptySeq DEF ToSet
<1>9. SpansMatch(spanStack, <<>>, {}) /\ ContextsMatch(contextStack, <<>>, {})
  BY <1>1, <1>2, <1>8 DEF SpansMatch, ContextsMatch, Ordered
<1>10. QED
  BY <1>3, <1>4, <1>6, <1>7, <1>9 DEF ScopesInv, StacksMatch

LEMMA LookKeeps ==
    ASSUME ScopesInv, NEW c \in Chains, Look(c)
    PROVE  ScopesInv' /\ (runtime' = "browser" /\ ~mixed' => ToSet(scope'[c]) = Open')
<1>1. /\ mixed' = Mixing(c) /\ mixed' \in BOOLEAN
      /\ UNCHANGED <<runtime, scope, inherited, alive, spanStack, contextStack, blocks>>
  BY DEF Look, Mixing, ScopesInv, ScopesShapes
<1>2. Open' = Open
  BY <1>1, OpenIsOpenIn
<1>3. OpenOf("span")' = OpenOf("span") /\ OpenOf("context")' = OpenOf("context")
  BY <1>2 DEF OpenOf
<1>4. runtime' = "browser" /\ ~mixed' => StacksMatch' /\ ToSet(scope[c]) = Open
  <2>1. runtime' = "browser" /\ ~mixed' => StacksMatch /\ ToSet(scope[c]) = Open
    BY <1>1, NotMixing
  <2>2. StacksMatch => StacksMatch'
    BY <1>1, <1>3 DEF StacksMatch
  <2>3. QED
    BY <2>1, <2>2
<1>5. ScopesShapes'
  BY <1>1 DEF ScopesInv, ScopesShapes
<1>6. ScopesNested' /\ OpenOnce'
  BY <1>1 DEF ScopesInv, ScopesNested, Nested, OpenOnce
<1>7. StackCounts'
  BY <1>1, <1>3 DEF ScopesInv, StackCounts
<1>8. runtime' = "browser" /\ ~mixed' => ToSet(scope'[c]) = Open'
  BY <1>1, <1>2, <1>4
<1>9. QED
  BY <1>4, <1>5, <1>6, <1>7, <1>8 DEF ScopesInv

\* A chain starts in the scope of another, or ends: no block is entered or left.
LEMMA RescopeKeeps ==
    ASSUME ScopesInv, NEW c \in Chains, NEW q, Nested(q), inherited[c] = Len(scope[c]),
           scope' = [scope EXCEPT ![c] = q], inherited' = [inherited EXCEPT ![c] = Len(q)],
           alive' \subseteq Chains, \A d \in Chains \ {c} : d \in alive' <=> d \in alive,
           c \notin alive' => q = <<>>,
           UNCHANGED <<runtime, spanStack, contextStack, blocks, mixed>>
    PROVE  ScopesInv'
<1>1. /\ scope \in [Chains -> Seq(Block)] /\ inherited \in [Chains -> Nat]
      /\ q \in Seq(Block) /\ Len(q) \in Nat
      /\ \A d \in Chains : Len(scope[d]) \in Nat
  BY ToSetIs DEF ScopesInv, ScopesShapes, Nested
<1>2. /\ scope'[c] = q /\ inherited'[c] = Len(q)
      /\ \A d \in Chains \ {c} : scope'[d] = scope[d] /\ inherited'[d] = inherited[d]
      /\ scope' \in [Chains -> Seq(Block)] /\ inherited' \in [Chains -> Nat]
  BY <1>1
<1>3. ScopesShapes'
  <2>1. \A d \in Chains : inherited'[d] <= Len(scope'[d]) /\ (d \notin alive' => scope'[d] = <<>>)
    BY <1>1, <1>2 DEF ScopesInv, ScopesShapes
  <2>2. QED
    BY <1>2, <2>1 DEF ScopesInv, ScopesShapes
<1>4. ScopesNested'
  BY <1>2 DEF ScopesInv, ScopesNested, Nested
<1>5. (inherited[c] + 1)..Len(scope[c]) = {} /\ (inherited'[c] + 1)..Len(scope'[c]) = {}
  BY <1>1, <1>2
<1>6. OpenOnce'
  BY <1>2, <1>5 DEF ScopesInv, OpenOnce
<1>7. Open' = Open
  <2>1. \A b : b \in Open <=>
                 \E d \in Chains : \E i \in (inherited[d] + 1)..Len(scope[d]) : b = scope[d][i]
    BY OpenHas DEF ScopesInv
  <2>2. \A b : b \in Open' <=>
                 \E d \in Chains : \E i \in (inherited'[d] + 1)..Len(scope'[d]) : b = scope'[d][i]
    BY <1>3, OpenHas
  <2>3. \A b : b \in Open' <=> b \in Open
    BY <1>2, <1>5, <2>1, <2>2
  <2>4. QED
    BY <2>3
<1>8. OpenOf("span")' = OpenOf("span") /\ OpenOf("context")' = OpenOf("context")
  BY <1>7 DEF OpenOf
<1>9. StackCounts' /\ (runtime' = "browser" /\ ~mixed' => StacksMatch')
  BY <1>8 DEF ScopesInv, StackCounts, StacksMatch
<1>10. QED
  BY <1>3, <1>4, <1>6, <1>9 DEF ScopesInv

LEMMA StartKeeps ==
    ASSUME ScopesInv, NEW c \in Chains, NEW q, Nested(q), Start(c, q)
    PROVE  ScopesInv'
<1>1. /\ c \notin alive /\ alive' = alive \cup {c} /\ scope' = [scope EXCEPT ![c] = q]
      /\ inherited' = [inherited EXCEPT ![c] = Len(q)]
      /\ UNCHANGED <<runtime, spanStack, contextStack, blocks, mixed>>
  BY DEF Start
<1>2. scope[c] = <<>> /\ inherited[c] \in Nat /\ inherited[c] <= Len(scope[c]) /\ Len(<<>>) = 0
  BY <1>1, EmptySeq DEF ScopesInv, ScopesShapes
<1>3. inherited[c] = Len(scope[c]) /\ alive \subseteq Chains
  BY <1>2 DEF ScopesInv, ScopesShapes
<1>4. QED
  BY <1>1, <1>3, RescopeKeeps

LEMMA EndKeeps ==
    ASSUME ScopesInv, NEW c \in Chains, End(c)
    PROVE  ScopesInv'
<1>1. /\ Own(c) = <<>> /\ alive' = alive \ {c} /\ scope' = [scope EXCEPT ![c] = <<>>]
      /\ inherited' = [inherited EXCEPT ![c] = 0]
      /\ UNCHANGED <<runtime, spanStack, contextStack, blocks, mixed>>
  BY DEF End
<1>2. scope[c] \in Seq(Block) /\ inherited[c] \in 0..Len(scope[c]) /\ alive \subseteq Chains
  BY ToSetIs DEF ScopesInv, ScopesShapes
<1>3. inherited[c] = Len(scope[c])
  BY <1>1, <1>2, OwnIs DEF Own
<1>4. Nested(<<>>) /\ Len(<<>>) = 0
  BY EmptySeq DEF Nested, Ordered
<1>5. QED
  BY <1>1, <1>2, <1>3, <1>4, RescopeKeeps

LEMMA PushKeepsShapes ==
    ASSUME ScopesShapes, NEW b \in Block, b.id = blocks + 1, blocks' = b.id, Push(b),
           b.type = "context" => b.key \in Keys
    PROVE  /\ spanStack' \in Seq(Nat) /\ \A i \in 1..Len(spanStack') : spanStack'[i] \in 1..blocks'
           /\ contextStack' \in Seq(Contexts)
           /\ \A i \in 1..Len(contextStack') : contextStack'[i] \in [Keys -> 1..blocks' \cup {None}]
           /\ Len(spanStack') = IF b.type = "span" THEN Len(spanStack) + 1 ELSE Len(spanStack)
           /\ Len(contextStack') =
                 IF b.type = "context" THEN Len(contextStack) + 1 ELSE Len(contextStack)
<1>1. /\ blocks \in Nat /\ blocks' = blocks + 1 /\ blocks + 1 \in 1..(blocks + 1)
      /\ 1..blocks \subseteq 1..(blocks + 1)
  BY ScopesAssumption DEF ScopesAssumption, ScopesShapes
<1>2. /\ spanStack \in Seq(Nat) /\ \A i \in 1..Len(spanStack) : spanStack[i] \in 1..(blocks + 1)
      /\ contextStack \in Seq(Contexts)
      /\ \A i \in 1..Len(contextStack) : contextStack[i] \in [Keys -> 1..blocks \cup {None}]
  BY <1>1 DEF ScopesShapes
<1>3. \A i \in 1..Len(contextStack) : contextStack[i] \in [Keys -> 1..(blocks + 1) \cup {None}]
  BY <1>1, <1>2
<1>4. CASE b.type = "span"
  <2>1. spanStack' = Append(spanStack, b.id) /\ contextStack' = contextStack
    BY <1>4 DEF Push
  <2>2. /\ spanStack' \in Seq(Nat) /\ Len(spanStack') = Len(spanStack) + 1 /\ Len(spanStack) \in Nat
        /\ \A i \in 1..Len(spanStack) : spanStack'[i] = spanStack[i]
        /\ spanStack'[Len(spanStack) + 1] = blocks + 1
    BY <1>1, <1>2, <2>1, ToSetAppend, ToSetIs
  <2>3. ASSUME NEW i \in 1..Len(spanStack') PROVE spanStack'[i] \in 1..blocks'
    <3>1. i \in 1..Len(spanStack) \/ i = Len(spanStack) + 1
      BY <2>2
    <3>2. QED
      BY <1>1, <1>2, <2>2, <3>1
  <2>4. QED
    BY <1>1, <1>2, <1>3, <1>4, <2>1, <2>2, <2>3
<1>5. CASE b.type = "context"
  <2> DEFINE t == [Top(contextStack) EXCEPT ![b.key] = b.id]
  <2>1. spanStack' = spanStack /\ contextStack' = Append(contextStack, t)
    BY <1>5 DEF Push, Top
  <2>2. Top(contextStack) \in [Keys -> 1..(blocks + 1) \cup {None}]
    <3>1. CASE contextStack = <<>>
      BY <3>1 DEF Top, NoContext
    <3>2. CASE contextStack # <<>>
      <4>1. Len(contextStack) \in 1..Len(contextStack)
        BY <1>2, <3>2, ToSetIs
      <4>2. QED
        BY <1>3, <3>2, <4>1 DEF Top, Last
    <3>3. QED
      BY <3>1, <3>2
  <2>3. t \in [Keys -> 1..(blocks + 1) \cup {None}]
    BY <1>1, <2>2
  <2>4. t \in Contexts
    BY <1>1, <2>3 DEF Contexts
  <2> HIDE DEF t
  <2>5. /\ contextStack' \in Seq(Contexts) /\ Len(contextStack) \in Nat
        /\ Len(contextStack') = Len(contextStack) + 1
        /\ \A i \in 1..Len(contextStack) : contextStack'[i] = contextStack[i]
        /\ contextStack'[Len(contextStack) + 1] = t
    BY <1>2, <2>1, <2>4, ToSetAppend, ToSetIs
  <2>6. ASSUME NEW i \in 1..Len(contextStack')
        PROVE  contextStack'[i] \in [Keys -> 1..(blocks + 1) \cup {None}]
    <3>1. i \in 1..Len(contextStack) \/ i = Len(contextStack) + 1
      BY <2>5
    <3>2. QED
      BY <1>3, <2>3, <2>5, <3>1
  <2>7. QED
    BY <1>1, <1>2, <1>5, <2>1, <2>5, <2>6
<1>6. QED
  BY <1>4, <1>5 DEF Block

LEMMA EnterKeeps ==
    ASSUME ScopesInv, NEW c \in Chains, c \in alive, NEW b \in Block, Enter(c, b),
           b.type = "context" => b.key \in Keys
    PROVE  ScopesInv'
<1> DEFINE q == scope[c]
           r == Append(q, b)
<1>1. /\ b.id = blocks + 1 /\ blocks' = blocks + 1 /\ blocks < MaxBlocks /\ mixed' = Mixing(c)
      /\ scope' = [scope EXCEPT ![c] = r]
      /\ IF runtime = "node" THEN UNCHANGED <<spanStack, contextStack>> ELSE Push(b)
      /\ UNCHANGED <<runtime, inherited, alive>>
  BY DEF Enter
<1>2. /\ scope \in [Chains -> Seq(Block)] /\ q \in Seq(Block) /\ Nested(q) /\ inherited[c] \in Nat
      /\ blocks \in Nat /\ MaxBlocks \in Nat /\ inherited[c] <= Len(q)
  BY ScopesAssumption DEF ScopesAssumption, ScopesInv, ScopesShapes, ScopesNested
<1>3. /\ r \in Seq(Block) /\ Len(r) = Len(q) + 1 /\ r[Len(q) + 1] = b /\ Len(q) \in Nat
      /\ \A i \in 1..Len(q) : r[i] = q[i]
  BY <1>2, ToSetAppend, ToSetIs
<1>4. Nested(q) /\ Ordered(r)
  <2>1. \A x \in ToSet(q) : x.id < b.id
    <3>1. \A i \in 1..Len(q) : q[i].id \in Nat /\ q[i].id <= blocks
      BY <1>2, ToSetIs, BlockNumbered DEF Nested
    <3>2. ToSet(q) = {q[i] : i \in 1..Len(q)}
      BY <1>2, ToSetIs
    <3>3. QED
      BY <1>1, <1>2, <3>1, <3>2
  <2>2. QED
    BY <1>2, <2>1, OrderedAppend DEF Nested
<1> HIDE DEF r
<1>5. scope'[c] = r /\ \A d \in Chains \ {c} : scope'[d] = scope[d]
  BY <1>1, <1>2
<1>6. ScopesShapes'
  <2>1. scope' \in [Chains -> Seq(Block)]
    BY <1>1, <1>2, <1>3
  <2>2. \A d \in Chains : inherited'[d] <= Len(scope'[d]) /\ (d \notin alive' => scope'[d] = <<>>)
    BY <1>1, <1>2, <1>3, <1>5 DEF ScopesInv, ScopesShapes
  <2>3. blocks' \in 0..MaxBlocks
    BY <1>1, <1>2
  <2>4. mixed' \in BOOLEAN
    BY <1>1 DEF Mixing
  <2>5. /\ spanStack' \in Seq(Nat) /\ \A i \in 1..Len(spanStack') : spanStack'[i] \in 1..blocks'
        /\ contextStack' \in Seq(Contexts)
        /\ \A i \in 1..Len(contextStack') : contextStack'[i] \in [Keys -> 1..blocks' \cup {None}]
    <3>1. CASE runtime = "node"
      <4>1. spanStack' = <<>> /\ contextStack' = <<>>
        BY <1>1, <3>1 DEF ScopesInv, StackCounts
      <4>2. <<>> \in Seq(Nat) /\ <<>> \in Seq(Contexts) /\ 1..Len(<<>>) = {}
        BY EmptySeq
      <4>3. QED
        BY <4>1, <4>2
    <3>2. CASE runtime # "node"
      BY <1>1, <3>2, PushKeepsShapes DEF ScopesInv
    <3>3. QED
      BY <3>1, <3>2
  <2>6. QED
    BY <1>1, <2>1, <2>2, <2>3, <2>4, <2>5 DEF ScopesInv, ScopesShapes
<1>7. ScopesNested'
  <2>1. ASSUME NEW i \in 1..Len(r)
        PROVE  r[i].id <= blocks' /\ (r[i].type = "context" => r[i].key \in Keys)
    <3>1. CASE i = Len(q) + 1
      BY <1>1, <1>2, <1>3, <3>1
    <3>2. CASE i \in 1..Len(q)
      <4>1. r[i] = q[i] /\ q[i].id <= blocks /\ (q[i].type = "context" => q[i].key \in Keys)
        BY <1>2, <1>3, <3>2 DEF Nested
      <4>2. q[i].id \in Nat
        BY <1>2, <3>2, ToSetIs, BlockNumbered
      <4>3. QED
        BY <1>1, <1>2, <4>1, <4>2
    <3>3. QED
      BY <1>3, <3>1, <3>2
  <2>2. ASSUME NEW d \in Chains \ {c}, NEW i \in 1..Len(scope[d])
        PROVE  scope[d][i].id <= blocks'
    <3>1. scope[d] \in Seq(Block) /\ scope[d][i].id <= blocks
      BY <1>2 DEF ScopesInv, ScopesNested, Nested
    <3>2. scope[d][i].id \in Nat
      BY <3>1, ToSetIs, BlockNumbered
    <3>3. QED
      BY <1>1, <1>2, <3>1, <3>2
  <2>3. QED
    BY <1>3, <1>4, <1>5, <2>1, <2>2 DEF ScopesInv, ScopesNested, Nested
<1>8. \A x \in Open : x \in Block /\ x.id \in Nat /\ x.id < b.id
  BY <1>1, <1>2, OpenAreBlocks, BlockNumbered DEF ScopesInv
<1>9. Open' = Open \cup {b} /\ b \notin Open
  <2>1. OwnOf(r, inherited[c]) = OwnOf(q, inherited[c]) \cup {b}
    BY <1>2, <1>3, OwnAppend DEF r
  <2>2. \A d \in Chains \ {c} : OwnOf(scope'[d], inherited'[d]) = OwnOf(scope[d], inherited[d])
    BY <1>1, <1>5
  <2>3. Open' \cup OwnOf(q, inherited[c]) = Open \cup OwnOf(r, inherited[c])
    <3>1. OpenIn(scope', inherited') \cup OwnOf(scope[c], inherited[c])
             = OpenIn(scope, inherited) \cup OwnOf(scope'[c], inherited'[c])
      BY <2>2, OpenElsewhere
    <3>2. QED
      BY <1>1, <1>5, <3>1, OpenIsOpenIn
  <2>4. OwnOf(q, inherited[c]) \subseteq Open /\ OwnOf(r, inherited[c]) \subseteq Open'
    BY <1>1, <1>5, OpenIsOpenIn DEF OpenIn
  <2>5. QED
    BY <1>1, <1>2, <1>8, <2>1, <2>3, <2>4
<1>10. OpenOnce'
  <2>1. ASSUME NEW d \in Chains, NEW i \in (inherited[d] + 1)..Len(scope'[d])
        PROVE  \/ d = c /\ i = Len(q) + 1 /\ scope'[d][i].id = blocks + 1
               \/ /\ i \in (inherited[d] + 1)..Len(scope[d]) /\ scope'[d][i] = scope[d][i]
                  /\ scope[d][i].id \in Nat /\ scope[d][i].id <= blocks
    <3>1. scope[d] \in Seq(Block) /\ inherited[d] \in Nat /\ Nested(scope[d])
      BY DEF ScopesInv, ScopesShapes, ScopesNested
    <3>2. \A j \in (inherited[d] + 1)..Len(scope[d]) :
             j \in 1..Len(scope[d]) /\ scope[d][j].id \in Nat /\ scope[d][j].id <= blocks
      BY SMTT(60), <3>1, ToSetIs, BlockNumbered DEF Nested
    <3>3. CASE d # c
      BY <1>5, <2>1, <3>2, <3>3
    <3>4. CASE d = c
      <4>1. i \in (inherited[c] + 1)..(Len(q) + 1)
        BY <1>3, <1>5, <2>1, <3>4
      <4>2. CASE i = Len(q) + 1
        BY <1>1, <1>3, <1>5, <3>4, <4>2
      <4>3. CASE i # Len(q) + 1
        <5>1. i \in (inherited[c] + 1)..Len(q) /\ i \in 1..Len(q)
          BY <1>2, <1>3, <4>1, <4>3
        <5>2. QED
          BY <1>3, <1>5, <3>2, <3>4, <5>1
      <4>4. QED
        BY <4>2, <4>3
    <3>5. QED
      BY <3>3, <3>4
  <2>2. ASSUME NEW d \in Chains, NEW e \in Chains,
               NEW i \in (inherited[d] + 1)..Len(scope'[d]),
               NEW j \in (inherited[e] + 1)..Len(scope'[e]), scope'[d][i].id = scope'[e][j].id
        PROVE  d = e /\ i = j
    <3>1. \A x \in Nat : x <= blocks => x # blocks + 1
      BY <1>2
    <3>2. \/ d = c /\ i = Len(q) + 1 /\ scope'[d][i].id = blocks + 1
          \/ /\ i \in (inherited[d] + 1)..Len(scope[d]) /\ scope'[d][i] = scope[d][i]
             /\ scope'[d][i].id # blocks + 1
      BY <2>1, <3>1
    <3>3. \/ e = c /\ j = Len(q) + 1 /\ scope'[e][j].id = blocks + 1
          \/ /\ j \in (inherited[e] + 1)..Len(scope[e]) /\ scope'[e][j] = scope[e][j]
             /\ scope'[e][j].id # blocks + 1
      BY <2>1, <3>1
    <3>4. CASE scope'[d][i].id = blocks + 1
      BY <2>2, <3>2, <3>3, <3>4
    <3>5. CASE scope'[d][i].id # blocks + 1
      <4>1. /\ i \in (inherited[d] + 1)..Len(scope[d]) /\ j \in (inherited[e] + 1)..Len(scope[e])
            /\ scope[d][i].id = scope[e][j].id
        BY <2>2, <3>2, <3>3, <3>5
      <4>2. QED
        BY <4>1 DEF ScopesInv, OpenOnce
    <3>6. QED
      BY <3>4, <3>5
  <2>3. QED
    BY <1>1, <2>2 DEF OpenOnce
<1>11. /\ OpenOf(b.type)' = OpenOf(b.type) \cup {b} /\ b \notin OpenOf(b.type)
       /\ \A type : type # b.type => OpenOf(type)' = OpenOf(type)
  BY <1>9 DEF OpenOf
<1>12. b.type \in {"span", "context"}
  BY DEF Block
<1>13. StackCounts'
  <2>1. /\ IsFiniteSet(OpenOf("span")) /\ IsFiniteSet(OpenOf("context"))
        /\ IsFiniteSet(OpenOf(b.type)')
        /\ Cardinality(OpenOf(b.type)') = Cardinality(OpenOf(b.type)) + 1
    BY <1>11, <1>12, FS_AddElement DEF ScopesInv, StackCounts
  <2>2. CASE runtime = "node"
    BY <1>1, <1>11, <1>12, <2>1, <2>2 DEF ScopesInv, StackCounts
  <2>3. CASE runtime # "node"
    <3>1. /\ Len(spanStack') = IF b.type = "span" THEN Len(spanStack) + 1 ELSE Len(spanStack)
          /\ Len(contextStack') =
                IF b.type = "context" THEN Len(contextStack) + 1 ELSE Len(contextStack)
      BY <1>1, <2>3, PushKeepsShapes DEF ScopesInv
    <3>2. CASE b.type = "span"
      BY <1>1, <1>11, <2>1, <2>3, <3>1, <3>2 DEF ScopesInv, StackCounts
    <3>3. CASE b.type = "context"
      BY <1>1, <1>11, <2>1, <2>3, <3>1, <3>3 DEF ScopesInv, StackCounts
    <3>4. QED
      BY <1>12, <3>2, <3>3
  <2>4. QED
    BY <2>2, <2>3
<1>14. ASSUME runtime' = "browser", ~mixed' PROVE StacksMatch'
  <2>1. StacksMatch /\ runtime = "browser" /\ Push(b)
    BY <1>1, <1>14, NotMixing
  <2>2. \A type : \A x \in OpenOf(type) : x.id < b.id
    BY <1>8 DEF OpenOf
  <2>3. PICK p : SpansMatch(spanStack, p, OpenOf("span"))
    BY <2>1 DEF StacksMatch
  <2>4. PICK u : ContextsMatch(contextStack, u, OpenOf("context"))
    BY <2>1 DEF StacksMatch
  <2>5. CASE b.type = "span"
    <3>1. spanStack' = Append(spanStack, b.id) /\ contextStack' = contextStack
      BY <2>1, <2>5 DEF Push
    <3>2. SpansMatch(spanStack', Append(p, b), OpenOf("span")')
      <4>1. OpenOf("span")' = OpenOf("span") \cup {b}
        BY <1>11, <2>5
      <4>2. SpansMatch(Append(spanStack, b.id), Append(p, b), OpenOf("span") \cup {b})
        BY <2>2, <2>3, PushSpan
      <4>3. QED
        BY <3>1, <4>1, <4>2
    <3>3. ContextsMatch(contextStack', u, OpenOf("context")')
      BY <1>11, <2>4, <2>5, <3>1
    <3>4. QED
      BY <3>2, <3>3 DEF StacksMatch
  <2>6. CASE b.type = "context"
    <3>1. /\ spanStack' = spanStack /\ b.key \in Keys
          /\ contextStack' = Append(contextStack, [Top(contextStack) EXCEPT ![b.key] = b.id])
      BY <2>1, <2>6 DEF Push, Top
    <3>2. ContextsMatch(contextStack', Append(u, b), OpenOf("context")')
      BY <1>11, <2>2, <2>4, <2>6, <3>1, PushContext
    <3>3. SpansMatch(spanStack', p, OpenOf("span")')
      BY <1>11, <2>3, <2>6, <3>1
    <3>4. QED
      BY <3>2, <3>3 DEF StacksMatch
  <2>7. QED
    BY <1>12, <2>5, <2>6
<1>15. QED
  BY <1>6, <1>7, <1>10, <1>13, <1>14 DEF ScopesInv

LEMMA PopKeepsShapes ==
    ASSUME ScopesInv, runtime = "browser", NEW b \in Open, b \in Block, NEW throws, Pop(b, throws),
           blocks' = blocks
    PROVE  /\ spanStack' \in Seq(Nat) /\ \A i \in 1..Len(spanStack') : spanStack'[i] \in 1..blocks'
           /\ contextStack' \in Seq(Contexts)
           /\ \A i \in 1..Len(contextStack') : contextStack'[i] \in [Keys -> 1..blocks' \cup {None}]
           /\ Len(spanStack') = IF b.type = "span" THEN Len(spanStack) - 1 ELSE Len(spanStack)
           /\ Len(contextStack') =
                 IF b.type = "context" THEN Len(contextStack) - 1 ELSE Len(contextStack)
<1>1. ScopesShapes /\ b.type \in {"span", "context"} /\ b \in OpenOf(b.type)
  BY DEF ScopesInv, Block, OpenOf
<1>2. /\ IsFiniteSet(OpenOf("span")) /\ IsFiniteSet(OpenOf("context"))
      /\ Cardinality(OpenOf("span")) = Len(spanStack)
      /\ Cardinality(OpenOf("context")) = Len(contextStack)
  BY DEF ScopesInv, StackCounts
<1>3. Len(<<>>) = 0
  BY EmptySeq
<1>4. CASE b.type = "span"
  <2>1. spanStack' = Front(spanStack) /\ contextStack' = contextStack
    BY <1>4 DEF Pop
  <2>2. spanStack # <<>>
    BY <1>1, <1>2, <1>3, <1>4, FS_EmptySet
  <2>3. /\ spanStack' \in Seq(Nat) /\ Len(spanStack') = Len(spanStack) - 1
        /\ Len(spanStack) \in Nat \ {0}
        /\ \A i \in 1..(Len(spanStack) - 1) : spanStack'[i] = spanStack[i]
    BY <1>1, <2>1, <2>2, FrontIs DEF ScopesShapes
  <2>4. \A i \in 1..Len(spanStack') : i \in 1..Len(spanStack) /\ spanStack'[i] = spanStack[i]
    BY <2>3
  <2>5. QED
    BY <1>1, <1>4, <2>1, <2>3, <2>4 DEF ScopesShapes
<1>5. CASE b.type = "context"
  <2>1. spanStack' = spanStack /\ contextStack' = Front(contextStack)
    BY <1>5 DEF Pop
  <2>2. contextStack # <<>>
    BY <1>1, <1>2, <1>3, <1>5, FS_EmptySet
  <2>3. /\ contextStack' \in Seq(Contexts) /\ Len(contextStack') = Len(contextStack) - 1
        /\ Len(contextStack) \in Nat \ {0}
        /\ \A i \in 1..(Len(contextStack) - 1) : contextStack'[i] = contextStack[i]
    BY <1>1, <2>1, <2>2, FrontIs DEF ScopesShapes
  <2>4. \A i \in 1..Len(contextStack') : i \in 1..Len(contextStack) /\ contextStack'[i] = contextStack[i]
    BY <2>3
  <2>5. QED
    BY <1>1, <1>5, <2>1, <2>3, <2>4 DEF ScopesShapes
<1>6. QED
  BY <1>1, <1>4, <1>5

LEMMA LeaveKeeps ==
    ASSUME ScopesInv, NEW c \in Chains, NEW throws, Leave(c, throws)
    PROVE  ScopesInv' /\ (runtime' = "browser" /\ ~mixed' => ToSet(scope'[c]) = Open')
<1> DEFINE q == scope[c]
           r == Front(q)
<1>0. PICK b : b = Last(q)
  OBVIOUS
<1>1. /\ Own(c) # <<>> /\ mixed' = Mixing(c) /\ scope' = [scope EXCEPT ![c] = r]
      /\ IF runtime = "node" THEN UNCHANGED <<spanStack, contextStack>> ELSE Pop(b, throws)
      /\ UNCHANGED <<runtime, inherited, alive, blocks>>
  BY <1>0 DEF Leave
<1>2. /\ scope \in [Chains -> Seq(Block)] /\ q \in Seq(Block) /\ Nested(q)
      /\ inherited[c] \in 0..Len(q) /\ inherited[c] \in Nat
  BY ToSetIs DEF ScopesInv, ScopesShapes, ScopesNested
<1>3. inherited[c] # Len(q)
  BY <1>1, <1>2, OwnIs DEF Own
<1>4. /\ q # <<>> /\ inherited[c] \in 0..Len(r)
      /\ OwnOf(q, inherited[c]) = OwnOf(r, inherited[c]) \cup {b}
  BY <1>0, <1>2, <1>3, OwnFront
<1>5. /\ r \in Seq(Block) /\ Len(r) = Len(q) - 1 /\ Len(q) \in Nat \ {0} /\ b = q[Len(q)]
      /\ \A i \in 1..(Len(q) - 1) : r[i] = q[i]
  BY <1>0, <1>2, <1>4, FrontIs
<1> HIDE DEF r
<1>6. scope'[c] = r /\ \A d \in Chains \ {c} : scope'[d] = scope[d]
  BY <1>1, <1>2
<1>7. b \in Block /\ b \in Open
  <2>1. b \in OwnOf(q, inherited[c])
    BY <1>4
  <2>2. b \in Open
    BY <2>1, OpenIsOpenIn DEF OpenIn
  <2>3. QED
    BY <2>2, OpenAreBlocks DEF ScopesInv
<1>8. ScopesShapes'
  <2>1. scope' \in [Chains -> Seq(Block)]
    BY <1>1, <1>2, <1>5
  <2>2. \A d \in Chains : inherited'[d] <= Len(scope'[d]) /\ (d \notin alive' => scope'[d] = <<>>)
    <3>1. c \in alive
      BY <1>4 DEF ScopesInv, ScopesShapes
    <3>2. inherited[c] <= Len(r)
      BY <1>4, <1>5
    <3>3. QED
      BY <1>1, <1>6, <3>1, <3>2 DEF ScopesInv, ScopesShapes
  <2>3. mixed' \in BOOLEAN
    BY <1>1 DEF Mixing
  <2>4. /\ spanStack' \in Seq(Nat) /\ \A i \in 1..Len(spanStack') : spanStack'[i] \in 1..blocks'
        /\ contextStack' \in Seq(Contexts)
        /\ \A i \in 1..Len(contextStack') : contextStack'[i] \in [Keys -> 1..blocks' \cup {None}]
    <3>1. CASE runtime = "node"
      BY <1>1, <3>1 DEF ScopesInv, ScopesShapes
    <3>2. CASE runtime = "browser"
      BY <1>1, <1>7, <3>2, PopKeepsShapes
    <3>3. QED
      BY <3>1, <3>2 DEF ScopesInv, ScopesShapes
  <2>5. QED
    BY <1>1, <2>1, <2>2, <2>3, <2>4 DEF ScopesInv, ScopesShapes
<1>9. ScopesNested'
  <2>1. \A i \in 1..Len(r) : i \in 1..Len(q) /\ r[i] = q[i]
    BY <1>5
  <2>2. /\ Ordered(r)
        /\ \A i \in 1..Len(r) : r[i].id <= blocks /\ (r[i].type = "context" => r[i].key \in Keys)
    BY <1>2, <2>1 DEF Nested, Ordered
  <2>3. QED
    BY <1>1, <1>5, <1>6, <2>2 DEF ScopesInv, ScopesNested, Nested
<1>10. OpenOnce'
  <2>1. \A d \in Chains : \A i \in (inherited[d] + 1)..Len(scope'[d]) :
           i \in (inherited[d] + 1)..Len(scope[d]) /\ scope'[d][i] = scope[d][i]
    <3>1. \A i \in (inherited[c] + 1)..Len(r) : i \in (inherited[c] + 1)..Len(q) /\ r[i] = q[i]
      BY <1>2, <1>5
    <3>2. QED
      BY <1>6, <3>1
  <2>2. QED
    BY <1>1, <2>1 DEF ScopesInv, OpenOnce
<1>11. Open' = Open \ {b}
  <2>1. \A d \in Chains \ {c} : OwnOf(scope'[d], inherited'[d]) = OwnOf(scope[d], inherited[d])
    BY <1>1, <1>6
  <2>2. OpenIn(scope', inherited') \cup OwnOf(scope[c], inherited[c])
           = OpenIn(scope, inherited) \cup OwnOf(scope'[c], inherited'[c])
    BY <2>1, OpenElsewhere
  <2>3. OwnOf(q, inherited[c]) \subseteq Open /\ OwnOf(r, inherited[c]) \subseteq Open'
    BY <1>1, <1>6, OpenIsOpenIn DEF OpenIn
  <2>4. Open' \cup {b} = Open
    BY <1>1, <1>4, <1>6, <2>2, <2>3, OpenIsOpenIn
  <2>5. ASSUME b \in Open' PROVE FALSE
    <3>1. PICK d \in Chains : \E i \in (inherited'[d] + 1)..Len(scope'[d]) : b = scope'[d][i]
      BY <1>8, <2>5, OpenHas
    <3>2. PICK i \in (inherited'[d] + 1)..Len(scope'[d]) : b = scope'[d][i]
      BY <3>1
    <3>3. Len(q) \in (inherited[c] + 1)..Len(q)
      BY <1>2, <1>3, <1>5
    <3>4. CASE d # c
      <4>1. i \in (inherited[d] + 1)..Len(scope[d]) /\ scope[d][i].id = scope[c][Len(q)].id
        BY <1>1, <1>5, <1>6, <3>2, <3>4
      <4>2. QED
        BY <3>3, <3>4, <4>1 DEF ScopesInv, OpenOnce
    <3>5. CASE d = c
      <4>1. i \in (inherited[c] + 1)..(Len(q) - 1) /\ b = r[i]
        BY <1>1, <1>5, <1>6, <3>2, <3>5
      <4>2. /\ i \in (inherited[c] + 1)..Len(q) /\ i # Len(q) /\ i \in 1..(Len(q) - 1)
            /\ b = r[i]
        BY <1>2, <1>5, <4>1
      <4>3. r[i] = q[i] /\ b = q[Len(q)]
        BY <1>5, <4>2
      <4>4. scope[c][i].id = scope[c][Len(q)].id
        BY <4>2, <4>3
      <4>5. QED
        BY <3>3, <4>2, <4>4 DEF ScopesInv, OpenOnce
    <3>6. QED
      BY <3>4, <3>5
  <2>6. QED
    BY <2>4, <2>5
<1>12. /\ OpenOf(b.type)' = OpenOf(b.type) \ {b} /\ b \in OpenOf(b.type)
       /\ \A type : type # b.type => OpenOf(type)' = OpenOf(type)
       /\ b.type \in {"span", "context"}
  <2>1. b.type \in {"span", "context"}
    BY <1>7 DEF Block
  <2>2. b \in OpenOf(b.type)
    BY <1>7 DEF OpenOf
  <2>3. OpenOf(b.type)' = OpenOf(b.type) \ {b}
    BY <1>11 DEF OpenOf
  <2>4. ASSUME NEW type, type # b.type PROVE OpenOf(type)' = OpenOf(type)
    BY <1>11, <2>4 DEF OpenOf
  <2>5. QED
    BY <2>1, <2>2, <2>3, <2>4
<1>13. StackCounts'
  <2>1. /\ IsFiniteSet(OpenOf("span")) /\ IsFiniteSet(OpenOf("context"))
        /\ IsFiniteSet(OpenOf(b.type)')
        /\ Cardinality(OpenOf(b.type)') = Cardinality(OpenOf(b.type)) - 1
    BY <1>12, FS_RemoveElement DEF ScopesInv, StackCounts
  <2>2. CASE runtime = "node"
    BY <1>1, <1>12, <2>1, <2>2 DEF ScopesInv, StackCounts
  <2>3. CASE runtime = "browser"
    <3>1. /\ Len(spanStack') = IF b.type = "span" THEN Len(spanStack) - 1 ELSE Len(spanStack)
          /\ Len(contextStack') =
                IF b.type = "context" THEN Len(contextStack) - 1 ELSE Len(contextStack)
      BY <1>1, <1>7, <2>3, PopKeepsShapes
    <3>2. CASE b.type = "span"
      BY <1>1, <1>12, <2>1, <2>3, <3>1, <3>2 DEF ScopesInv, StackCounts
    <3>3. CASE b.type = "context"
      BY <1>1, <1>12, <2>1, <2>3, <3>1, <3>3 DEF ScopesInv, StackCounts
    <3>4. QED
      BY <1>12, <3>2, <3>3
  <2>4. QED
    BY <2>2, <2>3 DEF ScopesInv, ScopesShapes
<1>14. ASSUME runtime' = "browser", ~mixed'
       PROVE  StacksMatch' /\ ToSet(scope'[c]) = Open'
  <2>1. StacksMatch /\ runtime = "browser" /\ Pop(b, throws) /\ ToSet(q) = Open
    BY <1>1, <1>14, NotMixing
  <2>2. \A x \in Open : x.id <= b.id
    <3>1. ASSUME NEW i \in 1..Len(q) PROVE q[i].id <= q[Len(q)].id
      <4>1. Len(q) \in 1..Len(q) /\ q[i].id \in Nat /\ i \in Nat
        BY <1>2, <1>5, ToSetIs, BlockNumbered
      <4>2. CASE i = Len(q)
        BY <4>1, <4>2
      <4>3. CASE i < Len(q)
        <5>1. q[i].id < q[Len(q)].id /\ q[Len(q)].id \in Nat
          BY <1>2, <4>1, <4>3, ToSetIs, BlockNumbered DEF Nested, Ordered
        <5>2. QED
          BY <4>1, <5>1
      <4>4. QED
        BY <1>5, <4>1, <4>2, <4>3
    <3>2. ToSet(q) = {q[i] : i \in 1..Len(q)}
      BY <1>2, ToSetIs
    <3>3. QED
      BY <1>5, <2>1, <3>1, <3>2
  <2>3. ToSet(scope'[c]) = Open'
    <3>1. ToSet(Front(q)) = ToSet(q) \ {b}
      BY <1>0, <1>2, <1>7, <2>1, <2>2, OrderedFront DEF Nested
    <3>2. QED
      BY <1>6, <1>11, <2>1, <3>1 DEF r
  <2>4. \A type : \A x \in OpenOf(type) : x.id <= b.id
    BY <2>2 DEF OpenOf
  <2>5. PICK p : SpansMatch(spanStack, p, OpenOf("span"))
    BY <2>1 DEF StacksMatch
  <2>6. PICK u : ContextsMatch(contextStack, u, OpenOf("context"))
    BY <2>1 DEF StacksMatch
  <2>7. CASE b.type = "span"
    <3>1. spanStack' = Front(spanStack) /\ contextStack' = contextStack
      BY <2>1, <2>7 DEF Pop
    <3>2. OpenOf("span")' = OpenOf("span") \ {b} /\ b \in OpenOf("span")
      BY <1>12, <2>7
    <3>3. SpansMatch(Front(spanStack), Front(p), OpenOf("span") \ {b})
      BY <2>4, <2>5, <3>2, PopSpan
    <3>4. ContextsMatch(contextStack', u, OpenOf("context")')
      BY <1>12, <2>6, <2>7, <3>1
    <3>5. QED
      BY <2>3, <3>1, <3>2, <3>3, <3>4 DEF StacksMatch
  <2>8. CASE b.type = "context"
    <3>1. spanStack' = spanStack /\ contextStack' = Front(contextStack)
      BY <2>1, <2>8 DEF Pop
    <3>2. OpenOf("context")' = OpenOf("context") \ {b} /\ b \in OpenOf("context")
      BY <1>12, <2>8
    <3>3. ContextsMatch(Front(contextStack), Front(u), OpenOf("context") \ {b})
      BY <2>4, <2>6, <3>2, PopContext
    <3>4. SpansMatch(spanStack', p, OpenOf("span")')
      BY <1>12, <2>5, <2>8, <3>1
    <3>5. QED
      BY <2>3, <3>1, <3>2, <3>3, <3>4 DEF StacksMatch
  <2>9. QED
    BY <1>12, <2>7, <2>8
<1>15. QED
  BY <1>8, <1>9, <1>10, <1>13, <1>14 DEF ScopesInv

-----------------------------------------------------------------------------
(* What is logged. *)

Tells(c) == runtime = "node" \/ (~mixed /\ ToSet(scope[c]) = Open)

LEMMA ScopesTell ==
    ScopesInv => \A c \in Chains : Tells(c) =>
        CurrentSpanId(c) = Enclosing(scope[c]) /\ CurrentContext(c) = Bound(scope[c])
  BY StacksTell DEF Tells

LEMMA ScopesTellNext ==
    ScopesInv' => (\A c \in Chains : Tells(c) =>
        CurrentSpanId(c) = Enclosing(scope[c]) /\ CurrentContext(c) = Bound(scope[c]))'
  BY ScopesTell, PTL

LEMMA LevelNames == DOMAIN Level = {"TRACE", "DEBUG", "INFO", "WARN", "ERROR", "FATAL"}
  BY DEF Level

Outcomes == {"ok", "error", "undefined"}

TracingShapes ==
    /\ setup \in Setups /\ header \in [Chains -> Headers]
    /\ pending \in [Chains -> [block : Block, outcome : Outcomes] \cup {None}]
    /\ reported \in [Runs -> {"new", "open", "over"}]
    /\ \A r : r \in callStarts <=> r \in Runs /\ reported[r] = "open"
    /\ \A r : r \in chainNames <=> r \in callStarts /\ r \in Chained

LogShapes ==
    /\ Len(log) <= MaxRecords
    /\ \E S : log \in Seq(S) /\ \A record \in S : record.level \in DOMAIN Level

TracingInv == ScopesInv /\ TracingShapes /\ LogShapes /\ ParentIsEnclosing

LEMMA AppendToLog ==
    ASSUME LogShapes, NEW record, record.level \in DOMAIN Level, Len(log) < MaxRecords,
           log' = Append(log, record)
    PROVE  LogShapes'
<1>1. PICK S : log \in Seq(S) /\ \A said \in S : said.level \in DOMAIN Level
  BY DEF LogShapes
<1> DEFINE T == S \cup {record}
<1>2. log \in Seq(T) /\ Len(log) \in Nat
  <2>1. /\ Len(log) \in Nat /\ DOMAIN log = 1..Len(log) /\ \A i \in 1..Len(log) : log[i] \in T
        /\ log \in [1..Len(log) -> S]
    BY <1>1, LenProperties, ElementOfSeq
  <2>2. log \in [1..Len(log) -> T]
    BY <2>1
  <2>3. QED
    BY <2>1, <2>2, SeqDef
<1>3. log' \in Seq(T) /\ Len(log') = Len(log) + 1
  BY <1>2, AppendProperties
<1>4. \A said \in T : said.level \in DOMAIN Level
  BY <1>1
<1>5. Len(log') <= MaxRecords
  <2>1. MaxRecords \in Nat
    BY TracingAssumption
  <2>2. QED
    BY <1>2, <1>3, <2>1
<1> HIDE DEF T
<1>6. QED
  BY <1>3, <1>4, <1>5 DEF LogShapes

LEMMA DispatchKeeps ==
    ASSUME NEW c \in Chains, NEW logger, NEW level \in DOMAIN Level, NEW said, NEW llm,
           LogShapes, ParentIsEnclosing, ScopesInv', runtime' = runtime,
           runtime' = "browser" /\ ~mixed' => ToSet(scope'[c]) = Open',
           Dispatch(c, logger, level, said, llm)
    PROVE  LogShapes' /\ ParentIsEnclosing'
<1> DEFINE record == RecordOf(c, logger, level, said, llm)
<1>1. CASE UNCHANGED logVars
  BY <1>1 DEF logVars, LogShapes, ParentIsEnclosing
<1>2. CASE ~UNCHANGED logVars
  <2>1. /\ log' = log \/ (Len(log) < MaxRecords /\ log' = Append(log, record))
        /\ last' = [parent |-> record.meta.parent_span_id, context |-> record.meta.context,
                    inside |-> Or(said.parent_span_id, Enclosing(scope[c]')),
                    bound  |-> Bound(scope[c]'), clean |-> ~mixed']
    BY <1>2 DEF Dispatch
  <2>2. /\ record.level = level
        /\ record.meta.parent_span_id = Or(said.parent_span_id, CurrentSpanId(c)')
        /\ record.meta.context = CurrentContext(c)'
    BY DEF RecordOf
  <2> HIDE DEF record
  <2>3. LogShapes'
    <3>1. CASE log' = log
      BY <3>1 DEF LogShapes
    <3>2. CASE Len(log) < MaxRecords /\ log' = Append(log, record)
      BY <2>2, <3>2, AppendToLog
    <3>3. QED
      BY <2>1, <3>1, <3>2
  <2>4. ASSUME runtime' = "node" \/ last'.clean
        PROVE  last'.parent = last'.inside /\ last'.context = last'.bound
    <3>1. /\ last'.clean = ~mixed' /\ last'.parent = Or(said.parent_span_id, CurrentSpanId(c)')
          /\ last'.inside = Or(said.parent_span_id, Enclosing(scope[c]'))
          /\ last'.context = CurrentContext(c)' /\ last'.bound = Bound(scope[c]')
      BY <2>1, <2>2
    <3>2. Tells(c)'
      BY <2>4, <3>1 DEF Tells, ScopesInv, ScopesShapes
    <3>3. CurrentSpanId(c)' = Enclosing(scope[c]') /\ CurrentContext(c)' = Bound(scope[c]')
      BY <3>2, ScopesTellNext
    <3>4. QED
      BY <3>1, <3>3
  <2>5. QED
    BY <2>3, <2>4 DEF ParentIsEnclosing
<1>3. QED
  BY <1>1, <1>2

LEMMA ProgramsUse ==
    ASSUME NEW s \in Setups
    PROVE  /\ s.keys \subseteq Keys /\ s.loggers \subseteq Loggers /\ s.parents \subseteq {0, None}
           /\ s.calls \subseteq Calls
<1>1. s \in Programs
  BY SetupsAssumption
<1>2. s.keys \in SUBSET Keys
  BY <1>1, Zenon DEF Programs
<1>3. s.loggers \in SUBSET Loggers
  BY <1>1, Zenon DEF Programs
<1>4. s.parents \in SUBSET {0, None}
  BY <1>1, Zenon DEF Programs
<1>5. s.calls \in SUBSET Calls
  BY <1>1, Zenon DEF Programs
<1>6. QED
  BY <1>2, <1>3, <1>4, <1>5

LEMMA MethodsAre ==
    ASSUME NEW call \in Calls
    PROVE  Methods[call.method].level \in DOMAIN Level
<1>1. call.method \in DOMAIN Methods
  BY CallsAssumption
<1>2. \A method \in DOMAIN Methods : Methods[method].level \in DOMAIN Level
  BY LevelNames DEF Methods
<1>3. QED
  BY <1>1, <1>2

-----------------------------------------------------------------------------
(* The steps. *)

\* What a step does that logs nothing.
LEMMA QuietKeeps ==
    ASSUME TracingInv, UNCHANGED logVars, UNCHANGED runtime
    PROVE  LogShapes' /\ ParentIsEnclosing'
  BY DEF TracingInv, logVars, LogShapes, ParentIsEnclosing

LEMMA AsideKeeps ==
    ASSUME TracingInv, UNCHANGED <<setup, pending, adapterVars>>, header' \in [Chains -> Headers]
    PROVE  TracingShapes'
  BY DEF TracingInv, TracingShapes, adapterVars

LEMMA RequestKeeps ==
    ASSUME TracingInv, NEW c \in Chains, NEW h \in Headers, Request(c, h)
    PROVE  TracingInv'
<1>1. Start(c, <<>>) /\ header' \in [Chains -> Headers]
  BY DEF Request, TracingInv, TracingShapes
<1>2. Nested(<<>>)
  BY EmptySeq DEF Nested, Ordered
<1>3. ScopesInv' /\ UNCHANGED runtime
  BY <1>1, <1>2, StartKeeps DEF TracingInv, Start
<1>4. TracingShapes'
  BY <1>1, AsideKeeps DEF Request
<1>5. QED
  BY <1>3, <1>4, QuietKeeps DEF Request, TracingInv

LEMMA ForkKeeps ==
    ASSUME TracingInv, NEW c \in Chains, NEW d \in Chains, Fork(c, d)
    PROVE  TracingInv'
<1>1. Start(d, scope[c]) /\ header' \in [Chains -> Headers]
  BY DEF Fork, TracingInv, TracingShapes
<1>2. Nested(scope[c])
  BY DEF TracingInv, ScopesInv, ScopesNested
<1>3. ScopesInv' /\ UNCHANGED runtime
  BY <1>1, <1>2, StartKeeps DEF TracingInv, Start
<1>4. TracingShapes'
  BY <1>1, AsideKeeps DEF Fork
<1>5. QED
  BY <1>3, <1>4, QuietKeeps DEF Fork, TracingInv

LEMMA OverKeeps ==
    ASSUME TracingInv, NEW c \in Chains, Over(c)
    PROVE  TracingInv'
<1>1. End(c) /\ header' \in [Chains -> Headers]
  BY DEF Over, TracingInv, TracingShapes, Headers
<1>2. ScopesInv' /\ UNCHANGED runtime
  BY <1>1, EndKeeps DEF TracingInv, End
<1>3. TracingShapes'
  BY <1>1, AsideKeeps DEF Over
<1>4. QED
  BY <1>2, <1>3, QuietKeeps DEF Over, TracingInv

LEMMA LogCallKeeps ==
    ASSUME TracingInv, NEW c \in Chains, NEW logger, NEW call \in Calls, LogCall(c, logger, call)
    PROVE  TracingInv'
<1>1. Look(c) /\ UNCHANGED runtime
  BY DEF LogCall, Look
<1>2. ScopesInv' /\ (runtime' = "browser" /\ ~mixed' => ToSet(scope'[c]) = Open')
  BY <1>1, LookKeeps DEF TracingInv
<1>3. TracingShapes'
  BY AsideKeeps DEF LogCall, Aside, TracingInv, TracingShapes
<1>4. LogShapes' /\ ParentIsEnclosing'
  <2>1. PICK level, said, llm :
           level = Methods[call.method].level /\ Dispatch(c, logger, level, said, llm)
    BY DEF LogCall
  <2>2. level \in DOMAIN Level
    BY <2>1, MethodsAre
  <2>3. QED
    BY <1>1, <1>2, <2>1, <2>2, DispatchKeeps DEF TracingInv
<1>5. QED
  BY <1>2, <1>3, <1>4 DEF TracingInv

LEMMA OpenSpanKeeps ==
    ASSUME TracingInv, NEW c \in Chains, NEW logger \in setup.loggers, NEW sync \in BOOLEAN,
           NEW parent \in setup.parents, OpenSpan(c, logger, sync, parent)
    PROVE  TracingInv'
<1>1. PICK b : /\ b = [id |-> blocks + 1, type |-> "span", key |-> None, sync |-> sync,
                       logger |-> logger, given |-> parent]
               /\ Enter(c, b)
  BY DEF OpenSpan
<1>2. logger \in Loggers /\ parent \in {0, None}
  BY ProgramsUse DEF TracingInv, TracingShapes
<1>3. blocks + 1 \in 1..MaxBlocks
  BY <1>1, ScopesAssumption DEF Enter, TracingInv, ScopesInv, ScopesShapes
<1>4. b \in Block /\ b.type = "span"
  BY <1>1, <1>2, <1>3 DEF Block
<1>5. c \in alive
  BY DEF OpenSpan, Free, MayRun
<1>6. ScopesInv' /\ UNCHANGED runtime
  BY <1>1, <1>4, <1>5, EnterKeeps DEF TracingInv, Enter
<1>7. TracingShapes'
  BY AsideKeeps DEF OpenSpan, Aside, TracingInv, TracingShapes
<1>8. QED
  BY <1>6, <1>7, QuietKeeps DEF OpenSpan, TracingInv

LEMMA BindContextKeeps ==
    ASSUME TracingInv, NEW c \in Chains, NEW key \in setup.keys, NEW sync \in BOOLEAN,
           BindContext(c, key, sync)
    PROVE  TracingInv'
<1>1. PICK b : /\ b = [id |-> blocks + 1, type |-> "context", key |-> key, sync |-> sync,
                       logger |-> None, given |-> None]
               /\ Enter(c, b)
  BY DEF BindContext
<1>2. key \in Keys
  BY ProgramsUse DEF TracingInv, TracingShapes
<1>3. blocks + 1 \in 1..MaxBlocks
  BY <1>1, ScopesAssumption DEF Enter, TracingInv, ScopesInv, ScopesShapes
<1>4. b \in Block /\ b.key \in Keys
  BY <1>1, <1>2, <1>3 DEF Block
<1>5. c \in alive
  BY DEF BindContext, Free, MayRun
<1>6. ScopesInv' /\ UNCHANGED runtime
  BY <1>1, <1>4, <1>5, EnterKeeps DEF TracingInv, Enter
<1>7. TracingShapes'
  BY AsideKeeps DEF BindContext, Aside, TracingInv, TracingShapes
<1>8. QED
  BY <1>6, <1>7, QuietKeeps DEF BindContext, TracingInv

\* A span's own record, once the span is left.
LEMMA FinishKeeps ==
    ASSUME TracingInv, NEW c \in Chains, NEW b, NEW outcome, FinishSpan(c, b, outcome),
           ScopesInv', runtime' = runtime,
           runtime' = "browser" /\ ~mixed' => ToSet(scope'[c]) = Open'
    PROVE  LogShapes' /\ ParentIsEnclosing'
<1>1. PICK level, said :
         /\ level = IF outcome = "error" THEN "ERROR" ELSE "INFO"
         /\ Dispatch(c, b.logger, level, said, FALSE)
  BY DEF FinishSpan
<1>2. level \in DOMAIN Level
  BY <1>1, LevelNames
<1>3. QED
  BY <1>1, <1>2, DispatchKeeps DEF TracingInv

LEMMA LastOwnIsBlock ==
    ASSUME TracingInv, NEW c \in Chains, Own(c) # <<>>
    PROVE  Last(Own(c)) \in Block
<1>1. scope[c] \in Seq(Block) /\ inherited[c] \in Nat /\ inherited[c] <= Len(scope[c])
  BY DEF TracingInv, ScopesInv, ScopesShapes
<1>2. Own(c) \in Seq(Block)
  BY <1>1, SubSeqProperties, ToSetIs DEF Own
<1> DEFINE q == Own(c)
<1> HIDE DEF q
<1>3. q \in Seq(Block) /\ q # <<>>
  BY <1>2 DEF q
<1>4. Last(q) = q[Len(q)] /\ Len(q) \in 1..Len(q)
  <2>1. Last(q) = q[Len(q)] /\ Len(q) \in Nat \ {0}
    BY <1>3, FrontIs
  <2>2. QED
    BY <2>1
<1>5. Last(q) \in Block
  BY <1>3, <1>4, ToSetIs
<1>6. QED
  BY <1>5 DEF q

LEMMA SpanSettlesKeeps ==
    ASSUME TracingInv, NEW c \in Chains, NEW outcome \in Outcomes, SpanSettles(c, outcome)
    PROVE  TracingInv'
<1>1. PICK b, throws :
         /\ b = Last(Own(c)) /\ Leave(c, throws) /\ Own(c) # <<>>
         /\ \/ FinishSpan(c, b, outcome) /\ UNCHANGED pending
            \/ /\ pending' = [pending EXCEPT ![c] = [block |-> b, outcome |-> outcome]]
               /\ UNCHANGED logVars
  BY DEF SpanSettles
<1>2. b \in Block
  BY <1>1, LastOwnIsBlock
<1>3. /\ ScopesInv' /\ (runtime' = "browser" /\ ~mixed' => ToSet(scope'[c]) = Open')
      /\ UNCHANGED runtime
  BY <1>1, LeaveKeeps DEF TracingInv, Leave
<1>4. TracingShapes'
  <2>1. pending' \in [Chains -> [block : Block, outcome : Outcomes] \cup {None}]
    BY <1>1, <1>2 DEF TracingInv, TracingShapes
  <2>2. QED
    BY <2>1 DEF SpanSettles, TracingInv, TracingShapes, adapterVars
<1>5. LogShapes' /\ ParentIsEnclosing'
  <2>1. CASE FinishSpan(c, b, outcome)
    BY <1>3, <2>1, FinishKeeps
  <2>2. CASE UNCHANGED logVars
    BY <1>3, <2>2, QuietKeeps
  <2>3. QED
    BY <1>1, <2>1, <2>2
<1>6. QED
  BY <1>3, <1>4, <1>5 DEF TracingInv

LEMMA SpanContinuesKeeps ==
    ASSUME TracingInv, NEW c \in Chains, SpanContinues(c)
    PROVE  TracingInv'
<1>1. /\ Look(c) /\ FinishSpan(c, pending[c].block, pending[c].outcome) /\ UNCHANGED runtime
      /\ pending' = [pending EXCEPT ![c] = None]
  BY DEF SpanContinues, Look
<1>2. ScopesInv' /\ (runtime' = "browser" /\ ~mixed' => ToSet(scope'[c]) = Open')
  BY <1>1, LookKeeps DEF TracingInv
<1>3. TracingShapes'
  <2>1. pending' \in [Chains -> [block : Block, outcome : Outcomes] \cup {None}]
    BY <1>1 DEF TracingInv, TracingShapes
  <2>2. QED
    BY <2>1 DEF SpanContinues, TracingInv, TracingShapes, adapterVars
<1>4. LogShapes' /\ ParentIsEnclosing'
  BY <1>1, <1>2, FinishKeeps
<1>5. QED
  BY <1>2, <1>3, <1>4 DEF TracingInv

LEMMA ContextSettlesKeeps ==
    ASSUME TracingInv, NEW c \in Chains, NEW throws, ContextSettles(c, throws)
    PROVE  TracingInv'
<1>1. Leave(c, throws)
  BY DEF ContextSettles
<1>2. ScopesInv' /\ UNCHANGED runtime
  BY <1>1, LeaveKeeps DEF TracingInv, Leave
<1>3. TracingShapes'
  BY AsideKeeps DEF ContextSettles, Aside, TracingInv, TracingShapes
<1>4. QED
  BY <1>2, <1>3, QuietKeeps DEF ContextSettles, TracingInv

LEMMA RunStartsKeeps ==
    ASSUME TracingInv, NEW c \in Chains, NEW logger, NEW r \in Runs, RunStarts(c, logger, r)
    PROVE  TracingInv'
<1>1. Look(c) /\ UNCHANGED runtime
  BY DEF RunStarts, Look
<1>2. ScopesInv' /\ (runtime' = "browser" /\ ~mixed' => ToSet(scope'[c]) = Open')
  BY <1>1, LookKeeps DEF TracingInv
<1>3. TracingShapes'
  <2>1. /\ reported \in [Runs -> {"new", "open", "over"}]
        /\ reported' = [reported EXCEPT ![r] = "open"]
        /\ callStarts' = callStarts \cup {r} /\ chainNames' = chainNames \cup ({r} \cap Chained)
    BY DEF RunStarts, TracingInv, TracingShapes
  <2>2. \A s : s \in callStarts' <=> s \in Runs /\ reported'[s] = "open"
    BY <2>1 DEF TracingInv, TracingShapes
  <2>3. \A s : s \in chainNames' <=> s \in callStarts' /\ s \in Chained
    BY <2>1 DEF TracingInv, TracingShapes
  <2>4. QED
    BY <2>1, <2>2, <2>3 DEF RunStarts, TracingInv, TracingShapes
<1>4. LogShapes' /\ ParentIsEnclosing'
  <2>1. PICK said : UNCHANGED logVars \/ Dispatch(c, logger, "INFO", said, FALSE)
    BY DEF RunStarts
  <2>2. QED
    BY <1>1, <1>2, <2>1, LevelNames, QuietKeeps, DispatchKeeps DEF TracingInv
<1>5. QED
  BY <1>2, <1>3, <1>4 DEF TracingInv

LEMMA RunEndsKeeps ==
    ASSUME TracingInv, NEW c \in Chains, NEW logger, NEW r \in Runs, NEW fails,
           RunEnds(c, logger, r, fails)
    PROVE  TracingInv'
<1>1. Look(c) /\ UNCHANGED runtime
  BY DEF RunEnds, Look
<1>2. ScopesInv' /\ (runtime' = "browser" /\ ~mixed' => ToSet(scope'[c]) = Open')
  BY <1>1, LookKeeps DEF TracingInv
<1>3. TracingShapes'
  <2>1. /\ reported \in [Runs -> {"new", "open", "over"}]
        /\ reported' = [reported EXCEPT ![r] = "over"]
        /\ callStarts' = callStarts \ {r} /\ chainNames' = chainNames \ {r}
    BY DEF RunEnds, Take, TracingInv, TracingShapes
  <2>2. \A s : s \in callStarts' <=> s \in Runs /\ reported'[s] = "open"
    BY <2>1 DEF TracingInv, TracingShapes
  <2>3. \A s : s \in chainNames' <=> s \in callStarts' /\ s \in Chained
    BY <2>1 DEF TracingInv, TracingShapes
  <2>4. QED
    BY <2>1, <2>2, <2>3 DEF RunEnds, TracingInv, TracingShapes
<1>4. LogShapes' /\ ParentIsEnclosing'
  <2>1. PICK level, said :
           level = (IF fails THEN "ERROR" ELSE "INFO") /\ Dispatch(c, logger, level, said, FALSE)
    BY DEF RunEnds
  <2>2. level \in DOMAIN Level
    BY <2>1, LevelNames
  <2>3. QED
    BY <1>1, <1>2, <2>1, <2>2, DispatchKeeps DEF TracingInv
<1>5. QED
  BY <1>2, <1>3, <1>4 DEF TracingInv

LEMMA AgentEventKeeps ==
    ASSUME TracingInv, NEW c \in Chains, NEW logger, NEW r \in Runs, NEW kind,
           AgentEvent(c, logger, r, kind)
    PROVE  TracingInv'
<1>1. Look(c) /\ UNCHANGED runtime
  BY DEF AgentEvent, Look
<1>2. ScopesInv' /\ (runtime' = "browser" /\ ~mixed' => ToSet(scope'[c]) = Open')
  BY <1>1, LookKeeps DEF TracingInv
<1>3. TracingShapes'
  BY AsideKeeps DEF AgentEvent, Aside, TracingInv, TracingShapes
<1>4. LogShapes' /\ ParentIsEnclosing'
  <2>1. PICK said : Dispatch(c, logger, "INFO", said, FALSE)
    BY DEF AgentEvent
  <2>2. QED
    BY <1>1, <1>2, <2>1, LevelNames, DispatchKeeps DEF TracingInv
<1>5. QED
  BY <1>2, <1>3, <1>4 DEF TracingInv

-----------------------------------------------------------------------------
LEMMA TracingStart == Init => TracingInv
<1> SUFFICES ASSUME Init PROVE TracingInv
  OBVIOUS
<1>1. ScopesInv
  BY ScopesStart DEF Init
<1>2. TracingShapes
  BY DEF Init, TracingShapes, Headers
<1>3. LogShapes
  <2>1. log \in Seq({}) /\ Len(log) = 0 /\ MaxRecords \in Nat
    BY EmptySeq, TracingAssumption DEF Init
  <2>2. Len(log) <= MaxRecords
    BY <2>1
  <2>3. \E S : log \in Seq(S) /\ \A record \in S : record.level \in DOMAIN Level
    <3>1. \A record \in {} : record.level \in DOMAIN Level
      OBVIOUS
    <3>2. log \in Seq({}) /\ \A record \in {} : record.level \in DOMAIN Level
      BY <2>1, <3>1
    <3> WITNESS {}
    <3>3. QED
      BY <3>2
  <2>4. QED
    BY <2>2, <2>3 DEF LogShapes
<1>4. ParentIsEnclosing
  BY DEF Init, ParentIsEnclosing
<1>5. QED
  BY <1>1, <1>2, <1>3, <1>4 DEF TracingInv

LEMMA TracingStutters == TracingInv /\ UNCHANGED vars => TracingInv'
<1> SUFFICES ASSUME TracingInv, UNCHANGED vars PROVE TracingInv'
  OBVIOUS
<1>1. UNCHANGED scopeVars /\ UNCHANGED logVars /\ UNCHANGED adapterVars
      /\ UNCHANGED <<setup, header, pending>>
  BY DEF vars, scopeVars, logVars, adapterVars
<1>2. ScopesInv' /\ UNCHANGED runtime
  <2>1. /\ scope' = scope /\ inherited' = inherited /\ alive' = alive /\ blocks' = blocks
        /\ spanStack' = spanStack /\ contextStack' = contextStack
        /\ runtime' = runtime /\ mixed' = mixed
    BY <1>1 DEF scopeVars
  <2>2. ScopesShapes' /\ OpenOnce'
    BY <2>1 DEF TracingInv, ScopesInv, ScopesShapes, OpenOnce
  <2>3. ScopesNested'
    BY <2>1 DEF TracingInv, ScopesInv, ScopesNested, Nested
  <2>4. Open' = Open
    BY <2>1, OpenIsOpenIn
  <2>5. \A type : OpenOf(type)' = OpenOf(type)
    BY <2>4 DEF OpenOf
  <2>6. StackCounts'
    BY <2>1, <2>5 DEF TracingInv, ScopesInv, StackCounts
  <2>7. StacksMatch => StacksMatch'
    BY <2>1, <2>5 DEF StacksMatch
  <2>8. QED
    BY <2>1, <2>2, <2>3, <2>6, <2>7 DEF TracingInv, ScopesInv
<1>3. TracingShapes'
  BY <1>1, AsideKeeps DEF TracingInv, TracingShapes
<1>4. QED
  BY <1>1, <1>2, <1>3, QuietKeeps DEF TracingInv

LEMMA TracingSteps == TracingInv /\ [Next]_vars => TracingInv'
<1> SUFFICES ASSUME TracingInv, [Next]_vars PROVE TracingInv'
  OBVIOUS
<1>1. ASSUME NEW c \in Chains, NEW h \in Headers, Request(c, h) PROVE TracingInv'
  BY <1>1, RequestKeeps
<1>2. ASSUME NEW c \in Chains, NEW d \in Chains, Fork(c, d) PROVE TracingInv'
  BY <1>2, ForkKeeps
<1>3. ASSUME NEW c \in Chains, Over(c) PROVE TracingInv'
  BY <1>3, OverKeeps
<1>4. ASSUME NEW c \in Chains, NEW outcome \in Outcomes, SpanSettles(c, outcome)
      PROVE  TracingInv'
  BY <1>4, SpanSettlesKeeps
<1>5. ASSUME NEW c \in Chains, SpanContinues(c) PROVE TracingInv'
  BY <1>5, SpanContinuesKeeps
<1>6. ASSUME NEW c \in Chains, NEW throws \in BOOLEAN, ContextSettles(c, throws) PROVE TracingInv'
  BY <1>6, ContextSettlesKeeps
<1>7. ASSUME NEW c \in Chains, NEW key \in setup.keys, NEW sync \in BOOLEAN,
             BindContext(c, key, sync)
      PROVE  TracingInv'
  BY <1>7, BindContextKeeps
<1>8. ASSUME NEW c \in Chains, NEW logger \in setup.loggers, NEW call \in setup.calls,
             LogCall(c, logger, call)
      PROVE  TracingInv'
  <2>1. call \in Calls
    BY ProgramsUse DEF TracingInv, TracingShapes
  <2>2. QED
    BY <1>8, <2>1, LogCallKeeps
<1>9. ASSUME NEW c \in Chains, NEW logger \in setup.loggers, NEW sync \in BOOLEAN,
             NEW parent \in setup.parents, OpenSpan(c, logger, sync, parent)
      PROVE  TracingInv'
  BY <1>9, OpenSpanKeeps
<1>10. ASSUME NEW c \in Chains, NEW logger \in setup.loggers, NEW r \in Runs,
              \/ RunStarts(c, logger, r)
              \/ \E fails \in BOOLEAN : RunEnds(c, logger, r, fails)
              \/ \E kind \in {"action", "decision"} : AgentEvent(c, logger, r, kind)
       PROVE  TracingInv'
  BY <1>10, RunStartsKeeps, RunEndsKeeps, AgentEventKeeps
<1>11. CASE UNCHANGED vars
  BY <1>11, TracingStutters
<1>12. QED
  BY <1>1, <1>2, <1>3, <1>4, <1>5, <1>6, <1>7, <1>8, <1>9, <1>10, <1>11 DEF Next, Outcomes

LEMMA StackOfOpen ==
    ASSUME ScopesInv
    PROVE  Len(spanStack) + Len(contextStack) =
               IF runtime = "node" THEN 0 ELSE Cardinality(Open)
<1>1. CASE runtime = "node"
  <2>1. Len(<<>>) = 0
    BY EmptySeq
  <2>2. QED
    BY <1>1, <2>1 DEF ScopesInv, StackCounts
<1>2. CASE runtime # "node"
  <2>1. /\ IsFiniteSet(OpenOf("span")) /\ IsFiniteSet(OpenOf("context"))
        /\ Cardinality(OpenOf("span")) = Len(spanStack)
        /\ Cardinality(OpenOf("context")) = Len(contextStack)
    BY <1>2 DEF ScopesInv, StackCounts
  <2>2. \A b \in Open : b.type \in {"span", "context"}
    BY OpenAreBlocks DEF ScopesInv, Block
  <2>3. /\ Open = OpenOf("span") \cup OpenOf("context")
        /\ OpenOf("span") \cap OpenOf("context") = {}
    BY <2>2 DEF OpenOf
  <2>4. /\ Len(spanStack) \in Nat /\ Len(contextStack) \in Nat
    BY ToSetIs DEF ScopesInv, ScopesShapes
  <2>5. Cardinality({}) = 0
    BY FS_EmptySet
  <2>6. Cardinality(Open) = Cardinality(OpenOf("span")) + Cardinality(OpenOf("context"))
                                - Cardinality(OpenOf("span") \cap OpenOf("context"))
    BY <2>1, <2>3, FS_Union
  <2>7. Cardinality(OpenOf("span") \cap OpenOf("context")) = 0
    BY <2>3, <2>5
  <2>8. Cardinality(Open) = Len(spanStack) + Len(contextStack)
    BY <2>1, <2>4, <2>6, <2>7
  <2>9. QED
    BY <1>2, <2>8
<1>3. QED
  BY <1>1, <1>2

LEMMA TracingInvTypes == TracingInv => TracingTypeOK
<1> SUFFICES ASSUME TracingInv PROVE TracingTypeOK
  OBVIOUS
<1>1. ScopesShapes /\ ScopesInv
  BY DEF TracingInv, ScopesInv
<1>2. ScopesTypeOK
  <2>1. ASSUME NEW c \in Chains
        PROVE  /\ \A i \in DOMAIN scope[c] : scope[c][i] \in Block
               /\ inherited[c] \in 0..Len(scope[c])
               /\ c \notin alive => scope[c] = <<>>
    <3>1. scope[c] \in Seq(Block)
      BY <1>1 DEF ScopesShapes
    <3>2. /\ Len(scope[c]) \in Nat /\ DOMAIN scope[c] = 1..Len(scope[c])
          /\ \A i \in 1..Len(scope[c]) : scope[c][i] \in Block
      BY <3>1, ToSetIs
    <3>3. inherited[c] \in Nat /\ inherited[c] <= Len(scope[c])
      BY <1>1 DEF ScopesShapes
    <3>4. QED
      BY <1>1, <3>2, <3>3 DEF ScopesShapes
  <2>2. DOMAIN spanStack = 1..Len(spanStack) /\ DOMAIN contextStack = 1..Len(contextStack)
    BY <1>1, ToSetIs DEF ScopesShapes
  <2>3. QED
    BY <1>1, <2>1, <2>2, StackOfOpen DEF ScopesShapes, ScopesTypeOK
<1>3. \A i \in DOMAIN log : log[i].level \in DOMAIN Level
  <2>1. PICK S : log \in Seq(S) /\ \A record \in S : record.level \in DOMAIN Level
    BY DEF TracingInv, LogShapes
  <2>2. \A i \in DOMAIN log : log[i] \in S
    BY <2>1, ToSetIs
  <2>3. QED
    BY <2>1, <2>2
<1>4. \A c \in Chains : pending[c] # None =>
         pending[c].block \in Block /\ pending[c].outcome \in {"ok", "error", "undefined"}
  BY DEF TracingInv, TracingShapes, Outcomes
<1>5. callStarts = {r \in Runs : reported[r] = "open"} /\ chainNames = callStarts \cap Chained
  BY DEF TracingInv, TracingShapes
<1>6. QED
  BY <1>2, <1>3, <1>4, <1>5 DEF TracingInv, TracingShapes, LogShapes, TracingTypeOK

\* What is logged, and by whom, has the shapes it should; a browser's stacks hold
\* one entry for each open block, however blocks are left (span-browser.ts,
\* context-browser.ts); the adapter's maps hold the runs that are open and no other.
THEOREM TracingTypeCorrect == Spec => []TracingTypeOK
<1>1. Init => TracingInv
  BY TracingStart
<1>2. TracingInv /\ [Next]_vars => TracingInv'
  BY TracingSteps
<1>3. TracingInv => TracingTypeOK
  BY TracingInvTypes
<1>4. QED
  BY <1>1, <1>2, <1>3, PTL DEF Spec

\* Logger.dispatch() reads its parent and context from where its own call chain is:
\* always on Node.js, and in a browser whenever the stack is not mixed.
THEOREM ParentsAreEnclosing == Spec => []ParentIsEnclosing
<1>1. Init => TracingInv
  BY TracingStart
<1>2. TracingInv /\ [Next]_vars => TracingInv'
  BY TracingSteps
<1>3. TracingInv => ParentIsEnclosing
  BY DEF TracingInv
<1>4. QED
  BY <1>1, <1>2, <1>3, PTL DEF Spec
-----------------------------------------------------------------------------
(* The tree a collector shows. *)

\* A chain is in blocks that were opened for the request it works for; H is the
\* header of that request, for each block.
BlockRight(H, program, opened, h, b) ==
    /\ b \in Block /\ b.id <= opened
    /\ b.type = "span" => b.logger \in program.loggers
    /\ TracePerRequest(program) => H[b.id] = h

\* What a record says of a block is in the trace of the block's request.
Placed(H, opened, meta) ==
    \E h \in {"a", "b"} :
        /\ meta.trace_id = <<"header", h>> /\ meta.span_id # 0
        /\ \A id \in {meta.span_id, meta.parent_span_id} \ {0, None} :
              id \in 1..MaxBlocks /\ id <= opened /\ H[id] = h

RecordRight(H, program, opened, record) ==
    /\ record.meta.kind = "span" => ~record.llm /\ record.meta.error = Failed(record)
    /\ \A trace : OneTrace(program, trace) => TraceOf(record.meta) = trace
    /\ TracePerRequest(program) => Placed(H, opened, record.meta)

ScopesRight(H) ==
    \A c \in Chains : \A b \in ToSet(scope[c]) : BlockRight(H, setup, blocks, header[c], b)

PendingRight(H) ==
    \A c \in Chains : pending[c] # None =>
        /\ c \in alive /\ pending[c].block.type = "span"
        /\ BlockRight(H, setup, blocks, header[c], pending[c].block)

LogRight(H) == \A i \in DOMAIN log : RecordRight(H, setup, blocks, log[i])

TreeOf(H) ==
    /\ runtime = setup.runtime /\ (runtime = "browser" => log = <<>>)
    /\ \A c \in alive : header[c] \in setup.headers
    /\ ScopesRight(H) /\ PendingRight(H) /\ LogRight(H)

TreeInv == \E H \in [1..MaxBlocks -> Headers] : TreeOf(H)

LEMMA NoneIsOther ==
    ASSUME NEW kind \in Words, NEW id \in Words, NEW fails \in BOOLEAN
    PROVE  None # kind /\ None # <<kind, id>> /\ None # [of |-> kind, isError |-> fails]
  BY NoneAssumption

LEMMA EnclosingIsOfScope ==
    ASSUME NEW q \in Seq(Block)
    PROVE  Enclosing(q) = None \/ \E b \in ToSet(q) : Enclosing(q) = b.id
<1> DEFINE J == {i \in DOMAIN q : q[i].type = "span"}
<1>1. Len(q) \in Nat /\ J \in SUBSET (1..Len(q)) /\ \A i \in 1..Len(q) : q[i] \in ToSet(q)
  BY ToSetIs
<1>2. Enclosing(q) = IF J = {} THEN None ELSE q[Max(J)].id
  BY DEF Enclosing, Innermost
<1> HIDE DEF J
<1>3. J # {} => Max(J) \in J
  BY <1>1, GreatestOf
<1>4. QED
  BY <1>1, <1>2, <1>3

LEMMA AppendHas ==
    ASSUME NEW S, NEW q \in Seq(S), NEW e
    PROVE  \A i \in DOMAIN Append(q, e) :
               (i \in DOMAIN q /\ Append(q, e)[i] = q[i]) \/ Append(q, e)[i] = e
<1> DEFINE T == S \cup {e}
           r == Append(q, e)
<1>1. q \in Seq(T)
  <2>1. q \in [1..Len(q) -> S] /\ Len(q) \in Nat
    BY LenProperties
  <2>2. q \in [1..Len(q) -> T]
    BY <2>1
  <2>3. QED
    BY <2>1, <2>2, SeqDef
<1>2. e \in T
  OBVIOUS
<1> HIDE DEF T
<1>3. /\ r \in Seq(T) /\ Len(r) = Len(q) + 1 /\ \A i \in 1..Len(q) : r[i] = q[i]
      /\ r[Len(q) + 1] = e
  BY <1>1, <1>2, AppendProperties
<1> HIDE DEF r
<1>4. DOMAIN r = 1..Len(r) /\ DOMAIN q = 1..Len(q) /\ Len(q) \in Nat
  BY <1>1, <1>3, LenProperties
<1>5. ASSUME NEW i \in DOMAIN r PROVE (i \in DOMAIN q /\ r[i] = q[i]) \/ r[i] = e
  <2>1. i \in 1..Len(q) \/ i = Len(q) + 1
    BY <1>3, <1>4
  <2>2. QED
    BY <1>3, <1>4, <2>1
<1>6. QED
  BY <1>5 DEF r

\* What stays right when more blocks are opened.
LEMMA RightOfMore ==
    ASSUME NEW H, NEW G, NEW program, NEW n \in Nat, NEW m \in Nat, n <= m,
           \A id \in 1..MaxBlocks : id <= n => G[id] = H[id]
    PROVE  /\ \A record : RecordRight(H, program, n, record) => RecordRight(G, program, m, record)
           /\ \A h, b : BlockRight(H, program, n, h, b) => BlockRight(G, program, m, h, b)
<1>1. \A id \in 1..MaxBlocks : id <= n => id <= m
  BY ScopesAssumption
<1>2. \A meta : Placed(H, n, meta) => Placed(G, m, meta)
  BY <1>1 DEF Placed
<1>3. \A record : RecordRight(H, program, n, record) => RecordRight(G, program, m, record)
  BY <1>2 DEF RecordRight
<1>4. \A h, b : BlockRight(H, program, n, h, b) => BlockRight(G, program, m, h, b)
  BY <1>1, BlockNumbered DEF BlockRight
<1>5. QED
  BY <1>3, <1>4
LEMMA TraceOfGiven ==
    ASSUME NEW meta
    PROVE  /\ meta.trace_id \notin {None, ZeroTrace} => TraceOf(meta) = meta.trace_id
           /\ \A given \in {"run", "inner"} :
                 meta.trace_id = None /\ meta.run_id = given => TraceOf(meta) = <<"run", given>>
<1>1. ASSUME meta.trace_id \notin {None, ZeroTrace} PROVE TraceOf(meta) = meta.trace_id
  BY <1>1 DEF TraceOf, TraceIdFor
<1>2. ASSUME NEW given \in {"run", "inner"}, meta.trace_id = None, meta.run_id = given
      PROVE  TraceOf(meta) = <<"run", given>>
  <2>1. None # given /\ None # <<"run", given>>
    <3>1. "run" \in Words /\ given \in Words
      BY DEF Words
    <3>2. QED
      BY <3>1, NoneIsOther
  <2>2. TraceIdFor(meta) = <<"run", given>>
    BY <1>2, <2>1 DEF TraceIdFor
  <2>3. QED
    BY <2>1, <2>2 DEF TraceOf
<1>3. QED
  BY <1>1, <1>2

LEMMA ResolvedIs ==
    ASSUME NEW c \in Chains, setup \in Setups, header[c] \in setup.headers
    PROVE  /\ \A trace : OneTrace(setup, trace) /\ setup.traced # {} /\ setup.loggers # {} =>
                 ResolveTraceId(c) = trace /\ trace \notin {None, ZeroTrace}
           /\ TracePerRequest(setup) =>
                 /\ header[c] \in {"a", "b"}
                 /\ ResolveTraceId(c) = <<"header", header[c]>>
<1>1. setup.active \in {None, "host"}
  <2>1. setup \in Programs
    BY SetupsAssumption
  <2>2. QED
    BY <2>1, Zenon DEF Programs
<1>2. \A h \in {"a", "b", "host"} : None # h /\ None # <<"header", h>> /\ None # <<"active", h>>
  <2>1. \A h \in {"a", "b", "host", "header", "active"} : h \in Words
    BY DEF Words
  <2>2. QED
    BY <2>1, NoneIsOther
<1>3. \A h \in {"a", "b"} : <<"header", h>> # ZeroTrace /\ <<"active", "host">> # ZeroTrace
  BY DEF ZeroTrace
<1>4. ASSUME setup.active # None
      PROVE  ResolveTraceId(c) = <<"active", "host">> /\ setup.active = "host"
  BY <1>1, <1>4 DEF ResolveTraceId
<1>5. ASSUME setup.active = None, setup.traceparent \in {"a", "b"}
      PROVE  ResolveTraceId(c) = <<"header", setup.traceparent>>
  BY <1>2, <1>5 DEF ResolveTraceId
<1>6. ASSUME setup.active = None, setup.traceparent = None, header[c] \in {"a", "b"}
      PROVE  ResolveTraceId(c) = <<"header", header[c]>>
  BY <1>2, <1>6 DEF ResolveTraceId
<1>7. ASSUME NEW trace, OneTrace(setup, trace), setup.traced # {}
      PROVE  ResolveTraceId(c) = trace /\ trace \notin {None, ZeroTrace}
  <2>1. IF setup.active # None THEN trace = <<"active", setup.active>>
        ELSE setup.traceparent \in {"a", "b"} /\ trace = <<"header", setup.traceparent>>
    BY <1>7, Zenon DEF OneTrace
  <2>2. CASE setup.active # None
    BY <1>2, <1>3, <1>4, <2>1, <2>2
  <2>3. CASE setup.active = None
    BY <1>2, <1>3, <1>5, <2>1, <2>3
  <2>4. QED
    BY <2>2, <2>3
<1>8. ASSUME TracePerRequest(setup)
      PROVE  header[c] \in {"a", "b"} /\ ResolveTraceId(c) = <<"header", header[c]>>
  BY <1>6, <1>8 DEF TracePerRequest
<1>9. QED
  BY <1>7, <1>8

\* What dispatch() makes of what it is told.
LEMMA RecordIsRight ==
    ASSUME NEW H, NEW c \in Chains, NEW logger \in setup.loggers, NEW level, NEW said, NEW llm,
           setup \in Setups, header[c] \in setup.headers, runtime' = "node",
           scope'[c] \in Seq(Block),
           \A b \in ToSet(scope'[c]) : BlockRight(H, setup, blocks, header[c], b),
           said.kind = "span" => ~llm /\ said.error = (level \in {"ERROR", "FATAL"}),
           TracePerRequest(setup) => said.span_id # 0 /\
               \A id \in {said.span_id, said.parent_span_id} \ {0, None} :
                  id \in 1..MaxBlocks /\ id <= blocks /\ H[id] = header[c]
    PROVE  RecordRight(H, setup, blocks, RecordOf(c, logger, level, said, llm))
<1> DEFINE record == RecordOf(c, logger, level, said, llm)
<1>1. /\ record.level = level /\ record.llm = llm
      /\ record.meta.kind = said.kind /\ record.meta.error = said.error
      /\ record.meta.span_id = said.span_id
      /\ record.meta.parent_span_id = Or(said.parent_span_id, CurrentSpanId(c)')
      /\ record.meta.run_id = setup.runId[logger]
      /\ record.meta.trace_id = IF logger \in setup.traced THEN ResolveTraceId(c) ELSE None
  BY DEF RecordOf, RunId
<1> HIDE DEF record
<1>2. record.meta.kind = "span" => ~record.llm /\ record.meta.error = Failed(record)
  BY <1>1 DEF Failed
<1>3. ASSUME NEW trace, OneTrace(setup, trace)
      PROVE  TraceOf(record.meta) = trace
  <2>1. CASE setup.traced = {} /\ \E given \in {"run", "inner"} :
                 trace = <<"run", given>> /\ setup.runId[logger] = given
    <3>1. PICK given \in {"run", "inner"} : trace = <<"run", given>> /\ setup.runId[logger] = given
      BY <2>1, Zenon
    <3>2. record.meta.trace_id = None
      BY <1>1, <2>1
    <3>3. record.meta.run_id = given
      BY <1>1, <3>1
    <3>4. QED
      BY <3>1, <3>2, <3>3, TraceOfGiven
  <2>2. CASE setup.loggers \subseteq setup.traced
    <3>1. logger \in setup.traced
      BY <2>2
    <3>2. ResolveTraceId(c) = trace /\ trace \notin {None, ZeroTrace}
      BY <1>3, <3>1, ResolvedIs
    <3>3. QED
      BY <1>1, <3>1, <3>2, TraceOfGiven
  <2>3. QED
    BY <1>3, <2>1, <2>2, Zenon DEF OneTrace
<1>4. ASSUME TracePerRequest(setup)
      PROVE  Placed(H, blocks, record.meta)
  <2>1. logger \in setup.traced
    BY <1>4 DEF TracePerRequest
  <2>2. header[c] \in {"a", "b"} /\ record.meta.trace_id = <<"header", header[c]>>
    BY <1>1, <1>4, <2>1, ResolvedIs
  <2>3. CurrentSpanId(c)' = Enclosing(scope'[c])
    BY DEF CurrentSpanId
  <2>4. \A b \in ToSet(scope'[c]) :
            b.id \in 1..MaxBlocks /\ b.id <= blocks /\ H[b.id] = header[c]
    BY <1>4, BlockNumbered DEF BlockRight
  <2>5. Enclosing(scope'[c]) = None \/ \E b \in ToSet(scope'[c]) : Enclosing(scope'[c]) = b.id
    BY EnclosingIsOfScope
  <2>6. \A id \in {record.meta.span_id, record.meta.parent_span_id} \ {0, None} :
            id \in 1..MaxBlocks /\ id <= blocks /\ H[id] = header[c]
    BY <1>1, <1>4, <2>3, <2>4, <2>5 DEF Or
  <2>7. record.meta.span_id # 0
    BY <1>1, <1>4
  <2>8. QED
    BY <2>2, <2>6, <2>7 DEF Placed
<1>5. RecordRight(H, setup, blocks, record)
  BY <1>2, <1>3, <1>4 DEF RecordRight
<1>6. QED
  BY <1>5 DEF record

LEMMA DispatchTells ==
    ASSUME NEW H, NEW c \in Chains, NEW logger \in setup.loggers, NEW level, NEW said, NEW llm,
           LogShapes, TreeOf(H), setup \in Setups, header[c] \in setup.headers, runtime' = runtime,
           scope'[c] \in Seq(Block),
           \A b \in ToSet(scope'[c]) : BlockRight(H, setup, blocks, header[c], b),
           said.kind = "span" => ~llm /\ said.error = (level \in {"ERROR", "FATAL"}),
           TracePerRequest(setup) => said.span_id # 0 /\
               \A id \in {said.span_id, said.parent_span_id} \ {0, None} :
                  id \in 1..MaxBlocks /\ id <= blocks /\ H[id] = header[c],
           Dispatch(c, logger, level, said, llm)
    PROVE  /\ \A i \in DOMAIN log' : RecordRight(H, setup, blocks, log'[i])
           /\ runtime = "browser" => log' = <<>>
<1> DEFINE record == RecordOf(c, logger, level, said, llm)
<1>1. CASE log' = log
  BY <1>1 DEF TreeOf, LogRight
<1>2. CASE log' # log
  <2>1. runtime # "browser" /\ log' = Append(log, record)
    BY <1>2 DEF Dispatch, logVars
  <2>2. setup.runtime \in {"node", "browser"}
    <3>1. setup \in Programs
      BY SetupsAssumption
    <3>2. QED
      BY <3>1, Zenon DEF Programs
  <2>3. runtime' = "node"
    BY <2>1, <2>2 DEF TreeOf
  <2>4. RecordRight(H, setup, blocks, record)
    BY <2>3, RecordIsRight
  <2> HIDE DEF record
  <2>5. PICK S : log \in Seq(S)
    BY DEF LogShapes
  <2>6. \A i \in DOMAIN log' : (i \in DOMAIN log /\ log'[i] = log[i]) \/ log'[i] = record
    BY <2>1, <2>5, AppendHas
  <2>7. QED
    BY <2>1, <2>4, <2>6 DEF TreeOf, LogRight
<1>3. QED
  BY <1>1, <1>2
\* What a call by one chain comes to, where it was and where it is now.
LEMMA LoggingKeepsTree ==
    ASSUME NEW H, NEW c \in alive, NEW logger \in setup.loggers, NEW level, NEW said, NEW llm,
           TracingInv, TracingInv', TreeOf(H), Dispatch(c, logger, level, said, llm),
           UNCHANGED <<runtime, alive, blocks, setup, header>>,
           \A d \in Chains : ToSet(scope'[d]) \subseteq ToSet(scope[d]),
           \A d \in Chains : pending'[d] \in {pending[d], None},
           said.kind = "span" => ~llm /\ said.error = (level \in {"ERROR", "FATAL"}),
           TracePerRequest(setup) => said.span_id # 0 /\
               \A id \in {said.span_id, said.parent_span_id} \ {0, None} :
                  id \in 1..MaxBlocks /\ id <= blocks /\ H[id] = header[c]
    PROVE  TreeOf(H)'
<1>1. /\ setup \in Setups /\ LogShapes /\ c \in Chains
      /\ scope'[c] \in Seq(Block) /\ header[c] \in setup.headers
  BY DEF TracingInv, TracingShapes, ScopesInv, ScopesShapes, TreeOf
<1>2. ScopesRight(H)'
  BY DEF TreeOf, ScopesRight
<1>3. PendingRight(H)'
  BY DEF TreeOf, PendingRight
<1>4. \A b \in ToSet(scope'[c]) : BlockRight(H, setup, blocks, header[c], b)
  BY <1>1 DEF TreeOf, ScopesRight
<1>5. /\ \A i \in DOMAIN log' : RecordRight(H, setup, blocks, log'[i])
      /\ runtime = "browser" => log' = <<>>
  BY <1>1, <1>4, DispatchTells
<1>6. QED
  BY <1>2, <1>3, <1>5 DEF TreeOf, LogRight

LEMMA QuietKeepsTree ==
    ASSUME NEW H, TreeOf(H), UNCHANGED <<runtime, blocks, setup, logVars>>,
           \A c \in alive' : header'[c] \in setup.headers, ScopesRight(H)', PendingRight(H)'
    PROVE  TreeOf(H)'
  BY DEF TreeOf, LogRight, logVars

LEMMA RequestKeepsTree ==
    ASSUME NEW H, TracingInv, TreeOf(H), NEW c \in Chains, NEW h, Request(c, h)
    PROVE  TreeOf(H)'
<1>1. /\ c \notin alive /\ h \in setup.headers /\ alive' = alive \cup {c}
      /\ scope' = [scope EXCEPT ![c] = <<>>] /\ header' = [header EXCEPT ![c] = h]
      /\ UNCHANGED <<runtime, blocks, setup, pending, logVars>>
  BY DEF Request, Start
<1>2. /\ scope \in [Chains -> Seq(Block)] /\ header \in [Chains -> Headers]
      /\ alive \subseteq Chains
  BY DEF TracingInv, TracingShapes, ScopesInv, ScopesShapes
<1>3. ToSet(<<>>) = {}
  BY EmptySeq DEF ToSet
<1>4. ScopesRight(H)'
  BY <1>1, <1>2, <1>3 DEF TreeOf, ScopesRight
<1>5. PendingRight(H)'
  BY <1>1, <1>2 DEF TreeOf, PendingRight
<1>6. QED
  BY <1>1, <1>2, <1>4, <1>5, QuietKeepsTree DEF TreeOf

LEMMA ForkKeepsTree ==
    ASSUME NEW H, TracingInv, TreeOf(H), NEW c \in Chains, NEW d \in Chains, Fork(c, d)
    PROVE  TreeOf(H)'
<1>1. /\ c \in alive /\ d \notin alive /\ alive' = alive \cup {d}
      /\ scope' = [scope EXCEPT ![d] = scope[c]] /\ header' = [header EXCEPT ![d] = header[c]]
      /\ UNCHANGED <<runtime, blocks, setup, pending, logVars>>
  BY DEF Fork, Start, Free, MayRun
<1>2. /\ scope \in [Chains -> Seq(Block)] /\ header \in [Chains -> Headers]
      /\ alive \subseteq Chains
  BY DEF TracingInv, TracingShapes, ScopesInv, ScopesShapes
<1>3. ScopesRight(H)'
  BY <1>1, <1>2 DEF TreeOf, ScopesRight
<1>4. PendingRight(H)'
  BY <1>1, <1>2 DEF TreeOf, PendingRight
<1>5. QED
  BY <1>1, <1>2, <1>3, <1>4, QuietKeepsTree DEF TreeOf

LEMMA OverKeepsTree ==
    ASSUME NEW H, TracingInv, TreeOf(H), NEW c \in Chains, Over(c)
    PROVE  TreeOf(H)'
<1>1. /\ pending[c] = None /\ alive' = alive \ {c}
      /\ scope' = [scope EXCEPT ![c] = <<>>] /\ header' = [header EXCEPT ![c] = None]
      /\ UNCHANGED <<runtime, blocks, setup, pending, logVars>>
  BY DEF Over, End, Free
<1>2. /\ scope \in [Chains -> Seq(Block)] /\ header \in [Chains -> Headers]
      /\ alive \subseteq Chains
  BY DEF TracingInv, TracingShapes, ScopesInv, ScopesShapes
<1>3. ToSet(<<>>) = {}
  BY EmptySeq DEF ToSet
<1>4. ScopesRight(H)'
  BY <1>1, <1>2, <1>3 DEF TreeOf, ScopesRight
<1>5. PendingRight(H)'
  BY <1>1, <1>2 DEF TreeOf, PendingRight
<1>6. QED
  BY <1>1, <1>2, <1>4, <1>5, QuietKeepsTree DEF TreeOf

\* The block a chain enters was opened for the chain's request.
LEMMA EnterKeepsTree ==
    ASSUME NEW H \in [1..MaxBlocks -> Headers], TracingInv, TreeOf(H), NEW c \in alive,
           NEW b \in Block, Enter(c, b), b.type = "span" => b.logger \in setup.loggers,
           UNCHANGED <<setup, header, pending, logVars>>
    PROVE  TreeInv'
<1>0. PICK G : G = [H EXCEPT ![b.id] = header[c]]
  OBVIOUS
<1>1. /\ b.id = blocks + 1 /\ blocks' = b.id /\ scope' = [scope EXCEPT ![c] = Append(@, b)]
      /\ UNCHANGED <<runtime, alive>>
  BY DEF Enter
<1>2. /\ scope \in [Chains -> Seq(Block)] /\ header \in [Chains -> Headers]
      /\ c \in Chains /\ blocks \in Nat /\ b.id \in 1..MaxBlocks
  BY BlockNumbered, ScopesAssumption DEF TracingInv, TracingShapes, ScopesInv, ScopesShapes
<1>3. /\ G \in [1..MaxBlocks -> Headers] /\ G[b.id] = header[c]
      /\ \A id \in 1..MaxBlocks : id <= blocks => G[id] = H[id]
  BY <1>0, <1>1, <1>2
<1>4. blocks' \in Nat /\ blocks <= blocks'
  BY <1>1, <1>2
<1>5. /\ \A record : RecordRight(H, setup, blocks, record) => RecordRight(G, setup, blocks', record)
      /\ \A h, old : BlockRight(H, setup, blocks, h, old) => BlockRight(G, setup, blocks', h, old)
  BY <1>2, <1>3, <1>4, RightOfMore
<1>6. BlockRight(G, setup, blocks', header[c], b)
  BY <1>1, <1>2, <1>3 DEF BlockRight
<1>7. ToSet(Append(scope[c], b)) = ToSet(scope[c]) \cup {b}
  BY <1>2, ToSetAppend
<1>8. ScopesRight(G)'
  <2>1. ASSUME NEW d \in Chains, NEW old \in ToSet(scope'[d])
        PROVE  BlockRight(G, setup, blocks', header[d], old)
    <3>1. old \in ToSet(scope[d]) \/ (d = c /\ old = b)
      BY <1>1, <1>2, <1>7
    <3>2. QED
      BY <1>5, <1>6, <3>1 DEF TreeOf, ScopesRight
  <2>2. QED
    BY <2>1 DEF ScopesRight
<1>9. PendingRight(G)'
  BY <1>1, <1>5 DEF TreeOf, PendingRight
<1>10. LogRight(G)'
  BY <1>5 DEF TreeOf, LogRight, logVars
<1>11. TreeOf(G)'
  BY <1>1, <1>8, <1>9, <1>10 DEF TreeOf, logVars
<1>12. QED
  BY <1>3, <1>11 DEF TreeInv
LEMMA SpanIsOther == None # "span"
<1>1. "span" \in Words
  BY DEF Words
<1>2. QED
  BY <1>1, NoneAssumption

LEMMA LogCallKeepsTree ==
    ASSUME NEW H, TracingInv, TracingInv', TreeOf(H), NEW c \in Chains,
           NEW logger \in setup.loggers, NEW call \in Calls, LogCall(c, logger, call)
    PROVE  TreeOf(H)'
<1>1. PICK level, said, llm :
         /\ said = [Plain EXCEPT !.kind = Methods[call.method].kind, !.tool = call.tool,
                                 !.error = call.error]
         /\ Dispatch(c, logger, level, said, llm)
  BY DEF LogCall
<1>2. /\ c \in alive /\ UNCHANGED <<runtime, alive, blocks, setup, header, scope, pending>>
  BY DEF LogCall, Look, Aside, Free, MayRun
<1>3. said.span_id = None /\ said.parent_span_id = None /\ said.kind = Methods[call.method].kind
  BY <1>1 DEF Plain
<1>4. said.kind # "span"
  <2>1. call.method \in DOMAIN Methods
    BY CallsAssumption
  <2>2. \A method \in DOMAIN Methods : Methods[method].kind # "span"
    BY SpanIsOther DEF Methods
  <2>3. QED
    BY <1>3, <2>1, <2>2
<1>5. said.span_id # 0
  BY <1>3, ScopesAssumption
<1>6. QED
  BY <1>1, <1>2, <1>3, <1>4, <1>5, LoggingKeepsTree

LEMMA OpenSpanKeepsTree ==
    ASSUME NEW H \in [1..MaxBlocks -> Headers], TracingInv, TreeOf(H), NEW c \in Chains,
           NEW logger \in setup.loggers, NEW sync \in BOOLEAN, NEW parent \in setup.parents,
           OpenSpan(c, logger, sync, parent)
    PROVE  TreeInv'
<1>1. PICK b : /\ b = [id |-> blocks + 1, type |-> "span", key |-> None, sync |-> sync,
                       logger |-> logger, given |-> parent]
               /\ Enter(c, b)
  BY DEF OpenSpan
<1>2. logger \in Loggers /\ parent \in {0, None}
  BY ProgramsUse DEF TracingInv, TracingShapes
<1>3. blocks + 1 \in 1..MaxBlocks
  BY <1>1, ScopesAssumption DEF Enter, TracingInv, ScopesInv, ScopesShapes
<1>4. b \in Block /\ b.logger \in setup.loggers
  BY <1>1, <1>2, <1>3 DEF Block
<1>5. c \in alive /\ UNCHANGED <<setup, header, pending, logVars>>
  BY DEF OpenSpan, Aside, Free, MayRun
<1>6. QED
  BY <1>1, <1>4, <1>5, EnterKeepsTree

LEMMA BindContextKeepsTree ==
    ASSUME NEW H \in [1..MaxBlocks -> Headers], TracingInv, TreeOf(H), NEW c \in Chains,
           NEW key \in setup.keys, NEW sync \in BOOLEAN, BindContext(c, key, sync)
    PROVE  TreeInv'
<1>1. PICK b : /\ b = [id |-> blocks + 1, type |-> "context", key |-> key, sync |-> sync,
                       logger |-> None, given |-> None]
               /\ Enter(c, b)
  BY DEF BindContext
<1>2. key \in Keys
  BY ProgramsUse DEF TracingInv, TracingShapes
<1>3. blocks + 1 \in 1..MaxBlocks
  BY <1>1, ScopesAssumption DEF Enter, TracingInv, ScopesInv, ScopesShapes
<1>4. b \in Block /\ b.type # "span"
  BY <1>1, <1>2, <1>3 DEF Block
<1>5. c \in alive /\ UNCHANGED <<setup, header, pending, logVars>>
  BY DEF BindContext, Aside, Free, MayRun
<1>6. QED
  BY <1>1, <1>4, <1>5, EnterKeepsTree

\* What a span's own record says, and that it says it of its own request.
LEMMA FinishKeepsTree ==
    ASSUME NEW H, TracingInv, TracingInv', TreeOf(H), NEW c \in alive, NEW b, NEW outcome,
           b.type = "span", BlockRight(H, setup, blocks, header[c], b),
           FinishSpan(c, b, outcome),
           UNCHANGED <<runtime, alive, blocks, setup, header>>,
           \A d \in Chains : ToSet(scope'[d]) \subseteq ToSet(scope[d]),
           \A d \in Chains : pending'[d] \in {pending[d], None}
    PROVE  TreeOf(H)'
<1>1. PICK level, said :
         /\ level = IF outcome = "error" THEN "ERROR" ELSE "INFO"
         /\ said = [Plain EXCEPT !.kind = "span", !.span_id = b.id,
                                 !.parent_span_id = b.given, !.error = outcome = "error"]
         /\ Dispatch(c, b.logger, level, said, FALSE)
  BY DEF FinishSpan
<1>2. b.logger \in setup.loggers /\ b.given \in {0, None} /\ b.id \in 1..MaxBlocks
  BY BlockNumbered DEF BlockRight, Block
<1>3. said.span_id = b.id /\ said.parent_span_id = b.given
  BY <1>1 DEF Plain
<1>4. said.error = (level \in {"ERROR", "FATAL"})
  <2>1. said.error = (outcome = "error")
    BY <1>1 DEF Plain
  <2>2. QED
    BY <1>1, <2>1
<1>5. TracePerRequest(setup) => said.span_id # 0 /\
         \A id \in {said.span_id, said.parent_span_id} \ {0, None} :
            id \in 1..MaxBlocks /\ id <= blocks /\ H[id] = header[c]
  BY <1>2, <1>3 DEF BlockRight
<1>6. QED
  BY <1>1, <1>2, <1>4, <1>5, LoggingKeepsTree

LEMMA LeavingIsOfScope ==
    ASSUME TracingInv, NEW c \in Chains, NEW throws, Leave(c, throws)
    PROVE  /\ Last(Own(c)) \in ToSet(scope[c])
           /\ \A d \in Chains : ToSet(scope'[d]) \subseteq ToSet(scope[d])
<1> DEFINE q == scope[c]
           n == inherited[c]
<1>1. /\ scope \in [Chains -> Seq(Block)] /\ q \in Seq(Block) /\ n \in Nat /\ n <= Len(q)
  BY DEF TracingInv, ScopesInv, ScopesShapes
<1>2. n \in 0..Len(q) /\ Own(c) # <<>> /\ scope' = [scope EXCEPT ![c] = Front(q)]
  BY <1>1, ToSetIs DEF Leave
<1>3. q # <<>>
  <2>1. n # Len(q)
    BY <1>1, <1>2, OwnIs DEF Own
  <2>2. QED
    BY <1>1, <1>2, <2>1, OwnFront
<1>4. ToSet(Front(q)) \subseteq ToSet(q)
  BY <1>1, <1>3, FrontIs
<1>5. Last(Own(c)) \in ToSet(q)
  <2>1. OwnOf(q, n) = {q[i] : i \in (n + 1)..Len(q)} /\ ToSet(q) = {q[i] : i \in 1..Len(q)}
    BY <1>1, <1>2, OwnIs, ToSetIs
  <2>2. \A i \in (n + 1)..Len(q) : i \in 1..Len(q)
    BY <1>1, ToSetIs
  <2>3. ToSet(Own(c)) \subseteq ToSet(q)
    BY <2>1, <2>2 DEF Own, OwnOf
  <2>4. Own(c) \in Seq(Block)
    BY <1>1, SubSeqProperties, ToSetIs DEF Own
  <2>5. Last(Own(c)) \in ToSet(Own(c))
    BY <1>2, <2>4, FrontIs
  <2>6. QED
    BY <2>3, <2>5
<1>6. QED
  BY <1>1, <1>2, <1>4, <1>5

LEMMA SpanSettlesKeepsTree ==
    ASSUME NEW H, TracingInv, TracingInv', TreeOf(H), NEW c \in Chains, NEW outcome,
           SpanSettles(c, outcome)
    PROVE  TreeOf(H)'
<1>1. PICK b, throws :
         /\ b = Last(Own(c)) /\ b.type = "span" /\ Leave(c, throws)
         /\ \/ FinishSpan(c, b, outcome) /\ UNCHANGED pending
            \/ /\ pending' = [pending EXCEPT ![c] = [block |-> b, outcome |-> outcome]]
               /\ UNCHANGED logVars
  BY DEF SpanSettles
<1>2. c \in alive /\ UNCHANGED <<runtime, alive, blocks, setup, header>>
  BY <1>1 DEF SpanSettles, Leave, Free, MayRun
<1>3. /\ b \in ToSet(scope[c])
      /\ \A d \in Chains : ToSet(scope'[d]) \subseteq ToSet(scope[d])
  BY <1>1, LeavingIsOfScope
<1>4. BlockRight(H, setup, blocks, header[c], b)
  BY <1>3 DEF TreeOf, ScopesRight
<1>5. CASE FinishSpan(c, b, outcome) /\ UNCHANGED pending
  BY <1>1, <1>2, <1>3, <1>4, <1>5, FinishKeepsTree
<1>6. CASE /\ pending' = [pending EXCEPT ![c] = [block |-> b, outcome |-> outcome]]
           /\ UNCHANGED logVars
  <2>1. ScopesRight(H)'
    BY <1>2, <1>3 DEF TreeOf, ScopesRight
  <2>2. \A d \in Chains : d # c => pending'[d] = pending[d]
    BY <1>6 DEF TracingInv, TracingShapes
  <2>3. pending'[c].block = b
    BY <1>6 DEF TracingInv, TracingShapes
  <2>4. PendingRight(H)'
    BY <1>1, <1>2, <1>4, <2>2, <2>3 DEF TreeOf, PendingRight
  <2>5. QED
    BY <1>2, <1>6, <2>1, <2>4, QuietKeepsTree DEF TreeOf
<1>7. QED
  BY <1>1, <1>5, <1>6

LEMMA SpanContinuesKeepsTree ==
    ASSUME NEW H, TracingInv, TracingInv', TreeOf(H), NEW c \in Chains, SpanContinues(c)
    PROVE  TreeOf(H)'
<1>1. /\ pending[c] # None /\ pending' = [pending EXCEPT ![c] = None]
      /\ FinishSpan(c, pending[c].block, pending[c].outcome)
      /\ UNCHANGED <<runtime, alive, blocks, setup, header, scope>>
  BY DEF SpanContinues, Look
<1>2. /\ c \in alive /\ pending[c].block.type = "span"
      /\ BlockRight(H, setup, blocks, header[c], pending[c].block)
  BY <1>1 DEF TreeOf, PendingRight
<1>3. \A d \in Chains : pending'[d] \in {pending[d], None}
  BY <1>1 DEF TracingInv, TracingShapes
<1>4. QED
  BY <1>1, <1>2, <1>3, FinishKeepsTree

LEMMA ContextSettlesKeepsTree ==
    ASSUME NEW H, TracingInv, TreeOf(H), NEW c \in Chains, NEW throws,
           ContextSettles(c, throws)
    PROVE  TreeOf(H)'
<1>1. Leave(c, throws) /\ UNCHANGED <<runtime, alive, blocks, setup, header, pending, logVars>>
  BY DEF ContextSettles, Leave, Aside
<1>2. \A d \in Chains : ToSet(scope'[d]) \subseteq ToSet(scope[d])
  BY <1>1, LeavingIsOfScope
<1>3. ScopesRight(H)' /\ PendingRight(H)'
  BY <1>1, <1>2 DEF TreeOf, ScopesRight, PendingRight
<1>4. QED
  BY <1>1, <1>3, QuietKeepsTree DEF TreeOf

\* What is logged for the adapter's runs: such a program has one trace for all.
LEMMA ReportKeepsTree ==
    ASSUME NEW H, TracingInv, TracingInv', TreeOf(H), NEW c \in Chains,
           NEW logger \in setup.loggers, NEW level, NEW said,
           setup.adapter, Free(c), Look(c), UNCHANGED <<setup, header, pending>>,
           said.kind = "span" => said.error = (level \in {"ERROR", "FATAL"}),
           Dispatch(c, logger, level, said, FALSE)
    PROVE  TreeOf(H)'
<1>1. c \in alive /\ UNCHANGED <<runtime, alive, blocks, scope>>
  BY DEF Free, MayRun, Look
<1>2. ~TracePerRequest(setup)
  BY DEF TracePerRequest
<1>3. QED
  BY <1>1, <1>2, LoggingKeepsTree

LEMMA RunStartsKeepsTree ==
    ASSUME NEW H, TracingInv, TracingInv', TreeOf(H), NEW c \in Chains,
           NEW logger \in setup.loggers, NEW r \in Runs, RunStarts(c, logger, r)
    PROVE  TreeOf(H)'
<1>1. /\ setup.adapter /\ Free(c) /\ Look(c) /\ UNCHANGED <<setup, header, pending>>
      /\ \/ UNCHANGED logVars
         \/ Dispatch(c, logger, "INFO", [SpanIds(r) EXCEPT !.kind = "action"], FALSE)
  BY DEF RunStarts
<1>2. CASE UNCHANGED logVars
  <2>1. UNCHANGED <<runtime, alive, blocks, scope>>
    BY <1>1 DEF Look
  <2>2. ScopesRight(H)' /\ PendingRight(H)'
    BY <1>1, <2>1 DEF TreeOf, ScopesRight, PendingRight
  <2>3. QED
    BY <1>1, <1>2, <2>1, <2>2, QuietKeepsTree DEF TreeOf
<1>3. CASE Dispatch(c, logger, "INFO", [SpanIds(r) EXCEPT !.kind = "action"], FALSE)
  <2>1. PICK said : said = [SpanIds(r) EXCEPT !.kind = "action"]
    OBVIOUS
  <2>2. said.kind # "span"
    BY <2>1 DEF SpanIds, Plain
  <2>3. QED
    BY <1>1, <1>3, <2>1, <2>2, ReportKeepsTree
<1>4. QED
  BY <1>1, <1>2, <1>3

LEMMA RunEndsKeepsTree ==
    ASSUME NEW H, TracingInv, TracingInv', TreeOf(H), NEW c \in Chains,
           NEW logger \in setup.loggers, NEW r \in Runs, NEW fails \in BOOLEAN,
           RunEnds(c, logger, r, fails)
    PROVE  TreeOf(H)'
<1>1. PICK level, said :
         /\ level = IF fails THEN "ERROR" ELSE "INFO"
         /\ said = [SpanIds(r) EXCEPT !.kind = EndKind(r, fails), !.error = fails]
         /\ Dispatch(c, logger, level, said, FALSE)
  BY DEF RunEnds
<1>2. /\ setup.adapter /\ Free(c) /\ Look(c) /\ UNCHANGED <<setup, header, pending>>
  BY DEF RunEnds
<1>3. said.error = (level \in {"ERROR", "FATAL"})
  <2>1. said.error = fails
    BY <1>1 DEF SpanIds, Plain
  <2>2. QED
    BY <1>1, <2>1
<1>4. QED
  BY <1>1, <1>2, <1>3, ReportKeepsTree

LEMMA AgentEventKeepsTree ==
    ASSUME NEW H, TracingInv, TracingInv', TreeOf(H), NEW c \in Chains,
           NEW logger \in setup.loggers, NEW r \in Runs, NEW kind \in {"action", "decision"},
           AgentEvent(c, logger, r, kind)
    PROVE  TreeOf(H)'
<1>1. PICK said : /\ said = [Plain EXCEPT !.kind = kind, !.parent_span_id = r]
                  /\ Dispatch(c, logger, "INFO", said, FALSE)
  BY DEF AgentEvent
<1>2. /\ setup.adapter /\ Free(c) /\ Look(c) /\ UNCHANGED <<setup, header, pending>>
  BY DEF AgentEvent, Aside
<1>3. said.kind # "span"
  BY <1>1 DEF Plain
<1>4. QED
  BY <1>1, <1>2, <1>3, ReportKeepsTree
-----------------------------------------------------------------------------
LEMMA TreeStart == Init => TreeInv
<1> SUFFICES ASSUME Init PROVE TreeInv
  OBVIOUS
<1>1. PICK H : H = [id \in 1..MaxBlocks |-> None]
  OBVIOUS
<1>2. H \in [1..MaxBlocks -> Headers]
  BY <1>1 DEF Headers
<1>3. ToSet(<<>>) = {} /\ DOMAIN log = {}
  BY EmptySeq DEF ToSet, Init
<1>4. ScopesRight(H)
  BY <1>3 DEF Init, ScopesInit, ScopesRight
<1>5. PendingRight(H)
  BY DEF Init, PendingRight
<1>6. LogRight(H)
  BY <1>3 DEF LogRight
<1>7. TreeOf(H)
  BY <1>4, <1>5, <1>6 DEF Init, ScopesInit, TreeOf
<1>8. QED
  BY <1>2, <1>7 DEF TreeInv

LEMMA TreeSteps == TracingInv /\ TracingInv' /\ TreeInv /\ [Next]_vars => TreeInv'
<1> SUFFICES ASSUME TracingInv, TracingInv', TreeInv, [Next]_vars PROVE TreeInv'
  OBVIOUS
<1>0. PICK H \in [1..MaxBlocks -> Headers] : TreeOf(H)
  BY DEF TreeInv
<1>1. TreeOf(H)' => TreeInv'
  BY DEF TreeInv
<1>2. ASSUME NEW c \in Chains, NEW h \in Headers, Request(c, h) PROVE TreeInv'
  BY <1>0, <1>1, <1>2, RequestKeepsTree
<1>3. ASSUME NEW c \in Chains, NEW d \in Chains, Fork(c, d) PROVE TreeInv'
  BY <1>0, <1>1, <1>3, ForkKeepsTree
<1>4. ASSUME NEW c \in Chains, Over(c) PROVE TreeInv'
  BY <1>0, <1>1, <1>4, OverKeepsTree
<1>5. ASSUME NEW c \in Chains, NEW outcome \in Outcomes, SpanSettles(c, outcome) PROVE TreeInv'
  BY <1>0, <1>1, <1>5, SpanSettlesKeepsTree
<1>6. ASSUME NEW c \in Chains, SpanContinues(c) PROVE TreeInv'
  BY <1>0, <1>1, <1>6, SpanContinuesKeepsTree
<1>7. ASSUME NEW c \in Chains, NEW throws \in BOOLEAN, ContextSettles(c, throws) PROVE TreeInv'
  BY <1>0, <1>1, <1>7, ContextSettlesKeepsTree
<1>8. ASSUME NEW c \in Chains, NEW key \in setup.keys, NEW sync \in BOOLEAN,
             BindContext(c, key, sync)
      PROVE  TreeInv'
  BY <1>0, <1>8, BindContextKeepsTree
<1>9. ASSUME NEW c \in Chains, NEW logger \in setup.loggers, NEW call \in setup.calls,
             LogCall(c, logger, call)
      PROVE  TreeInv'
  <2>1. call \in Calls
    BY ProgramsUse DEF TracingInv, TracingShapes
  <2>2. QED
    BY <1>0, <1>1, <1>9, <2>1, LogCallKeepsTree
<1>10. ASSUME NEW c \in Chains, NEW logger \in setup.loggers, NEW sync \in BOOLEAN,
              NEW parent \in setup.parents, OpenSpan(c, logger, sync, parent)
       PROVE  TreeInv'
  BY <1>0, <1>10, OpenSpanKeepsTree
<1>11. ASSUME NEW c \in Chains, NEW logger \in setup.loggers, NEW r \in Runs,
              RunStarts(c, logger, r)
       PROVE  TreeInv'
  BY <1>0, <1>1, <1>11, RunStartsKeepsTree
<1>12. ASSUME NEW c \in Chains, NEW logger \in setup.loggers, NEW r \in Runs,
              NEW fails \in BOOLEAN, RunEnds(c, logger, r, fails)
       PROVE  TreeInv'
  BY <1>0, <1>1, <1>12, RunEndsKeepsTree
<1>13. ASSUME NEW c \in Chains, NEW logger \in setup.loggers, NEW r \in Runs,
              NEW kind \in {"action", "decision"}, AgentEvent(c, logger, r, kind)
       PROVE  TreeInv'
  BY <1>0, <1>1, <1>13, AgentEventKeepsTree
<1>14. CASE UNCHANGED vars
  <2>1. UNCHANGED <<runtime, scope, alive, blocks, setup, header, pending, log, last>>
    BY <1>14 DEF vars, scopeVars
  <2>2. ScopesRight(H)' /\ PendingRight(H)'
    BY <1>0, <2>1 DEF TreeOf, ScopesRight, PendingRight
  <2>3. QED
    BY <1>0, <1>1, <2>1, <2>2, QuietKeepsTree DEF TreeOf, logVars
<1>15. QED
  BY <1>2, <1>3, <1>4, <1>5, <1>6, <1>7, <1>8, <1>9, <1>10, <1>11, <1>12, <1>13, <1>14
     DEF Next, Outcomes

\* What a span and a log line take from their record.
LEMMA SpanIs ==
    ASSUME NEW record, NEW n, SpanOf(record, n) # None
    PROVE  /\ SpanOf(record, n).traceId =
                 IF TraceOf(record.meta) = None THEN <<"random", n>> ELSE TraceOf(record.meta)
           /\ SpanOf(record, n).spanId =
                 IF record.meta.span_id = None THEN <<"random", n>>
                 ELSE SpanIdFor(record.meta.span_id)
           /\ SpanOf(record, n).parent = IF record.meta.parent_span_id = None THEN None
                                         ELSE SpanIdFor(record.meta.parent_span_id)
  BY DEF SpanOf

LEMMA LineIs ==
    ASSUME NEW record, LineOf(record) # None
    PROVE  /\ LineOf(record).traceId = TraceOf(record.meta) /\ TraceOf(record.meta) # None
           /\ \E id \in {record.meta.span_id, record.meta.parent_span_id} \ {None} :
                 LineOf(record).spanId = SpanIdFor(id)
  BY DEF LineOf

\* A span that is told of by its id has that id.
LEMMA SameId ==
    ASSUME NEW n, NEW own, NEW id,
           SpanIdFor(id) = IF own = None THEN <<"random", n>> ELSE SpanIdFor(own)
    PROVE  own # None /\ own = id
  BY DEF SpanIdFor
\* Two records that name one span are in one trace.
LEMMA PlacedTogether ==
    ASSUME NEW H, NEW n, NEW meta, NEW other, Placed(H, n, meta), Placed(H, n, other),
           other.span_id # None, other.span_id \in {meta.span_id, meta.parent_span_id}
    PROVE  TraceOf(meta) = TraceOf(other) /\ TraceOf(meta) # None
<1>1. PICK h \in {"a", "b"} :
         /\ meta.trace_id = <<"header", h>>
         /\ \A id \in {meta.span_id, meta.parent_span_id} \ {0, None} : H[id] = h
  BY DEF Placed
<1>2. PICK g \in {"a", "b"} :
         /\ other.trace_id = <<"header", g>> /\ other.span_id # 0
         /\ \A id \in {other.span_id, other.parent_span_id} \ {0, None} : H[id] = g
  BY DEF Placed
<1>3. H[other.span_id] = h /\ H[other.span_id] = g
  BY <1>1, <1>2
<1>4. None # <<"header", h>> /\ <<"header", h>> # ZeroTrace
  <2>1. "header" \in Words /\ h \in Words
    BY DEF Words
  <2>2. None # <<"header", h>>
    BY <2>1, NoneIsOther
  <2>3. QED
    BY <2>2 DEF ZeroTrace
<1>5. QED
  BY <1>1, <1>2, <1>3, <1>4, TraceOfGiven

\* The records of a steady program agree on the trace of each span they name.
TracesAgree ==
    \A i, j \in DOMAIN log :
        log[j].meta.span_id # None
          /\ log[j].meta.span_id \in {log[i].meta.span_id, log[i].meta.parent_span_id} =>
              TraceOf(log[i].meta) = TraceOf(log[j].meta) /\ TraceOf(log[i].meta) # None

LEMMA SteadyAgrees ==
    ASSUME TreeInv, Steady(setup)
    PROVE  TracesAgree
<1>1. PICK H : TreeOf(H)
  BY DEF TreeInv
<1>2. CASE setup.runtime = "browser"
  <2>1. DOMAIN log = {}
    BY <1>1, <1>2, EmptySeq DEF TreeOf
  <2>2. QED
    BY <2>1 DEF TracesAgree
<1>3. ASSUME NEW by \in {"run", "active", "header"},
             NEW id \in {"run", "inner", "host", "a", "b"}, OneTrace(setup, <<by, id>>)
      PROVE  TracesAgree
  <2>1. None # <<by, id>>
    <3>1. by \in Words /\ id \in Words
      BY DEF Words
    <3>2. QED
      BY <3>1, NoneIsOther
  <2>2. \A i \in DOMAIN log : TraceOf(log[i].meta) = <<by, id>>
    BY <1>1, <1>3 DEF TreeOf, LogRight, RecordRight
  <2>3. QED
    BY <2>1, <2>2 DEF TracesAgree
<1>4. CASE TracePerRequest(setup)
  <2>1. \A i \in DOMAIN log : Placed(H, blocks, log[i].meta)
    BY <1>1, <1>4 DEF TreeOf, LogRight, RecordRight
  <2>2. QED
    BY <2>1, PlacedTogether DEF TracesAgree
<1>5. QED
  BY <1>2, <1>3, <1>4 DEF Steady

LEMMA TreeInvTells ==
    ASSUME TreeInv, Steady(setup)
    PROVE  TreeIsLogged
<1>1. TracesAgree
  BY SteadyAgrees
<1>2. ASSUME NEW span \in Spans
      PROVE  \E j \in DOMAIN log : span = SpanOf(log[j], j) /\ SpanOf(log[j], j) # None
  BY DEF Spans
<1>3. ASSUME NEW i \in DOMAIN log, NEW j \in DOMAIN log, SpanOf(log[j], j) # None,
             NEW id \in {log[i].meta.span_id, log[i].meta.parent_span_id} \ {None},
             SpanIdFor(id) = SpanOf(log[j], j).spanId
      PROVE  SpanOf(log[j], j).traceId = TraceOf(log[i].meta) /\ TraceOf(log[i].meta) # None
  <2>1. SpanIdFor(id) = IF log[j].meta.span_id = None THEN <<"random", j>>
                        ELSE SpanIdFor(log[j].meta.span_id)
    BY <1>3, SpanIs
  <2>2. log[j].meta.span_id # None /\ log[j].meta.span_id = id
    BY <2>1, SameId
  <2>3. TraceOf(log[i].meta) = TraceOf(log[j].meta) /\ TraceOf(log[i].meta) # None
    BY <1>1, <1>3, <2>2 DEF TracesAgree
  <2>4. QED
    BY <1>3, <2>3, SpanIs
<1>4. LinesJoinTheirSpan
  <2>1. ASSUME NEW line \in Lines, NEW span \in Spans, line.spanId = span.spanId
        PROVE  line.traceId = span.traceId
    <3>1. PICK i \in DOMAIN log : line = LineOf(log[i]) /\ LineOf(log[i]) # None
      BY DEF Lines
    <3>2. PICK j \in DOMAIN log : span = SpanOf(log[j], j) /\ SpanOf(log[j], j) # None
      BY <1>2
    <3>3. /\ line.traceId = TraceOf(log[i].meta)
          /\ \E id \in {log[i].meta.span_id, log[i].meta.parent_span_id} \ {None} :
                line.spanId = SpanIdFor(id)
      BY <3>1, LineIs
    <3>4. QED
      BY <1>3, <2>1, <3>2, <3>3
  <2>2. QED
    BY <2>1 DEF LinesJoinTheirSpan
<1>5. \A child \in Spans, span \in Spans :
         child.parent # None /\ child.parent = span.spanId => child.traceId = span.traceId
  <2>1. ASSUME NEW child \in Spans, NEW span \in Spans, child.parent # None,
               child.parent = span.spanId
        PROVE  child.traceId = span.traceId
    <3>1. PICK i \in DOMAIN log : child = SpanOf(log[i], i) /\ SpanOf(log[i], i) # None
      BY <1>2
    <3>2. PICK j \in DOMAIN log : span = SpanOf(log[j], j) /\ SpanOf(log[j], j) # None
      BY <1>2
    <3>3. log[i].meta.parent_span_id # None
          /\ child.parent = SpanIdFor(log[i].meta.parent_span_id)
      BY <2>1, <3>1, SpanIs
    <3>4. span.traceId = TraceOf(log[i].meta) /\ TraceOf(log[i].meta) # None
      BY <1>3, <2>1, <3>2, <3>3
    <3>5. QED
      BY <3>1, <3>4, SpanIs
  <2>2. QED
    BY <2>1
<1>6. ASSUME NEW i \in DOMAIN log, IsSpanRecord(log[i])
      PROVE  SpanOf(log[i], i).spec.isError = log[i].meta.error
  <2>1. /\ log[i].meta.kind = "span" /\ ~log[i].llm
        /\ log[i].meta.error = Failed(log[i])
    BY <1>6 DEF TreeInv, TreeOf, LogRight, RecordRight, IsSpanRecord
  <2>2. SpecFor(log[i]) = SpanSpec(log[i])
    BY <1>6, <2>1 DEF SpecFor, IsLlmRecord, IsToolRecord
  <2>3. SpecFor(log[i]) # None /\ SpecFor(log[i]).isError = Failed(log[i])
    <3>1. "span" \in Words /\ Failed(log[i]) \in BOOLEAN
      BY DEF Words, Failed
    <3>2. None # [of |-> "span", isError |-> Failed(log[i])]
      BY <3>1, NoneIsOther
    <3>3. QED
      BY <2>2, <3>2 DEF SpanSpec
  <2>4. SpanOf(log[i], i).spec = SpecFor(log[i])
    BY <2>3 DEF SpanOf
  <2>5. QED
    BY <2>1, <2>3, <2>4
<1>7. QED
  BY <1>4, <1>5, <1>6 DEF TreeIsLogged

\* Steady programs: each log line and each span a collector is given is in the trace
\* of the span it names as its own or as its parent, and a block's span is an error
\* exactly if the block threw (span(), dispatch(), ids.ts, semconv.ts, and what
\* OTLPTransport and OTelLogsTransport take from a record).
THEOREM TreesAreLogged ==
    ASSUME \A program \in Setups : Steady(program)
    PROVE  Spec => []TreeIsLogged
<1>1. Init => TracingInv /\ TreeInv
  BY TracingStart, TreeStart
<1>2. TracingInv /\ TreeInv /\ [Next]_vars => TracingInv' /\ TreeInv'
  BY TracingSteps, TreeSteps
<1>3. TracingInv /\ TreeInv => TreeIsLogged
  BY TreeInvTells DEF TracingInv, TracingShapes
<1>4. QED
  BY <1>1, <1>2, <1>3, PTL DEF Spec
=============================================================================
