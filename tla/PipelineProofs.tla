--------------------------- MODULE PipelineProofs ---------------------------
(***************************************************************************)
(* Proofs about Pipeline, for any plugins in any order, any calls, keys,   *)
(* traces and bounds.                                                      *)
(***************************************************************************)
EXTENDS Pipeline, SequenceTheorems, FiniteSetTheorems, WellFoundedInduction, TLAPS

Map == INSTANCE RecencyMap

LEMMA Limits ==
    /\ MaxPerWindow \in Nat \ {0} /\ PerSeconds \in Nat \ {0} /\ MaxEntries \in Nat \ {0}
    /\ DedupeWindow \in Nat \ {0}
    /\ MaxKeys \in Nat /\ MaxTraces \in Nat /\ MaxBufferedRecords \in Nat /\ MaxTrackedKeys \in Nat
  BY LimitsAssumption

-----------------------------------------------------------------------------
(* The alerts of AlertingPlugin.  A window is open from an alert on, and    *)
(* when it closes every alert of its key is a dedupe window old.            *)

Window == [count : Nat \ {0}, opened : Nat]

AlertShapes(a, now) ==
    /\ a = [windows |-> a.windows, sent |-> a.sent, untracked |-> a.untracked]
    /\ a.windows \in [DOMAIN a.windows -> Window]
    /\ IsFiniteSet(DOMAIN a.windows) /\ Cardinality(DOMAIN a.windows) <= MaxTrackedKeys
    /\ \E S : a.sent \in Seq(S)
    /\ \A i \in 1..Len(a.sent) : a.sent[i].at \in Nat /\ a.sent[i].at <= now

\* While a window is open no alert of its key is later than it is,
OpenedLast(a) ==
    \A i \in 1..Len(a.sent) : a.sent[i].key \in DOMAIN a.windows =>
        a.sent[i].at <= a.windows[a.sent[i].key].opened

\* and when none is, only the last alert of a key may be recent.
OnlyLastRecent(a, now) ==
    \A i, j \in 1..Len(a.sent) :
        i < j /\ a.sent[i].key = a.sent[j].key /\ a.sent[i].key \notin DOMAIN a.windows =>
            a.sent[i].at + DedupeWindow <= now

Spaced(a) ==
    \A i, j, k \in 1..Len(a.sent) :
        i < j /\ j < k /\ a.sent[i].key = a.sent[j].key /\ a.sent[i].key = a.sent[k].key =>
            a.sent[i].at + DedupeWindow <= a.sent[k].at

Timely(a, now) == OpenedLast(a) /\ OnlyLastRecent(a, now) /\ Spaced(a)

LEMMA AlertingCounts == \A S : Alerting!Cardinality(S) = Cardinality(S)
  BY DEF Alerting!Cardinality, Cardinality

\* One alert more.
LEMMA SentOneMore ==
    ASSUME NEW a, NEW now \in Nat, AlertShapes(a, now), NEW e
    PROVE  LET sent == Append(a.sent, e)
           IN  /\ \E S : sent \in Seq(S)
               /\ Len(a.sent) \in Nat /\ Len(sent) = Len(a.sent) + 1
               /\ \A i \in 1..Len(a.sent) : sent[i] = a.sent[i]
               /\ sent[Len(a.sent) + 1] = e
<1>1. PICK S : a.sent \in Seq(S)
  BY DEF AlertShapes
<1> DEFINE T == S \cup {e}
           sent == Append(a.sent, e)
<1>2. a.sent \in Seq(T) /\ e \in T
  <2>1. a.sent \in [1..Len(a.sent) -> T] /\ Len(a.sent) \in Nat
    BY <1>1, LenProperties
  <2>2. QED
    BY <2>1, SeqDef
<1> HIDE DEF T
<1>3. /\ sent \in Seq(T) /\ Len(sent) = Len(a.sent) + 1 /\ Len(a.sent) \in Nat
      /\ \A i \in 1..Len(a.sent) : sent[i] = a.sent[i] /\ sent[Len(a.sent) + 1] = e
  BY <1>2, AppendProperties, LenProperties
<1>4. sent[Len(a.sent) + 1] = e
  BY <1>2, AppendProperties
<1>5. QED
  BY <1>3, <1>4

\* An alert of key that comes when each earlier one of it but the last is old enough.
LEMMA SentSpaced ==
    ASSUME NEW a, NEW now \in Nat, AlertShapes(a, now), Spaced(a), NEW b, NEW e,
           b.sent = Append(a.sent, e), e.at = now,
           \A i, j \in 1..Len(a.sent) :
               i < j /\ a.sent[i].key = e.key /\ a.sent[j].key = e.key =>
                   a.sent[i].at + DedupeWindow <= now
    PROVE  Spaced(b)
<1>1. /\ Len(a.sent) \in Nat /\ Len(b.sent) = Len(a.sent) + 1
      /\ \A i \in 1..Len(a.sent) : b.sent[i] = a.sent[i]
      /\ b.sent[Len(a.sent) + 1] = e
  BY SentOneMore
<1> SUFFICES ASSUME NEW i \in 1..Len(b.sent), NEW j \in 1..Len(b.sent), NEW k \in 1..Len(b.sent),
                    i < j, j < k,
                    b.sent[i].key = b.sent[j].key, b.sent[i].key = b.sent[k].key
             PROVE  b.sent[i].at + DedupeWindow <= b.sent[k].at
  BY DEF Spaced
<1>2. i \in 1..Len(a.sent) /\ j \in 1..Len(a.sent)
  BY <1>1
<1>3. b.sent[i] = a.sent[i] /\ b.sent[j] = a.sent[j]
  BY <1>1, <1>2
<1>4. CASE k \in 1..Len(a.sent)
  BY <1>1, <1>2, <1>3, <1>4 DEF Spaced
<1>5. CASE k = Len(a.sent) + 1
  BY <1>1, <1>2, <1>3, <1>5
<1>6. QED
  BY <1>1, <1>4, <1>5

LEMMA LaterIsTimely ==
    ASSUME NEW a, NEW now \in Nat, NEW later \in Nat, now <= later
    PROVE  /\ AlertShapes(a, now) => AlertShapes(a, later)
           /\ AlertShapes(a, now) /\ Timely(a, now) => Timely(a, later)
<1>1. AlertShapes(a, now) => AlertShapes(a, later)
  BY DEF AlertShapes
<1>2. ASSUME AlertShapes(a, now), Timely(a, now) PROVE OnlyLastRecent(a, later)
  <2> SUFFICES ASSUME NEW i \in 1..Len(a.sent), NEW j \in 1..Len(a.sent), i < j,
                      a.sent[i].key = a.sent[j].key, a.sent[i].key \notin DOMAIN a.windows
               PROVE  a.sent[i].at + DedupeWindow <= later
    BY DEF OnlyLastRecent
  <2>1. a.sent[i].at + DedupeWindow <= now /\ a.sent[i].at \in Nat
    BY <1>2 DEF AlertShapes, Timely, OnlyLastRecent
  <2>2. QED
    BY <2>1, Limits
<1>3. QED
  BY <1>1, <1>2 DEF Timely

LEMMA NoticedKeeps ==
    ASSUME NEW a, NEW now \in Nat, NEW key, AlertShapes(a, now)
    PROVE  LET b == Alerting!Noticed(a, key, now)
           IN  AlertShapes(b, now) /\ (Timely(a, now) => Timely(b, now))
<1> DEFINE b == Alerting!Noticed(a, key, now)
<1>1. CASE key \in DOMAIN a.windows
  <2>1. /\ b.sent = a.sent /\ b.untracked = a.untracked
        /\ b = [windows |-> b.windows, sent |-> b.sent, untracked |-> b.untracked]
        /\ b.windows = [a.windows EXCEPT ![key].count = @ + 1]
    BY <1>1 DEF Alerting!Noticed, AlertShapes
  <2>2. /\ DOMAIN b.windows = DOMAIN a.windows
        /\ b.windows \in [DOMAIN b.windows -> Window]
        /\ \A k \in DOMAIN a.windows : b.windows[k].opened = a.windows[k].opened
    BY <1>1, <2>1 DEF AlertShapes, Window
  <2> HIDE DEF b
  <2>3. AlertShapes(b, now)
    BY <2>1, <2>2 DEF AlertShapes
  <2>4. Timely(a, now) => Timely(b, now)
    BY <2>1, <2>2 DEF Timely, OpenedLast, OnlyLastRecent, Spaced
  <2>5. QED
    BY <2>3, <2>4 DEF b
<1>2. CASE key \notin DOMAIN a.windows /\ Cardinality(DOMAIN a.windows) >= MaxTrackedKeys
  <2>1. /\ b.sent = a.sent /\ b.windows = a.windows
        /\ b = [windows |-> b.windows, sent |-> b.sent, untracked |-> b.untracked]
    <3>1. b = [a EXCEPT !.untracked = Append(@, key)]
      BY <1>2, AlertingCounts DEF Alerting!Noticed
    <3>2. a = [windows |-> a.windows, sent |-> a.sent, untracked |-> a.untracked]
      BY DEF AlertShapes
    <3> HIDE DEF b
    <3>3. QED
      BY <3>1, <3>2
  <2> HIDE DEF b
  <2>2. QED
    BY <2>1 DEF AlertShapes, Timely, OpenedLast, OnlyLastRecent, Spaced, b
<1>3. CASE key \notin DOMAIN a.windows /\ ~(Cardinality(DOMAIN a.windows) >= MaxTrackedKeys)
  <2> DEFINE e == [key |-> key, at |-> now, occurrences |-> 1]
             w == Alerting!Opened(a.windows, key, now)
  <2>1. /\ b.sent = Append(a.sent, e) /\ b.windows = w
        /\ b = [windows |-> b.windows, sent |-> b.sent, untracked |-> b.untracked]
    <3>1. b = [[a EXCEPT !.windows = w] EXCEPT !.sent = Append(@, e)]
      BY <1>3, AlertingCounts DEF Alerting!Noticed, Alerting!Alerted
    <3>2. a = [windows |-> a.windows, sent |-> a.sent, untracked |-> a.untracked]
      BY DEF AlertShapes
    <3> HIDE DEF b, w, e
    <3>3. QED
      BY <3>1, <3>2
  <2>2. /\ DOMAIN w = DOMAIN a.windows \cup {key} /\ w \in [DOMAIN w -> Window]
        /\ \A k \in DOMAIN a.windows : w[k] = a.windows[k]
        /\ w[key].opened = now
    BY <1>3 DEF Alerting!Opened, AlertShapes, Window
  <2>3. e.key = key /\ e.at = now
    OBVIOUS
  <2> HIDE DEF b, e, w
  <2>4. /\ Len(a.sent) \in Nat /\ Len(b.sent) = Len(a.sent) + 1 /\ \E S : b.sent \in Seq(S)
        /\ \A i \in 1..Len(a.sent) : b.sent[i] = a.sent[i]
        /\ b.sent[Len(a.sent) + 1] = e
    <3> DEFINE sent == Append(a.sent, e)
    <3>1. /\ \E S : sent \in Seq(S)
          /\ Len(a.sent) \in Nat /\ Len(sent) = Len(a.sent) + 1
          /\ \A i \in 1..Len(a.sent) : sent[i] = a.sent[i]
          /\ sent[Len(a.sent) + 1] = e
      BY SentOneMore
    <3> HIDE DEF sent
    <3>2. b.sent = sent
      BY <2>1 DEF sent
    <3>3. QED
      BY <3>1, <3>2
  <2>5. \A i \in 1..Len(b.sent) : i \in 1..Len(a.sent) \/ i = Len(a.sent) + 1
    BY <2>4
  <2>6. AlertShapes(b, now)
    <3>1. /\ IsFiniteSet(DOMAIN b.windows)
          /\ Cardinality(DOMAIN b.windows) = Cardinality(DOMAIN a.windows) + 1
          /\ Cardinality(DOMAIN a.windows) \in Nat
      BY <1>3, <2>1, <2>2, FS_AddElement, FS_CardinalityType DEF AlertShapes
    <3>2. Cardinality(DOMAIN b.windows) <= MaxTrackedKeys
      BY <1>3, <3>1, Limits
    <3>3. \A i \in 1..Len(b.sent) : b.sent[i].at \in Nat /\ b.sent[i].at <= now
      BY <2>3, <2>4, <2>5 DEF AlertShapes
    <3>4. QED
      BY <2>1, <2>2, <2>4, <3>1, <3>2, <3>3 DEF AlertShapes
  <2>7. ASSUME Timely(a, now) PROVE Timely(b, now)
    <3>1. OpenedLast(b)
      <4> SUFFICES ASSUME NEW i \in 1..Len(b.sent), b.sent[i].key \in DOMAIN b.windows
                   PROVE  b.sent[i].at <= b.windows[b.sent[i].key].opened
        BY DEF OpenedLast
      <4>1. CASE i = Len(a.sent) + 1
        BY <2>1, <2>2, <2>3, <2>4, <4>1
      <4>2. CASE i \in 1..Len(a.sent)
        <5>1. b.sent[i] = a.sent[i] /\ a.sent[i].at <= now
          BY <2>4, <4>2 DEF AlertShapes
        <5>2. CASE a.sent[i].key = key
          BY <2>1, <2>2, <5>1, <5>2
        <5>3. CASE a.sent[i].key # key
          BY <2>1, <2>2, <2>7, <4>2, <5>1, <5>3 DEF Timely, OpenedLast
        <5>4. QED
          BY <5>2, <5>3
      <4>3. QED
        BY <2>5, <4>1, <4>2
    <3>2. OnlyLastRecent(b, now)
      BY <2>1, <2>2, <2>3, <2>4, <2>5, <2>7 DEF Timely, OnlyLastRecent
    <3>3. \A i, j \in 1..Len(a.sent) :
             i < j /\ a.sent[i].key = e.key /\ a.sent[j].key = e.key =>
                 a.sent[i].at + DedupeWindow <= now
      BY <1>3, <2>3, <2>7 DEF Timely, OnlyLastRecent
    <3>4. Spaced(b)
      BY <2>1, <2>3, <2>7, <3>3, SentSpaced DEF Timely
    <3>5. QED
      BY <3>1, <3>2, <3>4 DEF Timely
  <2>8. QED
    BY <2>6, <2>7 DEF b
<1>4. QED
  BY <1>1, <1>2, <1>3

LEMMA ClosedKeeps ==
    ASSUME NEW a, NEW now \in Nat, NEW key, AlertShapes(a, now), Alerting!WindowOver(a, key, now)
    PROVE  LET b == Alerting!WindowClosed(a, key, now)
           IN  AlertShapes(b, now) /\ (Timely(a, now) => Timely(b, now))
<1> DEFINE b == Alerting!WindowClosed(a, key, now)
           w == Alerting!Restrict(a.windows, DOMAIN a.windows \ {key})
           e == [key |-> key, at |-> now, occurrences |-> a.windows[key].count]
<1>1. /\ key \in DOMAIN a.windows /\ a.windows[key] \in Window
      /\ now >= a.windows[key].opened + DedupeWindow /\ a.windows[key].opened \in Nat
  BY DEF Alerting!WindowOver, AlertShapes, Window
<1>2. /\ b.sent = a.sent \/ b.sent = Append(a.sent, e)
      /\ b = [windows |-> b.windows, sent |-> b.sent, untracked |-> b.untracked]
      /\ b.windows = w
  BY DEF Alerting!WindowClosed, Alerting!Alerted, AlertShapes
<1>3. /\ DOMAIN w = DOMAIN a.windows \ {key} /\ w \in [DOMAIN w -> Window]
      /\ \A k \in DOMAIN w : w[k] = a.windows[k]
  BY DEF Alerting!Restrict, AlertShapes
<1>4. e.key = key /\ e.at = now
  OBVIOUS
<1> HIDE DEF b, w, e
<1>5. IsFiniteSet(DOMAIN w) /\ Cardinality(DOMAIN w) <= MaxTrackedKeys
  <2>1. /\ IsFiniteSet(DOMAIN w) /\ Cardinality(DOMAIN w) = Cardinality(DOMAIN a.windows) - 1
        /\ Cardinality(DOMAIN a.windows) \in Nat
    BY <1>1, <1>3, FS_RemoveElement, FS_CardinalityType DEF AlertShapes
  <2>2. Cardinality(DOMAIN a.windows) <= MaxTrackedKeys
    BY DEF AlertShapes
  <2>3. QED
    BY <2>1, <2>2, Limits
\* Every alert of the key there is is old.
<1>6. ASSUME Timely(a, now), NEW i \in 1..Len(a.sent), a.sent[i].key = key
      PROVE  a.sent[i].at + DedupeWindow <= now
  <2>1. a.sent[i].at <= a.windows[key].opened /\ a.sent[i].at \in Nat
    BY <1>1, <1>6 DEF Timely, OpenedLast, AlertShapes
  <2>2. DedupeWindow \in Nat /\ a.windows[key].opened \in Nat
    BY <1>1, Limits
  <2>3. now >= a.windows[key].opened + DedupeWindow
    BY <1>1
  <2>4. QED
    BY <2>1, <2>2, <2>3
<1>7. CASE b.sent = a.sent
  <2>1. AlertShapes(b, now)
    BY <1>2, <1>3, <1>5, <1>7 DEF AlertShapes
  <2>2. ASSUME Timely(a, now) PROVE Timely(b, now)
    <3>1. OpenedLast(b) /\ Spaced(b)
      BY <1>2, <1>3, <1>7, <2>2 DEF Timely, OpenedLast, Spaced
    <3>2. OnlyLastRecent(b, now)
      BY <1>2, <1>3, <1>6, <1>7, <2>2 DEF Timely, OnlyLastRecent
    <3>3. QED
      BY <3>1, <3>2 DEF Timely
  <2>3. QED
    BY <2>1, <2>2 DEF b
<1>8. CASE b.sent = Append(a.sent, e)
  <2>1. /\ Len(a.sent) \in Nat /\ Len(b.sent) = Len(a.sent) + 1 /\ \E S : b.sent \in Seq(S)
        /\ \A i \in 1..Len(a.sent) : b.sent[i] = a.sent[i]
        /\ b.sent[Len(a.sent) + 1] = e
    <3> DEFINE sent == Append(a.sent, e)
    <3>1. /\ \E S : sent \in Seq(S)
          /\ Len(a.sent) \in Nat /\ Len(sent) = Len(a.sent) + 1
          /\ \A i \in 1..Len(a.sent) : sent[i] = a.sent[i]
          /\ sent[Len(a.sent) + 1] = e
      BY SentOneMore
    <3> HIDE DEF sent
    <3>2. b.sent = sent
      BY <1>8 DEF sent
    <3>3. QED
      BY <3>1, <3>2
  <2>2. \A i \in 1..Len(b.sent) : i \in 1..Len(a.sent) \/ i = Len(a.sent) + 1
    BY <2>1
  <2>3. AlertShapes(b, now)
    <3>1. \A i \in 1..Len(b.sent) : b.sent[i].at \in Nat /\ b.sent[i].at <= now
      BY <1>4, <2>1, <2>2 DEF AlertShapes
    <3>2. QED
      BY <1>2, <1>3, <1>5, <2>1, <3>1 DEF AlertShapes
  <2>4. ASSUME Timely(a, now) PROVE Timely(b, now)
    <3>1. OpenedLast(b)
      BY <1>2, <1>3, <1>4, <2>1, <2>2, <2>4 DEF Timely, OpenedLast
    <3>2. OnlyLastRecent(b, now)
      <4> SUFFICES ASSUME NEW i \in 1..Len(b.sent), NEW j \in 1..Len(b.sent), i < j,
                          b.sent[i].key = b.sent[j].key, b.sent[i].key \notin DOMAIN b.windows
                   PROVE  b.sent[i].at + DedupeWindow <= now
        BY DEF OnlyLastRecent
      <4>1. i \in 1..Len(a.sent) /\ b.sent[i] = a.sent[i]
        BY <2>1
      <4>2. CASE a.sent[i].key = key
        BY <1>6, <2>4, <4>1, <4>2
      <4>3. CASE a.sent[i].key # key
        <5>1. j \in 1..Len(a.sent) /\ b.sent[j] = a.sent[j]
          BY <1>4, <2>1, <2>2, <4>1, <4>3
        <5>2. a.sent[i].key \notin DOMAIN a.windows
          BY <1>2, <1>3, <4>1, <4>3
        <5>3. QED
          BY <2>4, <4>1, <5>1, <5>2 DEF Timely, OnlyLastRecent
      <4>4. QED
        BY <4>2, <4>3
    <3>3. Spaced(b)
      BY <1>4, <1>6, <1>8, <2>4, SentSpaced DEF Timely
    <3>4. QED
      BY <3>1, <3>2, <3>3 DEF Timely
  <2>5. QED
    BY <2>3, <2>4 DEF b
<1>9. QED
  BY <1>2, <1>7, <1>8

LEMMA CancelledKeeps ==
    ASSUME NEW a, NEW now \in Nat, AlertShapes(a, now)
    PROVE  AlertShapes(Alerting!Cancelled(a), now)
<1> DEFINE b == Alerting!Cancelled(a)
<1>1. /\ b.sent = a.sent /\ b.windows = Alerting!NoWindows
      /\ b = [windows |-> b.windows, sent |-> b.sent, untracked |-> b.untracked]
  BY DEF Alerting!Cancelled, AlertShapes
<1>2. DOMAIN b.windows = {} /\ b.windows \in [DOMAIN b.windows -> Window]
  BY <1>1 DEF Alerting!NoWindows
<1>3. IsFiniteSet({}) /\ Cardinality({}) = 0 /\ 0 <= MaxTrackedKeys
  BY FS_EmptySet, Limits
<1> HIDE DEF b
<1>4. QED
  BY <1>1, <1>2, <1>3 DEF AlertShapes, b

AlertInv ==
    /\ clock \in Nat /\ cancelled \in BOOLEAN
    /\ AlertShapes(alerts, clock) /\ (~cancelled => Timely(alerts, clock))

LEMMA AlertsStart == Init => AlertInv
<1> SUFFICES ASSUME Init PROVE AlertInv
  OBVIOUS
<1>1. /\ clock = 0 /\ cancelled = FALSE /\ alerts.sent = <<>> /\ DOMAIN alerts.windows = {}
      /\ alerts.windows \in [DOMAIN alerts.windows -> Window]
      /\ alerts = [windows |-> alerts.windows, sent |-> alerts.sent,
                   untracked |-> alerts.untracked]
  BY DEF Init, Alerting!NothingAlerted, Alerting!NoWindows
<1>2. IsFiniteSet({}) /\ Cardinality({}) = 0 /\ 0 <= MaxTrackedKeys
  BY FS_EmptySet, Limits
<1>3. Len(alerts.sent) = 0 /\ \E S : alerts.sent \in Seq(S)
  <2>1. alerts.sent \in Seq({}) /\ Len(alerts.sent) = 0
    BY <1>1, EmptySeq
  <2>2. \E S : alerts.sent \in Seq(S)
    BY <2>1
  <2>3. QED
    BY <2>1, <2>2
<1>4. \A i \in 1..Len(alerts.sent) : FALSE
  BY <1>3
<1>5. AlertShapes(alerts, clock)
  BY <1>1, <1>2, <1>3, <1>4 DEF AlertShapes
<1>6. Timely(alerts, clock)
  BY <1>4 DEF Timely, OpenedLast, OnlyLastRecent, Spaced
<1>7. QED
  BY <1>1, <1>5, <1>6 DEF AlertInv

LEMMA AlertsStep == AlertInv /\ [Next]_vars => AlertInv'
<1> SUFFICES ASSUME AlertInv, [Next]_vars PROVE AlertInv'
  OBVIOUS
<1> USE DEF AlertInv
<1>1. ASSUME WriteAndNotify PROVE AlertInv'
  <2>1. PICK key : alerts' = Alerting!Noticed(alerts, key, clock) \/ alerts' = alerts
    BY <1>1 DEF WriteAndNotify
  <2>2. clock' = clock /\ cancelled' = cancelled
    BY <1>1 DEF WriteAndNotify
  <2>3. QED
    BY <2>1, <2>2, NoticedKeeps
<1>2. ASSUME Tick PROVE AlertInv'
  <2>1. clock' \in Nat /\ clock <= clock' /\ alerts' = alerts /\ cancelled' = cancelled
    BY <1>2 DEF Tick
  <2>2. QED
    BY <2>1, LaterIsTimely
<1>3. ASSUME AlertTimer PROVE AlertInv'
  <2>1. PICK key : /\ Alerting!WindowOver(alerts, key, clock)
                   /\ alerts' = Alerting!WindowClosed(alerts, key, clock)
    BY <1>3 DEF AlertTimer
  <2>2. clock' = clock /\ cancelled' = cancelled
    BY <1>3 DEF AlertTimer
  <2>3. QED
    BY <2>1, <2>2, ClosedKeeps
<1>4. ASSUME CloseAlerting PROVE AlertInv'
  BY <1>4, CancelledKeeps DEF CloseAlerting
<1>5. CASE Dispatch
  BY <1>5 DEF Dispatch
<1>6. CASE UNCHANGED vars
  BY <1>6 DEF vars
<1>7. QED
  BY <1>1, <1>2, <1>3, <1>4, <1>5, <1>6 DEF Next

\* AlertingPlugin keeps maxTrackedKeys windows at most, and however late its timers
\* fire, of any three alerts of a key the last comes a dedupe window after the first.
THEOREM AlertsAreBounded == Spec => []AlertsBounded
<1>1. AlertInv => AlertsBounded
  <2> SUFFICES ASSUME AlertInv PROVE AlertsBounded
    OBVIOUS
  <2>1. Cardinality(DOMAIN alerts.windows) <= MaxTrackedKeys
    BY DEF AlertInv, AlertShapes
  <2>2. ASSUME ~cancelled, NEW i \in DOMAIN alerts.sent, NEW j \in DOMAIN alerts.sent,
               NEW k \in DOMAIN alerts.sent, i < j, j < k,
               {i, j, k} \subseteq AlertsOf(alerts.sent[i].key)
        PROVE  alerts.sent[k].at >= alerts.sent[i].at + DedupeWindow
    <3>1. DOMAIN alerts.sent = 1..Len(alerts.sent)
      BY LenProperties DEF AlertInv, AlertShapes
    <3>2. alerts.sent[j].key = alerts.sent[i].key /\ alerts.sent[k].key = alerts.sent[i].key
      BY <2>2 DEF AlertsOf
    <3>3. alerts.sent[i].at + DedupeWindow <= alerts.sent[k].at
      BY <2>2, <3>1, <3>2 DEF AlertInv, Timely, Spaced
    <3>4. alerts.sent[k].at \in Nat /\ alerts.sent[i].at \in Nat /\ DedupeWindow \in Nat
      BY <3>1, Limits DEF AlertInv, AlertShapes
    <3>5. QED
      BY <3>3, <3>4
  <2>3. QED
    BY <2>1, <2>2 DEF AlertsBounded
<1>2. QED
  BY <1>1, AlertsStart, AlertsStep, PTL DEF Spec

-----------------------------------------------------------------------------
(* Sequences, whatever they are of. *)

IsSeq(q) == Len(q) \in Nat /\ q = [i \in 1..Len(q) |-> q[i]]

LEMMA SeqOfItsElements ==
    ASSUME NEW q
    PROVE  IsSeq(q) <=> q \in Seq({q[i] : i \in 1..Len(q)})
<1>1. ASSUME IsSeq(q) PROVE q \in Seq({q[i] : i \in 1..Len(q)})
  <2>1. q \in [1..Len(q) -> {q[i] : i \in 1..Len(q)}] /\ Len(q) \in Nat
    BY <1>1 DEF IsSeq
  <2>2. QED
    BY <2>1, SeqDef
<1>2. ASSUME NEW S, q \in Seq(S) PROVE IsSeq(q)
  BY <1>2, LenProperties DEF IsSeq
<1>3. QED
  BY <1>1, <1>2

LEMMA SeqIsSeq == ASSUME NEW S, NEW q \in Seq(S) PROVE IsSeq(q)
  BY LenProperties DEF IsSeq

LEMMA SeqOver ==
    ASSUME NEW q, IsSeq(q), NEW S, \A i \in 1..Len(q) : q[i] \in S
    PROVE  q \in Seq(S)
<1>1. q \in [1..Len(q) -> S] /\ Len(q) \in Nat
  BY DEF IsSeq
<1>2. QED
  BY <1>1, SeqDef

LEMMA Appended ==
    ASSUME NEW q, IsSeq(q), NEW e
    PROVE  LET p == Append(q, e)
           IN  /\ IsSeq(p) /\ Len(p) = Len(q) + 1 /\ p[Len(q) + 1] = e
               /\ \A i \in 1..Len(q) : p[i] = q[i]
               /\ \A i \in 1..Len(p) : i \in 1..Len(q) \/ i = Len(q) + 1
<1> DEFINE S == {q[i] : i \in 1..Len(q)} \cup {e}
           p == Append(q, e)
<1>1. q \in Seq(S) /\ e \in S
  BY SeqOver
<1> HIDE DEF S
<1>2. /\ p \in Seq(S) /\ Len(p) = Len(q) + 1 /\ p[Len(q) + 1] = e /\ Len(q) \in Nat
      /\ \A i \in 1..Len(q) : p[i] = q[i]
  BY <1>1, AppendProperties
<1> HIDE DEF p
<1>3. IsSeq(p)
  BY <1>2, SeqIsSeq
<1>4. \A i \in 1..Len(p) : i \in 1..Len(q) \/ i = Len(q) + 1
  BY <1>2
<1>5. QED
  BY <1>2, <1>3, <1>4 DEF p

LEMMA WithoutHead ==
    ASSUME NEW q, IsSeq(q), q # <<>>
    PROVE  /\ IsSeq(Tail(q)) /\ Len(Tail(q)) = Len(q) - 1 /\ Len(q) > 0
           /\ Head(q) = q[1]
           /\ \A i \in 1..Len(Tail(q)) : Tail(q)[i] = q[i + 1]
<1> DEFINE S == {q[i] : i \in 1..Len(q)}
<1>1. q \in Seq(S)
  BY SeqOver
<1> HIDE DEF S
<1>2. Len(q) \in Nat /\ Len(q) > 0 /\ Head(q) = q[1]
  BY <1>1, EmptySeq
<1>3. /\ Tail(q) \in Seq(S) /\ Len(Tail(q)) = Len(q) - 1
      /\ \A i \in 1..Len(Tail(q)) : Tail(q)[i] = q[i + 1]
  BY <1>1, HeadTailProperties
<1>4. IsSeq(Tail(q))
  BY <1>3, SeqIsSeq
<1>5. QED
  BY <1>2, <1>3, <1>4

LEMMA Joined ==
    ASSUME NEW p, NEW q, IsSeq(p), IsSeq(q)
    PROVE  LET r == p \o q
           IN  /\ IsSeq(r) /\ Len(r) = Len(p) + Len(q)
               /\ \A i \in 1..Len(p) : r[i] = p[i]
               /\ \A i \in 1..Len(q) : r[Len(p) + i] = q[i]
               /\ \A i \in 1..Len(r) : i \in 1..Len(p) \/ i - Len(p) \in 1..Len(q)
<1> DEFINE S == {p[i] : i \in 1..Len(p)} \cup {q[i] : i \in 1..Len(q)}
           r == p \o q
<1>1. p \in Seq(S) /\ q \in Seq(S)
  BY SeqOver
<1>2. Len(p) \in Nat /\ Len(q) \in Nat
  BY DEF IsSeq
<1> HIDE DEF S
<1>3. r \in Seq(S) /\ Len(r) = Len(p) + Len(q)
      /\ \A i \in 1..(Len(p) + Len(q)) : r[i] = IF i <= Len(p) THEN p[i] ELSE q[i - Len(p)]
  BY <1>1, ConcatProperties, Zenon
<1>4. IsSeq(r)
  BY <1>3, SeqIsSeq
<1> HIDE DEF r
<1>5. \A i \in 1..Len(p) : r[i] = p[i]
  BY <1>2, <1>3
<1>6. ASSUME NEW i \in 1..Len(q) PROVE r[Len(p) + i] = q[i]
  <2>1. Len(p) + i \in 1..(Len(p) + Len(q)) /\ ~(Len(p) + i <= Len(p)) /\ (Len(p) + i) - Len(p) = i
    BY <1>2
  <2>2. QED
    BY <1>3, <2>1
<1>7. \A i \in 1..Len(r) : i \in 1..Len(p) \/ i - Len(p) \in 1..Len(q)
  BY <1>2, <1>3
<1>8. QED
  BY <1>3, <1>4, <1>5, <1>6, <1>7 DEF r

LEMMA Part ==
    ASSUME NEW q, IsSeq(q), NEW m \in 1..(Len(q) + 1), NEW n \in (m - 1)..Len(q)
    PROVE  LET p == SubSeq(q, m, n)
           IN  /\ IsSeq(p) /\ Len(p) = n - m + 1
               /\ \A i \in 1..Len(p) : p[i] = q[m + i - 1]
<1> DEFINE S == {q[i] : i \in 1..Len(q)}
           p == SubSeq(q, m, n)
<1>1. q \in Seq(S) /\ Len(q) \in Nat
  BY SeqOver DEF IsSeq
<1> HIDE DEF S
<1>2. p \in Seq(S) /\ Len(p) = (IF m <= n THEN n - m + 1 ELSE 0)
      /\ \A i \in 1..(n - m + 1) : p[i] = q[m + i - 1]
  BY <1>1, SubSeqProperties
<1>3. IsSeq(p)
  BY <1>2, SeqIsSeq
<1> HIDE DEF p
<1>4. Len(p) = n - m + 1
  BY <1>1, <1>2
<1>5. QED
  BY <1>2, <1>3, <1>4 DEF p

LEMMA SeqDomain == ASSUME NEW q, IsSeq(q) PROVE DOMAIN q = 1..Len(q) /\ Len(q) \in Nat
  BY DEF IsSeq

LEMMA Removed ==
    ASSUME NEW q, IsSeq(q), NEW n \in 1..Len(q)
    PROVE  LET p == Map!RemoveAt(q, n)
           IN  /\ IsSeq(p) /\ Len(p) = Len(q) - 1
               /\ \A i \in 1..Len(p) : p[i] = q[IF i < n THEN i ELSE i + 1]
<1> DEFINE a == SubSeq(q, 1, n - 1)
           b == SubSeq(q, n + 1, Len(q))
           p == a \o b
<1>1. Len(q) \in Nat
  BY DEF IsSeq
<1>2. IsSeq(a) /\ Len(a) = n - 1 /\ \A i \in 1..Len(a) : a[i] = q[i]
  <2>1. 1 \in 1..(Len(q) + 1) /\ n - 1 \in (1 - 1)..Len(q)
    BY <1>1
  <2>2. IsSeq(a) /\ Len(a) = (n - 1) - 1 + 1 /\ \A i \in 1..Len(a) : a[i] = q[1 + i - 1]
    BY <2>1, Part
  <2> HIDE DEF a
  <2>3. QED
    BY <2>2
<1>3. IsSeq(b) /\ Len(b) = Len(q) - n /\ \A i \in 1..Len(b) : b[i] = q[n + i]
  <2>1. n + 1 \in 1..(Len(q) + 1) /\ Len(q) \in ((n + 1) - 1)..Len(q)
    BY <1>1
  <2>2. IsSeq(b) /\ Len(b) = Len(q) - (n + 1) + 1 /\ \A i \in 1..Len(b) : b[i] = q[(n + 1) + i - 1]
    BY <2>1, Part
  <2> HIDE DEF b
  <2>3. Len(b) = Len(q) - n /\ \A i \in 1..Len(b) : (n + 1) + i - 1 = n + i
    BY <1>1, <2>2
  <2>4. QED
    BY <2>2, <2>3
<1> HIDE DEF a, b
<1>4. /\ IsSeq(p) /\ Len(p) = Len(a) + Len(b)
      /\ \A i \in 1..Len(a) : p[i] = a[i]
      /\ \A i \in 1..Len(b) : p[Len(a) + i] = b[i]
      /\ \A i \in 1..Len(p) : i \in 1..Len(a) \/ i - Len(a) \in 1..Len(b)
  BY <1>2, <1>3, Joined
<1> HIDE DEF p
<1>5. Len(p) = Len(q) - 1
  BY <1>1, <1>2, <1>3, <1>4
<1>6. ASSUME NEW i \in 1..Len(p) PROVE p[i] = q[IF i < n THEN i ELSE i + 1]
  <2>1. CASE i \in 1..Len(a)
    BY <1>2, <1>4, <2>1
  <2>2. CASE i \notin 1..Len(a)
    <3>1. i - (n - 1) \in 1..Len(b) /\ (n - 1) + (i - (n - 1)) = i /\ ~(i < n) /\ n + (i - (n - 1)) = i + 1
      BY <1>1, <1>2, <1>4, <2>2
    <3>2. p[(n - 1) + (i - (n - 1))] = b[i - (n - 1)]
      BY <1>2, <1>4, <3>1
    <3>3. b[i - (n - 1)] = q[n + (i - (n - 1))]
      BY <1>3, <3>1
    <3>4. QED
      BY <3>1, <3>2, <3>3
  <2>3. QED
    BY <2>1, <2>2
<1>7. Map!RemoveAt(q, n) = p
  BY DEF Map!RemoveAt, p, a, b
<1>8. QED
  BY <1>4, <1>5, <1>6, <1>7

-----------------------------------------------------------------------------
(* Recency maps: what matters of one is the set of its entries, and how many. *)

MapOK(m) == IsSeq(m) /\ \A i, j \in 1..Len(m) : m[i].key = m[j].key => i = j
Entries(m) == {m[i] : i \in 1..Len(m)}
But(m, k) == {e \in Entries(m) : e.key # k}

LEMMA KeysOfEntries ==
    ASSUME NEW m, MapOK(m)
    PROVE  /\ Map!Keys(m) = {e.key : e \in Entries(m)}
           /\ \A d, e \in Entries(m) : d.key = e.key => d = e
<1>1. DOMAIN m = 1..Len(m)
  BY SeqDomain DEF MapOK
<1>2. Map!Keys(m) = {e.key : e \in Entries(m)}
  BY <1>1 DEF Map!Keys, Entries
<1>3. \A d, e \in Entries(m) : d.key = e.key => d = e
  BY DEF MapOK, Entries
<1>4. QED
  BY <1>2, <1>3

LEMMA PlaceIs ==
    ASSUME NEW m, MapOK(m), NEW k \in Map!Keys(m)
    PROVE  Map!PlaceOf(m, k) \in 1..Len(m) /\ m[Map!PlaceOf(m, k)].key = k
<1>1. \E i \in DOMAIN m : m[i].key = k
  BY DEF Map!Keys
<1>2. DOMAIN m = 1..Len(m)
  BY SeqDomain DEF MapOK
<1>3. QED
  BY <1>1, <1>2 DEF Map!PlaceOf

LEMMA AtIs ==
    ASSUME NEW m, MapOK(m), NEW e \in Entries(m)
    PROVE  e.key \in Map!Keys(m) /\ Map!At(m, e.key) = e.value
<1>1. e.key \in Map!Keys(m)
  BY KeysOfEntries
<1>2. m[Map!PlaceOf(m, e.key)] \in Entries(m) /\ m[Map!PlaceOf(m, e.key)].key = e.key
  BY <1>1, PlaceIs DEF Entries
<1>3. m[Map!PlaceOf(m, e.key)] = e
  BY <1>2, KeysOfEntries
<1>4. QED
  BY <1>1, <1>3 DEF Map!At

LEMMA WithoutIs ==
    ASSUME NEW m, MapOK(m), NEW k
    PROVE  LET p == Map!Without(m, k)
           IN  /\ MapOK(p) /\ Entries(p) = But(m, k)
               /\ Len(p) = (IF k \in Map!Keys(m) THEN Len(m) - 1 ELSE Len(m))
               /\ Len(p) \in Nat /\ Len(m) \in Nat
<1>0. Len(m) \in Nat /\ IsSeq(m)
  BY DEF MapOK, IsSeq
<1>1. CASE k \notin Map!Keys(m)
  <2>1. Map!Without(m, k) = m
    BY <1>1 DEF Map!Without
  <2>2. But(m, k) = Entries(m)
    BY <1>1, KeysOfEntries DEF But
  <2>3. QED
    BY <1>0, <1>1, <2>1, <2>2
<1>2. CASE k \in Map!Keys(m)
  <2> DEFINE n == Map!PlaceOf(m, k)
             p == Map!RemoveAt(m, n)
  <2>1. n \in 1..Len(m) /\ m[n].key = k
    BY <1>2, PlaceIs
  <2> HIDE DEF n
  <2>2. /\ IsSeq(p) /\ Len(p) = Len(m) - 1
        /\ \A i \in 1..Len(p) : p[i] = m[IF i < n THEN i ELSE i + 1]
    BY <1>0, <2>1, Removed
  <2> HIDE DEF p
  <2>3. \A i \in 1..Len(p) : (IF i < n THEN i ELSE i + 1) \in (1..Len(m)) \ {n}
    BY <1>0, <2>1, <2>2
  <2>4. \A j \in (1..Len(m)) \ {n} : \E i \in 1..Len(p) : (IF i < n THEN i ELSE i + 1) = j
    <3> SUFFICES ASSUME NEW j \in (1..Len(m)) \ {n}
                 PROVE  \E i \in 1..Len(p) : (IF i < n THEN i ELSE i + 1) = j
      OBVIOUS
    <3>1. CASE j < n
      <4>1. j \in 1..Len(p)
        BY <1>0, <2>1, <2>2, <3>1
      <4>2. QED
        BY <3>1, <4>1
    <3>2. CASE j > n
      <4>1. j - 1 \in 1..Len(p) /\ ~(j - 1 < n) /\ (j - 1) + 1 = j
        BY <1>0, <2>1, <2>2, <3>2
      <4>2. QED
        BY <4>1
    <3>3. QED
      BY <2>1, <3>1, <3>2
  <2>5. \A i, j \in 1..Len(p) :
           (IF i < n THEN i ELSE i + 1) = (IF j < n THEN j ELSE j + 1) => i = j
    BY <1>0, <2>1, <2>2
  <2>6. MapOK(p)
    BY <2>2, <2>3, <2>5 DEF MapOK
  <2>7. \A j \in 1..Len(m) : m[j].key = k <=> j = n
    BY <2>1 DEF MapOK
  <2>8. Entries(p) = But(m, k)
    <3>1. ASSUME NEW i \in 1..Len(p) PROVE p[i] \in But(m, k)
      <4>1. PICK j \in (1..Len(m)) \ {n} : p[i] = m[j]
        BY <2>2, <2>3
      <4>2. QED
        BY <2>7, <4>1 DEF Entries, But
    <3>2. ASSUME NEW j \in 1..Len(m), m[j].key # k PROVE m[j] \in Entries(p)
      <4>1. PICK i \in 1..Len(p) : (IF i < n THEN i ELSE i + 1) = j
        BY <2>4, <2>7, <3>2
      <4>2. p[i] = m[j]
        BY <2>2, <4>1
      <4>3. QED
        BY <4>2 DEF Entries
    <3>3. QED
      BY <3>1, <3>2 DEF Entries, But
  <2>9. Map!Without(m, k) = p
    BY <1>2 DEF Map!Without, p, n
  <2>10. QED
    BY <1>0, <1>2, <2>1, <2>2, <2>6, <2>8, <2>9
<1>3. QED
  BY <1>1, <1>2

LEMMA AddedIs ==
    ASSUME NEW m, MapOK(m), NEW e, \A d \in Entries(m) : d.key # e.key
    PROVE  LET p == Append(m, e)
           IN  MapOK(p) /\ Entries(p) = Entries(m) \cup {e} /\ Len(p) = Len(m) + 1
<1> DEFINE p == Append(m, e)
<1>1. /\ IsSeq(p) /\ Len(p) = Len(m) + 1 /\ p[Len(m) + 1] = e /\ Len(m) \in Nat
      /\ \A i \in 1..Len(m) : p[i] = m[i]
      /\ \A i \in 1..Len(p) : i \in 1..Len(m) \/ i = Len(m) + 1
  BY Appended, SeqDomain DEF MapOK
<1> HIDE DEF p
<1>2. \A i \in 1..Len(m) : i \in 1..Len(p) /\ m[i].key # e.key
  BY <1>1 DEF Entries
<1>3. Len(m) + 1 \in 1..Len(p)
  BY <1>1
<1>4. MapOK(p)
  BY <1>1, <1>2 DEF MapOK
<1>5. Entries(p) = Entries(m) \cup {e}
  BY <1>1, <1>2, <1>3 DEF Entries
<1>6. QED
  BY <1>1, <1>4, <1>5 DEF p

LEMMA TouchedIs ==
    ASSUME NEW m, MapOK(m), NEW k, NEW v
    PROVE  LET p == Map!Touched(m, k, v)
           IN  /\ MapOK(p) /\ Entries(p) = But(m, k) \cup {[key |-> k, value |-> v]}
               /\ Len(p) = (IF k \in Map!Keys(m) THEN Len(m) ELSE Len(m) + 1)
               /\ p # <<>> /\ Len(p) \in Nat
<1> DEFINE w == Map!Without(m, k)
           e == [key |-> k, value |-> v]
<1>1. /\ MapOK(w) /\ Entries(w) = But(m, k) /\ Len(w) \in Nat /\ Len(m) \in Nat
      /\ Len(w) = (IF k \in Map!Keys(m) THEN Len(m) - 1 ELSE Len(m))
  BY WithoutIs
<1>2. e.key = k /\ \A d \in But(m, k) : d.key # k
  BY DEF But
<1> HIDE DEF w, e
<1> DEFINE p == Append(w, e)
<1>3. MapOK(p) /\ Entries(p) = Entries(w) \cup {e} /\ Len(p) = Len(w) + 1
  BY <1>1, <1>2, AddedIs
<1>4. Map!Touched(m, k, v) = p
  BY DEF Map!Touched, w, e
<1> HIDE DEF p
<1>5. p # <<>>
  BY <1>1, <1>3, EmptySeq
<1>6. QED
  BY <1>1, <1>3, <1>4, <1>5 DEF e

LEMMA TailIs ==
    ASSUME NEW m, MapOK(m), m # <<>>
    PROVE  /\ MapOK(Tail(m)) /\ Entries(Tail(m)) = But(m, Head(m).key)
           /\ Head(m) \in Entries(m)
           /\ Len(Tail(m)) = Len(m) - 1 /\ Len(m) \in Nat
<1> DEFINE p == Tail(m)
<1>1. /\ IsSeq(p) /\ Len(p) = Len(m) - 1 /\ Len(m) > 0 /\ Head(m) = m[1] /\ Len(m) \in Nat
      /\ \A i \in 1..Len(p) : p[i] = m[i + 1]
  BY WithoutHead, SeqDomain DEF MapOK
<1> HIDE DEF p
<1>2. \A i \in 1..Len(p) : i + 1 \in (1..Len(m)) \ {1}
  BY <1>1
<1>3. \A j \in (1..Len(m)) \ {1} : j - 1 \in 1..Len(p) /\ (j - 1) + 1 = j
  BY <1>1
<1>4. \A j \in 1..Len(m) : m[j].key = m[1].key <=> j = 1
  BY <1>1 DEF MapOK
<1>5. MapOK(p)
  <2> SUFFICES ASSUME NEW i \in 1..Len(p), NEW j \in 1..Len(p), p[i].key = p[j].key PROVE i = j
    BY <1>1 DEF MapOK
  <2>1. m[i + 1].key = m[j + 1].key
    BY <1>1
  <2>2. i + 1 = j + 1
    BY <1>2, <2>1 DEF MapOK
  <2>3. QED
    BY <2>2
<1>6. Entries(p) \subseteq But(m, m[1].key)
  <2> SUFFICES ASSUME NEW i \in 1..Len(p) PROVE p[i] \in But(m, m[1].key)
    BY DEF Entries
  <2>1. PICK j \in (1..Len(m)) \ {1} : p[i] = m[j]
    BY <1>1, <1>2
  <2>2. QED
    BY <1>4, <2>1 DEF Entries, But
<1>7. But(m, m[1].key) \subseteq Entries(p)
  <2> SUFFICES ASSUME NEW j \in 1..Len(m), m[j].key # m[1].key PROVE m[j] \in Entries(p)
    BY DEF But, Entries
  <2>1. j - 1 \in 1..Len(p) /\ p[j - 1] = m[(j - 1) + 1] /\ (j - 1) + 1 = j
    BY <1>1, <1>3, <1>4
  <2>2. QED
    BY <2>1 DEF Entries
<1>8. Head(m) \in Entries(m)
  BY <1>1 DEF Entries
<1>9. QED
  BY <1>1, <1>5, <1>6, <1>7, <1>8 DEF p

-----------------------------------------------------------------------------
(* Records, by their ids.  c gives the call a record is of: 1..n numbers them. *)

Numbered(c) == \E n \in Nat : DOMAIN c = 1..n

Known(r, c) ==
    /\ r.id \in DOMAIN c
    /\ r.key = c[r.id].key /\ r.trace = c[r.id].trace
    /\ r.severe = c[r.id].severe /\ r.refused = c[r.id].refused /\ r.cyclic = c[r.id].cyclic

Ids(q) == {q[i].id : i \in 1..Len(q)}
Uniq(q) == \A i, j \in 1..Len(q) : q[i].id = q[j].id => i = j
RecordsOK(q, c) == IsSeq(q) /\ Uniq(q) /\ \A i \in 1..Len(q) : Known(q[i], c)

LEMMA IdsAre == ASSUME NEW q, IsSeq(q) PROVE Sampling!Ids(q) = Ids(q)
  BY SeqDomain DEF Sampling!Ids, Ids

LEMMA IdsKnown ==
    ASSUME NEW c, Numbered(c), NEW q, RecordsOK(q, c)
    PROVE  Ids(q) \subseteq DOMAIN c /\ Ids(q) \subseteq Nat
  BY DEF Numbered, RecordsOK, Ids, Known

LEMMA CountIds ==
    ASSUME NEW q, IsSeq(q), Uniq(q)
    PROVE  IsFiniteSet(Ids(q)) /\ Cardinality(Ids(q)) = Len(q) /\ Len(q) \in Nat
<1>1. Len(q) \in Nat
  BY DEF IsSeq
<1>2. IsFiniteSet(1..Len(q)) /\ Cardinality(1..Len(q)) = Len(q)
  <2>1. 1 \in Int /\ Len(q) \in Int /\ (1 > Len(q) => Len(q) = 0) /\ Len(q) - 1 + 1 = Len(q)
    BY <1>1
  <2>2. QED
    BY <2>1, FS_Interval
<1> DEFINE f == [i \in 1..Len(q) |-> q[i].id]
<1>3. f \in Bijection(1..Len(q), Ids(q))
  BY DEF Bijection, Injection, IsInjective, Surjection, Ids, Uniq
<1>4. ExistsBijection(1..Len(q), Ids(q))
  BY <1>3 DEF ExistsBijection
<1>5. IsFiniteSet(Ids(q)) /\ Cardinality(Ids(q)) = Cardinality(1..Len(q))
  BY <1>2, <1>4, FS_Bijection
<1>6. QED
  BY <1>1, <1>2, <1>5

LEMMA IdsAppended ==
    ASSUME NEW c, NEW q, RecordsOK(q, c), NEW e, Known(e, c), e.id \notin Ids(q)
    PROVE  RecordsOK(Append(q, e), c) /\ Ids(Append(q, e)) = Ids(q) \cup {e.id}
<1> DEFINE p == Append(q, e)
<1>1. /\ IsSeq(p) /\ Len(p) = Len(q) + 1 /\ p[Len(q) + 1] = e /\ Len(q) \in Nat
      /\ \A i \in 1..Len(q) : p[i] = q[i]
      /\ \A i \in 1..Len(p) : i \in 1..Len(q) \/ i = Len(q) + 1
  BY Appended, SeqDomain DEF RecordsOK
<1> HIDE DEF p
<1>2. (1..Len(q)) \cup {Len(q) + 1} = 1..Len(p)
  BY <1>1
<1>3. Ids(p) = Ids(q) \cup {e.id}
  BY <1>1, <1>2 DEF Ids
<1>4. \A i \in 1..Len(q) : q[i].id # e.id
  BY DEF Ids
<1>5. Uniq(p)
  BY <1>1, <1>4 DEF Uniq, RecordsOK
<1>6. \A i \in 1..Len(p) : Known(p[i], c)
  BY <1>1 DEF RecordsOK
<1>7. QED
  BY <1>1, <1>3, <1>5, <1>6 DEF RecordsOK, p

Disjoint(p, q) == Ids(p) \cap Ids(q) = {}
JoinedOK(p, q, c) == RecordsOK(p \o q, c) /\ Ids(p \o q) = Ids(p) \cup Ids(q)

LEMMA IdsJoined ==
    ASSUME NEW c, NEW p, NEW q, RecordsOK(p, c), RecordsOK(q, c), Disjoint(p, q)
    PROVE  JoinedOK(p, q, c)
<1> DEFINE r == p \o q
           n == Len(p)
<1>1. /\ IsSeq(r) /\ Len(r) = n + Len(q)
      /\ \A i \in 1..n : r[i] = p[i]
      /\ \A i \in 1..Len(q) : r[n + i] = q[i]
      /\ \A i \in 1..Len(r) : i \in 1..n \/ i - n \in 1..Len(q)
  BY Joined DEF RecordsOK
<1>2. n \in Nat /\ Len(q) \in Nat
  BY DEF RecordsOK, IsSeq
<1> HIDE DEF r, n
<1>3. ASSUME NEW i \in 1..Len(r), i - n \in 1..Len(q) PROVE r[i] = q[i - n]
  <2>1. n + (i - n) = i
    BY <1>1, <1>2
  <2>2. QED
    BY <1>1, <1>3, <2>1
<1>4. \A i \in 1..Len(r) : \/ i \in 1..n /\ r[i] = p[i]
                           \/ i - n \in 1..Len(q) /\ r[i] = q[i - n]
  BY <1>1, <1>3
<1>5. Ids(r) = Ids(p) \cup Ids(q)
  <2>1. \A i \in 1..Len(r) : r[i].id \in Ids(p) \cup Ids(q)
    BY <1>4 DEF Ids, n
  <2>2. ASSUME NEW i \in 1..Len(p) PROVE p[i].id \in Ids(r)
    <3>1. i \in 1..Len(r) /\ r[i] = p[i]
      BY <1>1, <1>2 DEF n
    <3>2. QED
      BY <3>1 DEF Ids
  <2>3. ASSUME NEW i \in 1..Len(q) PROVE q[i].id \in Ids(r)
    <3>1. n + i \in 1..Len(r) /\ r[n + i] = q[i]
      BY <1>1, <1>2
    <3>2. QED
      BY <3>1 DEF Ids
  <2>4. QED
    BY <2>1, <2>2, <2>3 DEF Ids
<1>6. Uniq(r)
  <2> SUFFICES ASSUME NEW i \in 1..Len(r), NEW j \in 1..Len(r), r[i].id = r[j].id PROVE i = j
    BY DEF Uniq
  <2>1. CASE i \in 1..n /\ j \in 1..n /\ r[i] = p[i] /\ r[j] = p[j]
    BY <2>1 DEF RecordsOK, Uniq, n
  <2>2. CASE i - n \in 1..Len(q) /\ j - n \in 1..Len(q) /\ r[i] = q[i - n] /\ r[j] = q[j - n]
    <3>1. i - n = j - n
      BY <2>2 DEF RecordsOK, Uniq
    <3>2. QED
      BY <1>1, <1>2, <3>1
  <2>3. CASE i \in 1..n /\ r[i] = p[i] /\ j - n \in 1..Len(q) /\ r[j] = q[j - n]
    BY <2>3 DEF Ids, n, Disjoint
  <2>4. CASE j \in 1..n /\ r[j] = p[j] /\ i - n \in 1..Len(q) /\ r[i] = q[i - n]
    BY <2>4 DEF Ids, n, Disjoint
  <2>5. QED
    BY <1>4, <2>1, <2>2, <2>3, <2>4
<1>7. \A i \in 1..Len(r) : Known(r[i], c)
  BY <1>4 DEF RecordsOK, n
<1>8. QED
  BY <1>1, <1>5, <1>6, <1>7 DEF RecordsOK, r, JoinedOK

LEMMA IdsTail ==
    ASSUME NEW c, NEW q, RecordsOK(q, c), q # <<>>
    PROVE  /\ RecordsOK(Tail(q), c) /\ Ids(Tail(q)) = Ids(q) \ {Head(q).id}
           /\ Known(Head(q), c) /\ Head(q).id \in Ids(q)
<1> DEFINE p == Tail(q)
<1>1. /\ IsSeq(p) /\ Len(p) = Len(q) - 1 /\ Len(q) > 0 /\ Head(q) = q[1] /\ Len(q) \in Nat
      /\ \A i \in 1..Len(p) : p[i] = q[i + 1]
  BY WithoutHead, SeqDomain DEF RecordsOK
<1> HIDE DEF p
<1>2. \A i \in 1..Len(p) : i + 1 \in (1..Len(q)) \ {1}
  BY <1>1
<1>3. \A j \in (1..Len(q)) \ {1} : j - 1 \in 1..Len(p) /\ (j - 1) + 1 = j
  BY <1>1
<1>4. 1 \in 1..Len(q)
  BY <1>1
<1>5. \A j \in 1..Len(q) : q[j].id = q[1].id <=> j = 1
  BY <1>4 DEF RecordsOK, Uniq
<1>6. \A i \in 1..Len(p) : p[i].id \in Ids(q) /\ p[i].id # q[1].id
  BY <1>1, <1>2, <1>5 DEF Ids
<1>7. ASSUME NEW j \in 1..Len(q), q[j].id # q[1].id PROVE q[j].id \in Ids(p)
  <2>1. j - 1 \in 1..Len(p) /\ p[j - 1] = q[(j - 1) + 1] /\ (j - 1) + 1 = j
    BY <1>1, <1>3, <1>7
  <2>2. QED
    BY <2>1 DEF Ids
<1>8. Ids(p) = Ids(q) \ {q[1].id}
  BY <1>6, <1>7 DEF Ids
<1>9. Uniq(p)
  <2> SUFFICES ASSUME NEW i \in 1..Len(p), NEW j \in 1..Len(p), p[i].id = p[j].id PROVE i = j
    BY DEF Uniq
  <2>1. i + 1 = j + 1
    BY <1>1, <1>2 DEF RecordsOK, Uniq
  <2>2. QED
    BY <2>1
<1>10. \A i \in 1..Len(p) : Known(p[i], c)
  BY <1>1, <1>2 DEF RecordsOK
<1>11. Known(Head(q), c) /\ Head(q).id \in Ids(q)
  BY <1>1, <1>4 DEF RecordsOK, Ids
<1>12. QED
  BY <1>1, <1>8, <1>9, <1>10, <1>11 DEF RecordsOK, p

\* The first of some records, in the order they have.
LEMMA IdsOfPart ==
    ASSUME NEW c, NEW q, RecordsOK(q, c), NEW n \in 0..Len(q)
    PROVE  LET p == SubSeq(q, 1, n)
           IN  RecordsOK(p, c) /\ Len(p) = n /\ Ids(p) = {q[i].id : i \in 1..n}
<1> DEFINE p == SubSeq(q, 1, n)
<1>1. Len(q) \in Nat /\ 1 \in 1..(Len(q) + 1) /\ n \in (1 - 1)..Len(q)
  BY DEF RecordsOK, IsSeq
<1>2. IsSeq(p) /\ Len(p) = n - 1 + 1 /\ \A i \in 1..Len(p) : p[i] = q[1 + i - 1]
  BY <1>1, Part DEF RecordsOK
<1> HIDE DEF p
<1>3. Len(p) = n /\ \A i \in 1..n : i \in 1..Len(q) /\ p[i] = q[i]
  BY <1>1, <1>2
<1>4. RecordsOK(p, c)
  BY <1>2, <1>3 DEF RecordsOK, Uniq
<1>5. QED
  BY <1>3, <1>4 DEF Ids, p

-----------------------------------------------------------------------------
(* SamplingPlugin's buffer. *)

InOrder(q) == \A i, j \in 1..Len(q) : i < j => q[i].id < q[j].id

EntryOK(e, c) ==
    /\ RecordsOK(e.value, c) /\ InOrder(e.value) /\ e.value # <<>>
    /\ \A i \in 1..Len(e.value) : e.value[i].trace = e.key

BufferOK(m, c) == MapOK(m) /\ \A e \in Entries(m) : EntryOK(e, c)

HeldIn(entries) == UNION {Ids(e.value) : e \in entries}
Held(m) == HeldIn(Entries(m))

LEMMA HeldInMore ==
    ASSUME NEW E, NEW e
    PROVE  HeldIn(E \cup {e}) = HeldIn(E) \cup Ids(e.value)
<1>1. \A i : i \in HeldIn(E \cup {e}) <=> \E d \in E \cup {e} : i \in Ids(d.value)
  BY DEF HeldIn
<1>2. \A i : i \in HeldIn(E) <=> \E d \in E : i \in Ids(d.value)
  BY DEF HeldIn
<1>3. QED
  BY <1>1, <1>2

LEMMA SamplingMaps ==
    /\ Sampling!EmptyMap = <<>>
    /\ \A m : Sampling!Keys(m) = Map!Keys(m)
    /\ \A m, k : Sampling!At(m, k) = Map!At(m, k)
    /\ \A m, k : Sampling!Without(m, k) = Map!Without(m, k)
    /\ \A m, k, v : Sampling!Touched(m, k, v) = Map!Touched(m, k, v)
<1>1. \A m : Sampling!Keys(m) = Map!Keys(m)
  BY DEF Sampling!Keys, Map!Keys
<1>2. \A m, k : Sampling!PlaceOf(m, k) = Map!PlaceOf(m, k)
  BY DEF Sampling!PlaceOf, Map!PlaceOf
<1>3. \A m, k : Sampling!At(m, k) = Map!At(m, k)
  BY <1>2 DEF Sampling!At, Map!At
<1>4. \A m, n : Sampling!RemoveAt(m, n) = Map!RemoveAt(m, n)
  BY DEF Sampling!RemoveAt, Map!RemoveAt
<1>5. \A m, k : Sampling!Without(m, k) = Map!Without(m, k)
  BY <1>1, <1>2, <1>4 DEF Sampling!Without, Map!Without
<1>6. \A m, k, v : Sampling!Touched(m, k, v) = Map!Touched(m, k, v)
  BY <1>5 DEF Sampling!Touched, Map!Touched
<1>7. Sampling!EmptyMap = <<>>
  BY DEF Sampling!EmptyMap
<1>8. QED
  BY <1>1, <1>3, <1>5, <1>6, <1>7

\* A record is held for its trace.
LEMMA HeldOnce ==
    ASSUME NEW c, NEW m, BufferOK(m, c), NEW d \in Entries(m), NEW e \in Entries(m),
           NEW i \in Ids(d.value), i \in Ids(e.value)
    PROVE  d = e /\ c[i].trace = d.key
<1>1. ASSUME NEW f \in Entries(m), i \in Ids(f.value) PROVE c[i].trace = f.key
  <2>1. PICK n \in 1..Len(f.value) : f.value[n].id = i
    BY <1>1 DEF Ids
  <2>2. f.value[n].trace = f.key /\ Known(f.value[n], c)
    BY <2>1 DEF BufferOK, EntryOK, RecordsOK
  <2>3. QED
    BY <2>1, <2>2 DEF Known
<1>2. c[i].trace = d.key /\ c[i].trace = e.key
  BY <1>1
<1>3. MapOK(m)
  BY DEF BufferOK
<1>4. d = e
  BY <1>2, <1>3, KeysOfEntries
<1>5. QED
  BY <1>2, <1>4

LEMMA NumberedFinite ==
    ASSUME NEW c, Numbered(c), NEW T \in SUBSET (DOMAIN c)
    PROVE  IsFiniteSet(T) /\ Cardinality(T) \in Nat /\ T \subseteq Nat
<1>1. PICK n \in Nat : DOMAIN c = 1..n
  BY DEF Numbered
<1>2. IsFiniteSet(1..n)
  BY <1>1, FS_Interval
<1>3. IsFiniteSet(DOMAIN c)
  BY <1>1, <1>2
<1>4. IsFiniteSet(T)
  BY <1>3, FS_Subset
<1>5. QED
  BY <1>1, <1>4, FS_CardinalityType

LEMMA HeldKnown ==
    ASSUME NEW c, Numbered(c), NEW m, BufferOK(m, c)
    PROVE  /\ Held(m) \subseteq DOMAIN c /\ Held(m) \subseteq Nat
           /\ IsFiniteSet(Held(m)) /\ Cardinality(Held(m)) \in Nat
<1>1. Held(m) \subseteq DOMAIN c
  BY IdsKnown DEF Held, HeldIn, BufferOK, EntryOK
<1>2. QED
  BY <1>1, NumberedFinite

LEMMA EntryHeld ==
    ASSUME NEW c, Numbered(c), NEW m, BufferOK(m, c), NEW e \in Entries(m)
    PROVE  /\ Ids(e.value) \subseteq Held(m)
           /\ IsFiniteSet(Ids(e.value)) /\ Cardinality(Ids(e.value)) = Len(e.value)
           /\ Len(e.value) \in Nat \ {0}
<1>1. IsSeq(e.value) /\ Uniq(e.value) /\ e.value # <<>>
  BY DEF BufferOK, EntryOK, RecordsOK
<1>2. Len(e.value) > 0
  BY <1>1, WithoutHead
<1>3. QED
  BY <1>1, <1>2, CountIds DEF Held, HeldIn

\* A trace leaves the buffer.
LEMMA EntryLeaves ==
    ASSUME NEW c, Numbered(c), NEW m, BufferOK(m, c), NEW e \in Entries(m),
           NEW p, MapOK(p), Entries(p) = But(m, e.key)
    PROVE  /\ BufferOK(p, c) /\ Held(p) = Held(m) \ Ids(e.value)
           /\ Cardinality(Held(p)) = Cardinality(Held(m)) - Len(e.value)
           /\ Map!Keys(p) = Map!Keys(m) \ {e.key}
<1>1. MapOK(m)
  BY DEF BufferOK
<1>2. Entries(p) = Entries(m) \ {e}
  BY <1>1, KeysOfEntries DEF But
<1>3. BufferOK(p, c)
  BY <1>2 DEF BufferOK
<1>4. Held(p) = Held(m) \ Ids(e.value)
  <2>1. ASSUME NEW i, i \in Held(p) PROVE i \in Held(m) /\ i \notin Ids(e.value)
    <3>1. PICK d \in Entries(p) : i \in Ids(d.value)
      BY <2>1 DEF Held, HeldIn
    <3>2. d \in Entries(m) /\ d # e
      BY <1>2
    <3>3. i \notin Ids(e.value)
      BY <3>1, <3>2, HeldOnce
    <3>4. QED
      BY <3>1, <3>2, <3>3 DEF Held, HeldIn
  <2>2. ASSUME NEW i, i \in Held(m), i \notin Ids(e.value) PROVE i \in Held(p)
    BY <1>2, <2>2 DEF Held, HeldIn
  <2>3. QED
    BY <2>1, <2>2
<1>5. Cardinality(Held(p)) = Cardinality(Held(m)) - Len(e.value)
  <2> DEFINE H == Held(m)
             I == Ids(e.value)
  <2>1. IsFiniteSet(H) /\ IsFiniteSet(I) /\ I \subseteq H /\ Cardinality(I) = Len(e.value)
    BY HeldKnown, EntryHeld
  <2> HIDE DEF H, I
  <2>2. Cardinality(H \ I) = Cardinality(H) - Cardinality(H \cap I) /\ H \cap I = I
    BY <2>1, FS_Difference
  <2>3. QED
    BY <1>4, <2>1, <2>2 DEF H, I
<1>6. Map!Keys(p) = Map!Keys(m) \ {e.key}
  BY <1>1, <1>2, KeysOfEntries
<1>7. QED
  BY <1>3, <1>4, <1>5, <1>6

\* A record joins the buffer, behind the others of its trace.
LEMMA RecordJoins ==
    ASSUME NEW c, Numbered(c), NEW m, BufferOK(m, c), NEW r, Known(r, c),
           \A i \in Held(m) : i < r.id
    PROVE  LET old == IF r.trace \in Map!Keys(m) THEN Map!At(m, r.trace) ELSE <<>>
               p   == Map!Touched(m, r.trace, Append(old, r))
           IN  /\ BufferOK(p, c) /\ Held(p) = Held(m) \cup {r.id} /\ p # <<>>
               /\ Cardinality(Held(p)) = Cardinality(Held(m)) + 1
               /\ Map!Keys(p) = Map!Keys(m) \cup {r.trace}
               /\ Len(p) = (IF r.trace \in Map!Keys(m) THEN Len(m) ELSE Len(m) + 1)
<1> DEFINE old == IF r.trace \in Map!Keys(m) THEN Map!At(m, r.trace) ELSE <<>>
           e   == [key |-> r.trace, value |-> Append(old, r)]
           p   == Map!Touched(m, r.trace, Append(old, r))
<1>1. MapOK(m) /\ r.id \in Nat
  BY DEF BufferOK, Known, Numbered
<1>2. /\ RecordsOK(old, c) /\ InOrder(old) /\ \A i \in 1..Len(old) : old[i].trace = r.trace
      /\ Held(m) = HeldIn(But(m, r.trace)) \cup Ids(old)
  <2>1. CASE r.trace \notin Map!Keys(m)
    <3>1. old = <<>> /\ Len(old) = 0 /\ IsSeq(old)
      BY <2>1, EmptySeq DEF IsSeq
    <3>2. Ids(old) = {} /\ But(m, r.trace) = Entries(m)
      BY <1>1, <2>1, <3>1, KeysOfEntries DEF Ids, But
    <3> HIDE DEF old
    <3>3. RecordsOK(old, c) /\ InOrder(old)
      BY <3>1 DEF RecordsOK, InOrder, Uniq
    <3>4. QED
      BY <3>1, <3>2, <3>3 DEF Held, HeldIn
  <2>2. CASE r.trace \in Map!Keys(m)
    <3>1. PICK d \in Entries(m) : d.key = r.trace
      BY <1>1, <2>2, KeysOfEntries
    <3>2. old = d.value
      BY <1>1, <2>2, <3>1, AtIs
    <3>3. Entries(m) = But(m, r.trace) \cup {d}
      BY <1>1, <3>1, KeysOfEntries DEF But
    <3>4. EntryOK(d, c)
      BY <3>1 DEF BufferOK
    <3> HIDE DEF old
    <3>5. QED
      BY <3>1, <3>2, <3>3, <3>4, HeldInMore DEF EntryOK, Held
  <2>3. QED
    BY <2>1, <2>2
<1> HIDE DEF old
<1>3. r.id \notin Ids(old) /\ \A i \in Ids(old) : i < r.id
  <2>1. Ids(old) \subseteq Held(m)
    BY <1>2
  <2>2. \A i \in Ids(old) : i < r.id
    BY <2>1
  <2>3. QED
    BY <1>1, <2>2
<1>4. RecordsOK(e.value, c) /\ Ids(e.value) = Ids(old) \cup {r.id}
  BY <1>2, <1>3, IdsAppended
<1>5. /\ Len(e.value) = Len(old) + 1 /\ e.value[Len(old) + 1] = r /\ Len(old) \in Nat
      /\ \A i \in 1..Len(old) : e.value[i] = old[i]
      /\ \A i \in 1..Len(e.value) : i \in 1..Len(old) \/ i = Len(old) + 1
  BY <1>2, Appended, SeqDomain DEF RecordsOK
<1>6. e.key = r.trace
  OBVIOUS
<1>7. /\ MapOK(p) /\ Entries(p) = But(m, r.trace) \cup {e} /\ p # <<>>
      /\ Len(p) = (IF r.trace \in Map!Keys(m) THEN Len(m) ELSE Len(m) + 1)
  BY <1>1, TouchedIs
<1> HIDE DEF e, p
<1>8. EntryOK(e, c)
  <2>1. InOrder(e.value)
    <3> SUFFICES ASSUME NEW i \in 1..Len(e.value), NEW j \in 1..Len(e.value), i < j
                 PROVE  e.value[i].id < e.value[j].id
      BY DEF InOrder
    <3>1. i \in 1..Len(old)
      BY <1>5
    <3>2. e.value[i].id = old[i].id /\ old[i].id \in Ids(old)
      BY <1>5, <3>1 DEF Ids
    <3>3. CASE j = Len(old) + 1
      BY <1>3, <1>5, <3>2, <3>3
    <3>4. CASE j \in 1..Len(old)
      BY <1>2, <1>5, <3>1, <3>2, <3>4 DEF InOrder
    <3>5. QED
      BY <1>5, <3>3, <3>4
  <2>2. \A i \in 1..Len(e.value) : e.value[i].trace = e.key
    BY <1>2, <1>5, <1>6
  <2>3. e.value # <<>>
    BY <1>5, EmptySeq
  <2>4. QED
    BY <1>4, <2>1, <2>2, <2>3 DEF EntryOK
<1>9. BufferOK(p, c)
  BY <1>7, <1>8 DEF BufferOK, But
<1>10. Held(p) = Held(m) \cup {r.id}
  <2>1. Held(p) = HeldIn(But(m, r.trace)) \cup Ids(e.value)
    BY <1>7, HeldInMore DEF Held
  <2>2. QED
    BY <1>2, <1>4, <2>1, Zenon
<1>11. r.id \notin Held(m)
  BY <1>1
<1>12. Cardinality(Held(p)) = Cardinality(Held(m)) + 1
  BY <1>10, <1>11, HeldKnown, FS_AddElement
<1>13. Map!Keys(p) = Map!Keys(m) \cup {r.trace}
  BY <1>1, <1>6, <1>7, KeysOfEntries DEF But
<1>14. QED
  BY <1>7, <1>9, <1>10, <1>12, <1>13 DEF p, old

-----------------------------------------------------------------------------
(* SamplingPlugin's state. *)

\* What is lost follows a refused record of its trace that is lost too.
LostBehind(lost, c) ==
    \A i \in lost : \E j \in lost : j <= i /\ c[j].trace = c[i].trace /\ c[j].refused

SamplingShape(s, c) ==
    /\ s = [buffer |-> s.buffer, bufferedCount |-> s.bufferedCount, elevated |-> s.elevated,
            evicted |-> s.evicted, lost |-> s.lost]
    /\ BufferOK(s.buffer, c) /\ s.bufferedCount = Cardinality(Held(s.buffer))
    /\ Map!Keys(s.buffer) \cap s.elevated = {} /\ NoTrace \notin s.elevated
    /\ s.evicted \subseteq DOMAIN c /\ s.lost \subseteq DOMAIN c
    /\ Held(s.buffer) \cap s.evicted = {} /\ Held(s.buffer) \cap s.lost = {}
    /\ s.evicted \cap s.lost = {}
    /\ LostBehind(s.lost, c)

SamplingBounds(s) ==
    /\ s.bufferedCount <= MaxBufferedRecords
    /\ MaxTraces > 0 => Len(s.buffer) <= MaxTraces

AllOf(s) == Held(s.buffer) \cup s.evicted \cup s.lost
Behind(s, r) == \A i \in AllOf(s) : i < r.id
Unelevated(s, r) == r.trace \notin s.elevated

LEMMA Evicts ==
    ASSUME NEW c, Numbered(c), NEW s, SamplingShape(s, c), s.buffer # <<>>
    PROVE  LET v == Sampling!EvictOldestTrace(s)
           IN  /\ SamplingShape(v, c) /\ AllOf(v) = AllOf(s) /\ v.elevated = s.elevated
               /\ v.bufferedCount < s.bufferedCount
               /\ v.bufferedCount \in Nat /\ s.bufferedCount \in Nat
               /\ Len(v.buffer) = Len(s.buffer) - 1 /\ Len(s.buffer) \in Nat
               /\ Map!Keys(v.buffer) = Map!Keys(s.buffer) \ {Head(s.buffer).key}
<1> DEFINE m == s.buffer
           e == Head(s.buffer)
           v == Sampling!EvictOldestTrace(s)
<1>1. MapOK(m) /\ BufferOK(m, c)
  BY DEF SamplingShape, BufferOK
<1>2. /\ MapOK(Tail(m)) /\ Entries(Tail(m)) = But(m, e.key) /\ e \in Entries(m)
      /\ Len(Tail(m)) = Len(m) - 1 /\ Len(m) \in Nat
  BY <1>1, TailIs
<1>3. /\ Ids(e.value) \subseteq Held(m) /\ Len(e.value) \in Nat \ {0}
  BY <1>1, <1>2, EntryHeld
<1>4. /\ BufferOK(Tail(m), c) /\ Held(Tail(m)) = Held(m) \ Ids(e.value)
      /\ Cardinality(Held(Tail(m))) = Cardinality(Held(m)) - Len(e.value)
      /\ Map!Keys(Tail(m)) = Map!Keys(m) \ {e.key}
  BY <1>1, <1>2, EntryLeaves
<1>5. /\ Cardinality(Held(m)) \in Nat /\ Held(m) \subseteq DOMAIN c
      /\ Cardinality(Held(Tail(m))) \in Nat
  BY <1>1, <1>4, HeldKnown
<1>6. Sampling!Ids(e.value) = Ids(e.value)
  BY <1>1, <1>2, IdsAre DEF BufferOK, EntryOK, RecordsOK
<1>7. /\ v.buffer = Tail(m) /\ v.bufferedCount = s.bufferedCount - Len(e.value)
      /\ v.evicted = s.evicted \cup Ids(e.value) /\ v.lost = s.lost /\ v.elevated = s.elevated
      /\ v = [buffer |-> v.buffer, bufferedCount |-> v.bufferedCount, elevated |-> v.elevated,
              evicted |-> v.evicted, lost |-> v.lost]
  <2>1. s = [buffer |-> s.buffer, bufferedCount |-> s.bufferedCount, elevated |-> s.elevated,
             evicted |-> s.evicted, lost |-> s.lost]
    BY DEF SamplingShape
  <2>2. v = [s EXCEPT !.buffer = Tail(@), !.bufferedCount = @ - Len(e.value),
                      !.evicted = @ \cup Ids(e.value)]
    BY <1>6 DEF Sampling!EvictOldestTrace
  <2> HIDE DEF v, e
  <2>3. QED
    BY <2>1, <2>2
<1> HIDE DEF m, e, v
<1>8. s.bufferedCount = Cardinality(Held(m)) /\ m = s.buffer
  BY DEF SamplingShape, m
<1>9. SamplingShape(v, c)
  <2>1. v.bufferedCount = Cardinality(Held(v.buffer))
    BY <1>4, <1>7, <1>8
  <2>2. Map!Keys(v.buffer) \cap v.elevated = {}
    BY <1>4, <1>7, <1>8 DEF SamplingShape
  <2>3. /\ Held(v.buffer) \cap v.evicted = {} /\ Held(v.buffer) \cap v.lost = {}
        /\ v.evicted \cap v.lost = {} /\ v.evicted \subseteq DOMAIN c
    BY <1>3, <1>4, <1>5, <1>7, <1>8 DEF SamplingShape
  <2>4. QED
    BY <1>4, <1>7, <2>1, <2>2, <2>3 DEF SamplingShape
<1>10. AllOf(v) = AllOf(s)
  BY <1>3, <1>4, <1>7, <1>8 DEF AllOf
<1>11. v.bufferedCount < s.bufferedCount /\ v.bufferedCount \in Nat
  BY <1>3, <1>4, <1>5, <1>7, <1>8
<1>12. QED
  BY <1>2, <1>4, <1>5, <1>7, <1>8, <1>9, <1>10, <1>11 DEF v, m, e

LEMMA Buffers ==
    ASSUME NEW c, Numbered(c), NEW s, SamplingShape(s, c), SamplingBounds(s), NEW r, Known(r, c),
           Unelevated(s, r), Behind(s, r)
    PROVE  LET v == Sampling!BufferRecord(s, r)
           IN  /\ SamplingShape(v.sampling, c) /\ SamplingBounds(v.sampling)
               /\ AllOf(v.sampling) = AllOf(s) \cup {r.id}
               /\ v.pass = FALSE /\ v.wrote = <<>>
<1> DEFINE full == r.trace \notin Sampling!Keys(s.buffer) /\ Len(s.buffer) >= MaxTraces
           room == IF full THEN Sampling!EvictOldestTrace(s) ELSE s
           new  == Append(Sampling!BufferedFor(s, r.trace), r)
           more == [room EXCEPT !.buffer = Sampling!Touched(@, r.trace, new),
                                !.bufferedCount = @ + 1]
           last == IF more.bufferedCount > MaxBufferedRecords
                   THEN Sampling!EvictOldestTrace(more) ELSE more
<1>1. Sampling!BufferRecord(s, r) = [sampling |-> last, pass |-> FALSE, wrote |-> <<>>]
  BY Zenon DEF Sampling!BufferRecord, Sampling!Verdict
<1> HIDE DEF last
<1>2. /\ MaxTraces \in Nat /\ MaxBufferedRecords \in Nat
      /\ Len(s.buffer) \in Nat /\ s.bufferedCount \in Nat
  BY Limits, HeldKnown, SeqDomain DEF SamplingShape, BufferOK, MapOK
<1>3. /\ SamplingShape(room, c) /\ AllOf(room) = AllOf(s) /\ room.elevated = s.elevated
      /\ room.bufferedCount <= s.bufferedCount /\ room.bufferedCount \in Nat
      /\ Sampling!BufferedFor(s, r.trace) = Sampling!BufferedFor(room, r.trace)
      /\ Len(room.buffer) \in Nat
      /\ MaxTraces > 0 /\ r.trace \notin Map!Keys(room.buffer) => Len(room.buffer) < MaxTraces
      /\ MaxTraces > 0 => Len(room.buffer) <= MaxTraces
  <2>1. CASE ~full
    <3>1. room = s
      BY <2>1
    <3>2. r.trace \in Map!Keys(s.buffer) \/ Len(s.buffer) < MaxTraces
      BY <1>2, <2>1, SamplingMaps
    <3> HIDE DEF room, full
    <3>3. QED
      BY <1>2, <2>1, <3>1, <3>2 DEF SamplingBounds
  <2>2. CASE full /\ s.buffer = <<>>
    <3>1. room = s
      BY <2>2 DEF Sampling!EvictOldestTrace
    <3>2. r.trace \notin Map!Keys(s.buffer) /\ Len(s.buffer) >= MaxTraces /\ Len(s.buffer) = 0
      BY <2>2, SamplingMaps, EmptySeq
    <3> HIDE DEF room, full
    <3>3. QED
      BY <1>2, <3>1, <3>2
  <2>3. CASE full /\ s.buffer # <<>>
    <3>1. room = Sampling!EvictOldestTrace(s)
      BY <2>3
    <3>2. r.trace \notin Map!Keys(s.buffer) /\ Len(s.buffer) >= MaxTraces
      BY <2>3, SamplingMaps
    <3> HIDE DEF room, full
    <3>3. /\ SamplingShape(room, c) /\ AllOf(room) = AllOf(s) /\ room.elevated = s.elevated
          /\ room.bufferedCount < s.bufferedCount
          /\ room.bufferedCount \in Nat /\ s.bufferedCount \in Nat
          /\ Len(room.buffer) = Len(s.buffer) - 1 /\ Len(s.buffer) \in Nat
          /\ Map!Keys(room.buffer) = Map!Keys(s.buffer) \ {Head(s.buffer).key}
      BY <2>3, <3>1, Evicts
    <3>4. Len(room.buffer) \in Nat
      BY <3>3, SeqDomain DEF SamplingShape, BufferOK, MapOK
    <3>5. r.trace \notin Map!Keys(room.buffer)
      BY <3>2, <3>3
    <3>6. MaxTraces > 0 => Len(room.buffer) < MaxTraces
      BY <1>2, <3>3, <3>4 DEF SamplingBounds
    <3>7. Sampling!BufferedFor(s, r.trace) = Sampling!BufferedFor(room, r.trace)
      BY <3>2, <3>5, SamplingMaps DEF Sampling!BufferedFor
    <3>8. QED
      BY <1>2, <3>3, <3>4, <3>5, <3>6, <3>7
  <2>4. QED
    BY <2>1, <2>2, <2>3
<1> HIDE DEF room, full
<1> DEFINE old == IF r.trace \in Map!Keys(room.buffer) THEN Map!At(room.buffer, r.trace) ELSE <<>>
           p   == Map!Touched(room.buffer, r.trace, Append(old, r))
<1>4. new = Append(old, r)
  BY <1>3, SamplingMaps DEF Sampling!BufferedFor
<1>5. BufferOK(room.buffer, c) /\ \A i \in Held(room.buffer) : i < r.id
  BY <1>3 DEF SamplingShape, AllOf, Behind
<1>6. /\ BufferOK(p, c) /\ Held(p) = Held(room.buffer) \cup {r.id} /\ p # <<>>
      /\ Cardinality(Held(p)) = Cardinality(Held(room.buffer)) + 1
      /\ Map!Keys(p) = Map!Keys(room.buffer) \cup {r.trace}
      /\ Len(p) = (IF r.trace \in Map!Keys(room.buffer) THEN Len(room.buffer)
                   ELSE Len(room.buffer) + 1)
  BY <1>5, RecordJoins
<1>7. /\ more.buffer = p /\ more.bufferedCount = room.bufferedCount + 1
      /\ more.elevated = room.elevated /\ more.evicted = room.evicted /\ more.lost = room.lost
      /\ more = [buffer |-> more.buffer, bufferedCount |-> more.bufferedCount,
                 elevated |-> more.elevated, evicted |-> more.evicted, lost |-> more.lost]
  <2>1. room = [buffer |-> room.buffer, bufferedCount |-> room.bufferedCount,
                elevated |-> room.elevated, evicted |-> room.evicted, lost |-> room.lost]
    BY <1>3 DEF SamplingShape
  <2>2. Sampling!Touched(room.buffer, r.trace, new) = p
    BY <1>4, SamplingMaps
  <2>3. more = [room EXCEPT !.buffer = p, !.bufferedCount = @ + 1]
    BY <2>2
  <2> HIDE DEF p, new, more
  <2>4. QED
    BY <2>1, <2>3
<1> HIDE DEF more, p, old, new
<1>8. r.id \notin AllOf(s)
  <2>1. r.id \in Nat
    BY DEF Known, Numbered
  <2>2. QED
    BY <2>1 DEF Behind
<1>9. SamplingShape(more, c) /\ AllOf(more) = AllOf(s) \cup {r.id}
  <2>1. more.bufferedCount = Cardinality(Held(more.buffer))
    BY <1>3, <1>6, <1>7 DEF SamplingShape
  <2>2. Map!Keys(more.buffer) \cap more.elevated = {} /\ NoTrace \notin more.elevated
    BY <1>3, <1>6, <1>7 DEF SamplingShape, Unelevated
  <2>3. /\ Held(more.buffer) \cap more.evicted = {} /\ Held(more.buffer) \cap more.lost = {}
        /\ more.evicted \cap more.lost = {}
    BY <1>3, <1>6, <1>7, <1>8 DEF SamplingShape, AllOf
  <2>4. AllOf(more) = AllOf(s) \cup {r.id}
    BY <1>3, <1>6, <1>7 DEF AllOf
  <2>5. QED
    BY <1>3, <1>6, <1>7, <2>1, <2>2, <2>3, <2>4 DEF SamplingShape
<1>10. /\ Len(more.buffer) \in Nat /\ (MaxTraces > 0 => Len(more.buffer) <= MaxTraces)
       /\ more.bufferedCount <= MaxBufferedRecords + 1 /\ more.bufferedCount \in Nat
       /\ more.buffer # <<>>
  BY <1>2, <1>3, <1>6, <1>7 DEF SamplingBounds
<1>11. SamplingShape(last, c) /\ SamplingBounds(last) /\ AllOf(last) = AllOf(s) \cup {r.id}
  <2>1. CASE more.bufferedCount > MaxBufferedRecords
    <3>1. last = Sampling!EvictOldestTrace(more)
      BY <2>1 DEF last
    <3>2. /\ SamplingShape(last, c) /\ AllOf(last) = AllOf(more)
          /\ last.bufferedCount < more.bufferedCount /\ last.bufferedCount \in Nat
          /\ Len(last.buffer) = Len(more.buffer) - 1
      BY <1>9, <1>10, <3>1, Evicts
    <3>3. SamplingBounds(last)
      BY <1>2, <1>10, <2>1, <3>2 DEF SamplingBounds
    <3>4. QED
      BY <1>9, <3>2, <3>3
  <2>2. CASE ~(more.bufferedCount > MaxBufferedRecords)
    <3>1. last = more
      BY <2>2 DEF last
    <3>2. QED
      BY <1>2, <1>9, <1>10, <2>2, <3>1 DEF SamplingBounds
  <2>3. QED
    BY <2>1, <2>2
<1>12. QED
  BY <1>1, <1>11

-----------------------------------------------------------------------------
(* A trace is elevated. *)

LEMMA LeastByRelation ==
    ASSUME NEW R, IsWellFoundedOn(R, Nat), \A x, y \in Nat : <<y, x>> \in R <=> y < x,
           NEW T \in SUBSET Nat, T # {}
    PROVE  \E n \in T : \A m \in T : n <= m
<1>1. PICK n \in T : \A m \in T : ~(<<m, n>> \in R)
  BY WFMin
<1>2. \A m \in T : m \in Nat /\ n \in Nat /\ ~(m < n)
  BY <1>1
<1>3. \A m \in T : n <= m
  BY <1>2
<1>4. QED
  BY <1>3

LEMMA LeastNatural ==
    ASSUME NEW T \in SUBSET Nat, T # {}
    PROVE  \E n \in T : \A m \in T : n <= m
<1>1. IsWellFoundedOn(OpToRel(<, Nat), Nat)
  BY NatLessThanWellFounded, Zenon
<1>2. \A x, y \in Nat : <<y, x>> \in OpToRel(<, Nat) <=> y < x
  BY DEF OpToRel
<1>3. \E R : IsWellFoundedOn(R, Nat) /\ \A x, y \in Nat : <<y, x>> \in R <=> y < x
  BY <1>1, <1>2, Zenon
<1>4. PICK R : IsWellFoundedOn(R, Nat) /\ \A x, y \in Nat : <<y, x>> \in R <=> y < x
  BY <1>3
<1>5. QED
  BY <1>4, LeastByRelation

\* What is written ends before the first record that is refused.
LEMMA UpToThrowIs ==
    ASSUME NEW q, IsSeq(q)
    PROVE  \E n \in 0..Len(q) : /\ Sampling!UpToThrow(q) = SubSeq(q, 1, n)
                                /\ n < Len(q) => q[n + 1].refused
<1> DEFINE P(n) == /\ \A i \in 1..n : ~q[i].refused
                   /\ n < Len(q) => q[n + 1].refused
<1>1. Len(q) \in Nat
  BY DEF IsSeq
<1>2. \E n \in 0..Len(q) : P(n)
  <2> DEFINE T == {i \in 1..Len(q) : q[i].refused}
  <2>1. CASE T = {}
    <3>1. Len(q) \in 0..Len(q) /\ P(Len(q))
      BY <1>1, <2>1
    <3>2. QED
      BY <3>1
  <2>2. CASE T # {}
    <3>1. T \in SUBSET Nat
      BY <1>1
    <3>2. PICK k \in T : \A m \in T : k <= m
      <4> HIDE DEF T
      <4>1. QED
        BY <2>2, <3>1, LeastNatural
    <3>3. k \in 1..Len(q) /\ q[k].refused
      BY <3>2
    <3>4. k - 1 \in 0..Len(q) /\ (k - 1) + 1 = k
      BY <1>1, <3>3
    <3>5. \A i \in 1..(k - 1) : ~q[i].refused
      <4> SUFFICES ASSUME NEW i \in 1..(k - 1), q[i].refused PROVE FALSE
        OBVIOUS
      <4>1. i \in 1..Len(q) /\ ~(k <= i)
        BY <1>1, <3>3
      <4>2. QED
        BY <3>2, <4>1
    <3>6. QED
      BY <3>3, <3>4, <3>5
  <2>3. QED
    BY <2>1, <2>2
<1> DEFINE n == CHOOSE n \in 0..Len(q) : P(n)
<1>3. n \in 0..Len(q) /\ P(n)
  BY <1>2
<1>4. Sampling!UpToThrow(q) = SubSeq(q, 1, n)
  BY DEF Sampling!UpToThrow
<1> HIDE DEF n
<1>5. QED
  BY <1>3, <1>4

LEMMA TraceLeaves ==
    ASSUME NEW c, Numbered(c), NEW s, BufferOK(s.buffer, c), NEW t
    PROVE  LET q == Sampling!BufferedFor(s, t)
               m == s.buffer
               p == Sampling!Without(m, t)
           IN  /\ RecordsOK(q, c) /\ InOrder(q) /\ \A i \in 1..Len(q) : q[i].trace = t
               /\ Ids(q) \subseteq Held(m)
               /\ BufferOK(p, c) /\ Held(p) = Held(m) \ Ids(q)
               /\ Cardinality(Held(p)) = Cardinality(Held(m)) - Len(q)
               /\ Map!Keys(p) = Map!Keys(m) \ {t}
               /\ Len(p) <= Len(m)
<1> DEFINE q == Sampling!BufferedFor(s, t)
           m == s.buffer
           p == Map!Without(m, t)
<1>1. q = (IF t \in Map!Keys(m) THEN Map!At(m, t) ELSE <<>>) /\ Sampling!Without(m, t) = p
  BY SamplingMaps DEF Sampling!BufferedFor
<1>2. MapOK(m)
  BY DEF BufferOK
<1>3. /\ MapOK(p) /\ Entries(p) = But(m, t)
      /\ Len(p) = (IF t \in Map!Keys(m) THEN Len(m) - 1 ELSE Len(m))
      /\ Len(p) \in Nat /\ Len(m) \in Nat
  BY <1>2, WithoutIs
<1>4. CASE t \notin Map!Keys(m)
  <2>1. q = <<>> /\ Len(q) = 0 /\ IsSeq(q)
    BY <1>1, <1>4, EmptySeq DEF IsSeq
  <2>2. p = m
    BY <1>4 DEF Map!Without
  <2> HIDE DEF q, p
  <2>3. Ids(q) = {} /\ RecordsOK(q, c) /\ InOrder(q)
    BY <2>1 DEF Ids, RecordsOK, InOrder, Uniq
  <2>4. Cardinality(Held(m)) \in Nat
    BY HeldKnown
  <2>5. QED
    BY <1>1, <1>3, <1>4, <2>1, <2>2, <2>3, <2>4 DEF p, q
<1>5. CASE t \in Map!Keys(m)
  <2>1. PICK e \in Entries(m) : e.key = t
    BY <1>2, <1>5, KeysOfEntries
  <2>2. q = e.value
    BY <1>1, <1>2, <1>5, <2>1, AtIs
  <2>3. EntryOK(e, c)
    BY <2>1 DEF BufferOK
  <2> HIDE DEF q, p
  <2>4. /\ BufferOK(p, c) /\ Held(p) = Held(m) \ Ids(e.value)
        /\ Cardinality(Held(p)) = Cardinality(Held(m)) - Len(e.value)
        /\ Map!Keys(p) = Map!Keys(m) \ {e.key}
    BY <1>3, <2>1, EntryLeaves
  <2>5. Ids(e.value) \subseteq Held(m)
    BY EntryHeld
  <2>6. Len(p) <= Len(m)
    BY <1>3, <1>5
  <2>7. QED
    BY <1>1, <2>1, <2>2, <2>3, <2>4, <2>5, <2>6 DEF EntryOK, p, q
<1>6. QED
  BY <1>4, <1>5

LEMMA Elevates ==
    ASSUME NEW c, Numbered(c), NEW s, SamplingShape(s, c), NEW t, t # NoTrace
    PROVE  LET v == Sampling!Elevate(s, t)
           IN  /\ SamplingShape(v.sampling, c) /\ (SamplingBounds(s) => SamplingBounds(v.sampling))
               /\ RecordsOK(v.wrote, c) /\ AllOf(v.sampling) \cap Ids(v.wrote) = {}
               /\ AllOf(v.sampling) \cup Ids(v.wrote) = AllOf(s)
               /\ v.pass = TRUE
<1> DEFINE m == s.buffer
           q == Sampling!BufferedFor(s, t)
           w == Sampling!UpToThrow(q)
           p == Sampling!Without(m, t)
           u == [s EXCEPT !.elevated = @ \cup {t}, !.buffer = p, !.bufferedCount = @ - Len(q),
                          !.lost = @ \cup (Sampling!Ids(q) \ Sampling!Ids(w))]
<1>1. Sampling!Elevate(s, t) = [sampling |-> u, pass |-> TRUE, wrote |-> w]
  BY Zenon DEF Sampling!Elevate, Sampling!Verdict
<1>2. BufferOK(m, c)
  BY DEF SamplingShape
<1>3. /\ RecordsOK(q, c) /\ InOrder(q) /\ \A i \in 1..Len(q) : q[i].trace = t
      /\ Ids(q) \subseteq Held(m)
      /\ BufferOK(p, c) /\ Held(p) = Held(m) \ Ids(q)
      /\ Cardinality(Held(p)) = Cardinality(Held(m)) - Len(q)
      /\ Map!Keys(p) = Map!Keys(m) \ {t}
      /\ Len(p) <= Len(m)
  BY <1>2, TraceLeaves
<1>4. PICK n \in 0..Len(q) : w = SubSeq(q, 1, n) /\ (n < Len(q) => q[n + 1].refused)
  BY <1>3, UpToThrowIs DEF RecordsOK
<1>5. RecordsOK(w, c) /\ Ids(w) = {q[i].id : i \in 1..n}
  BY <1>3, <1>4, IdsOfPart
<1>6. Sampling!Ids(q) = Ids(q) /\ Sampling!Ids(w) = Ids(w)
  BY <1>3, <1>5, IdsAre DEF RecordsOK
<1>7. /\ u.buffer = p /\ u.bufferedCount = s.bufferedCount - Len(q)
      /\ u.elevated = s.elevated \cup {t} /\ u.evicted = s.evicted
      /\ u.lost = s.lost \cup (Ids(q) \ Ids(w))
      /\ u = [buffer |-> u.buffer, bufferedCount |-> u.bufferedCount, elevated |-> u.elevated,
              evicted |-> u.evicted, lost |-> u.lost]
  <2>1. s = [buffer |-> s.buffer, bufferedCount |-> s.bufferedCount, elevated |-> s.elevated,
             evicted |-> s.evicted, lost |-> s.lost]
    BY DEF SamplingShape
  <2>2. u = [s EXCEPT !.elevated = @ \cup {t}, !.buffer = p, !.bufferedCount = @ - Len(q),
                      !.lost = @ \cup (Ids(q) \ Ids(w))]
    BY <1>6
  <2> HIDE DEF u, p, q, w
  <2>3. QED
    BY <2>1, <2>2
<1> HIDE DEF m, u, p, q, w
<1>8. /\ Held(m) \subseteq DOMAIN c /\ Cardinality(Held(m)) \in Nat /\ m = s.buffer
      /\ Cardinality(Held(p)) \in Nat /\ s.bufferedCount = Cardinality(Held(m))
      /\ Len(q) \in Nat
  BY <1>2, <1>3, HeldKnown DEF SamplingShape, m, RecordsOK, IsSeq
<1>9. Ids(w) \subseteq Ids(q)
  <2>1. \A i \in 1..n : i \in 1..Len(q)
    BY <1>8
  <2>2. QED
    BY <1>5, <2>1 DEF Ids
<1>10. LostBehind(u.lost, c)
  <2> SUFFICES ASSUME NEW i \in u.lost
               PROVE  \E j \in u.lost : j <= i /\ c[j].trace = c[i].trace /\ c[j].refused
    BY DEF LostBehind
  <2>1. CASE i \in s.lost
    BY <1>7, <2>1 DEF SamplingShape, LostBehind
  <2>2. CASE i \in Ids(q) \ Ids(w)
    <3>1. PICK k \in 1..Len(q) : q[k].id = i
      BY <2>2 DEF Ids
    <3>2. k \notin 1..n
      BY <1>5, <2>2, <3>1
    <3>3. n < Len(q) /\ n + 1 \in 1..Len(q) /\ (n + 1 < k \/ n + 1 = k) /\ n + 1 \notin 1..n
          /\ \A l \in 1..n : l \in 1..Len(q) /\ l # n + 1
      BY <1>8, <3>1, <3>2
    <3>4. q[n + 1].refused /\ Known(q[n + 1], c) /\ Known(q[k], c)
      BY <1>3, <1>4, <3>1, <3>3 DEF RecordsOK
    <3>5. q[n + 1].id \in Ids(q) /\ q[n + 1].id \notin Ids(w)
      BY <1>3, <1>5, <3>3 DEF Ids, RecordsOK, Uniq
    <3>6. q[n + 1].id <= i
      <4>1. q[n + 1].id \in Nat /\ q[k].id \in Nat
        BY <3>4 DEF Known, Numbered
      <4>2. QED
        BY <1>3, <3>1, <3>3, <4>1 DEF InOrder
    <3>7. c[q[n + 1].id].trace = c[i].trace /\ c[q[n + 1].id].refused
      BY <1>3, <3>1, <3>3, <3>4 DEF Known
    <3>8. QED
      BY <1>7, <3>5, <3>6, <3>7
  <2>3. QED
    BY <1>7, <2>1, <2>2
<1>11. SamplingShape(u, c)
  <2>1. u.bufferedCount = Cardinality(Held(u.buffer))
    BY <1>3, <1>7, <1>8
  <2>2. Map!Keys(u.buffer) \cap u.elevated = {} /\ NoTrace \notin u.elevated
    BY <1>3, <1>7, <1>8 DEF SamplingShape
  <2>3. /\ Held(u.buffer) \cap u.evicted = {} /\ Held(u.buffer) \cap u.lost = {}
        /\ u.evicted \cap u.lost = {} /\ u.evicted \subseteq DOMAIN c /\ u.lost \subseteq DOMAIN c
    BY <1>3, <1>7, <1>8 DEF SamplingShape
  <2>4. QED
    BY <1>3, <1>7, <1>10, <2>1, <2>2, <2>3 DEF SamplingShape
<1>12. AllOf(u) \cap Ids(w) = {} /\ AllOf(u) \cup Ids(w) = AllOf(s)
  BY <1>3, <1>7, <1>8, <1>9 DEF AllOf, SamplingShape
<1>13. SamplingBounds(s) => SamplingBounds(u)
  <2>1. Len(p) \in Nat /\ Len(m) \in Nat /\ MaxTraces \in Nat /\ MaxBufferedRecords \in Nat
    BY <1>2, <1>3, Limits, SeqDomain DEF BufferOK, MapOK
  <2>2. QED
    BY <1>3, <1>7, <1>8, <2>1 DEF SamplingBounds
<1>14. QED
  BY <1>1, <1>5, <1>11, <1>12, <1>13 DEF u, w, p, q, m

LEMMA Samples ==
    ASSUME NEW c, Numbered(c), NEW s, SamplingShape(s, c), SamplingBounds(s), NEW r, Known(r, c),
           Behind(s, r), NEW keep \in BOOLEAN
    PROVE  LET v == Sampling!Sampled(s, r, keep)
           IN  /\ SamplingShape(v.sampling, c) /\ SamplingBounds(v.sampling)
               /\ RecordsOK(v.wrote, c) /\ AllOf(v.sampling) \cap Ids(v.wrote) = {}
               /\ AllOf(v.sampling) \cup Ids(v.wrote) =
                    AllOf(s) \cup (IF v.pass \/ r.trace = NoTrace THEN {} ELSE {r.id})
               /\ v.pass \/ r.trace = NoTrace \/ ~r.severe
<1> DEFINE v == Sampling!Sampled(s, r, keep)
           Good(u) == /\ SamplingShape(u.sampling, c) /\ SamplingBounds(u.sampling)
                      /\ RecordsOK(u.wrote, c) /\ AllOf(u.sampling) \cap Ids(u.wrote) = {}
                      /\ AllOf(u.sampling) \cup Ids(u.wrote) =
                           AllOf(s) \cup (IF u.pass \/ r.trace = NoTrace THEN {} ELSE {r.id})
                      /\ u.pass \/ r.trace = NoTrace \/ ~r.severe
<1>1. RecordsOK(<<>>, c) /\ Ids(<<>>) = {}
  <2>1. IsSeq(<<>>) /\ Len(<<>>) = 0
    BY EmptySeq DEF IsSeq
  <2>2. \A q : q = <<>> => RecordsOK(q, c) /\ Ids(q) = {}
    BY <2>1 DEF RecordsOK, Uniq, Ids
  <2>3. QED
    BY <2>2
<1>2. ASSUME NEW pass, pass \/ r.trace = NoTrace
      PROVE  Good(Sampling!Verdict(s, pass, <<>>))
  BY <1>1, <1>2 DEF Sampling!Verdict
<1>3. CASE r.trace \in s.elevated
  <2>1. v = Sampling!Verdict(s, TRUE, <<>>)
    BY <1>3 DEF Sampling!Sampled
  <2>2. QED
    BY <1>2, <2>1
<1>4. CASE r.trace \notin s.elevated /\ r.trace # NoTrace /\ r.severe
  <2>1. v = Sampling!Elevate(s, r.trace)
    BY <1>4, Zenon DEF Sampling!Sampled
  <2> HIDE DEF v
  <2>2. /\ SamplingShape(v.sampling, c) /\ (SamplingBounds(s) => SamplingBounds(v.sampling))
        /\ RecordsOK(v.wrote, c) /\ AllOf(v.sampling) \cap Ids(v.wrote) = {}
        /\ AllOf(v.sampling) \cup Ids(v.wrote) = AllOf(s)
        /\ v.pass = TRUE
    BY <1>4, <2>1, Elevates
  <2>3. QED
    BY <2>2 DEF v
<1>5. CASE r.trace \notin s.elevated /\ (r.trace = NoTrace \/ ~r.severe)
  <2>1. v = IF keep \/ r.trace = NoTrace THEN Sampling!Verdict(s, keep, <<>>)
                                         ELSE Sampling!BufferRecord(s, r)
    BY <1>5, Zenon DEF Sampling!Sampled
  <2> HIDE DEF v
  <2>2. CASE keep \/ r.trace = NoTrace
    <3>1. v = Sampling!Verdict(s, keep, <<>>)
      BY <2>1, <2>2
    <3>2. QED
      BY <1>2, <2>2, <3>1 DEF v
  <2>3. CASE ~(keep \/ r.trace = NoTrace)
    <3>1. v = Sampling!BufferRecord(s, r)
      BY <2>1, <2>3
    <3>2. Unelevated(s, r)
      BY <1>5 DEF Unelevated
    <3>3. LET u == Sampling!BufferRecord(s, r)
          IN  /\ SamplingShape(u.sampling, c) /\ SamplingBounds(u.sampling)
              /\ AllOf(u.sampling) = AllOf(s) \cup {r.id}
              /\ u.pass = FALSE /\ u.wrote = <<>>
      BY <3>2, Buffers
    <3>4. /\ SamplingShape(v.sampling, c) /\ SamplingBounds(v.sampling)
          /\ AllOf(v.sampling) = AllOf(s) \cup {r.id}
          /\ v.pass = FALSE /\ v.wrote = <<>>
      BY <3>1, <3>3, Zenon
    <3>5. QED
      BY <1>1, <1>5, <2>3, <3>4 DEF v
  <2>4. QED
    BY <2>2, <2>3
<1>6. QED
  BY <1>3, <1>4, <1>5

-----------------------------------------------------------------------------
(* The chain of beforeLog hooks. *)

RecordForm(r) ==
    r = [id |-> r.id, key |-> r.key, trace |-> r.trace, severe |-> r.severe,
         refused |-> r.refused, cyclic |-> r.cyclic, prev_hash |-> r.prev_hash, hash |-> r.hash]

PluginsForm(p) ==
    p = [windows |-> p.windows, sampling |-> p.sampling, lastHash |-> p.lastHash]

\* old: what the buffer, and the histories of what was evicted and lost, held
\* before the record came.
ChainOK(p, old, id, c) ==
    /\ p = [plugins |-> p.plugins, record |-> p.record, wrote |-> p.wrote, fate |-> p.fate]
    /\ PluginsForm(p.plugins) /\ RecordForm(p.record)
    /\ p.fate \in {"queued", "limited", "sampled"}
    /\ Known(p.record, c) /\ p.record.id = id
    /\ SamplingShape(p.plugins.sampling, c) /\ SamplingBounds(p.plugins.sampling)
    /\ RecordsOK(p.wrote, c) /\ AllOf(p.plugins.sampling) \cap Ids(p.wrote) = {}
    /\ AllOf(p.plugins.sampling) \cup Ids(p.wrote) =
         old \cup (IF p.fate # "sampled" \/ p.record.trace = NoTrace THEN {} ELSE {id})
    /\ p.fate = "sampled" => p.record.trace = NoTrace \/ ~p.record.severe

LEMMA LimitedOK ==
    ASSUME NEW c, NEW old, NEW id, NEW p, ChainOK(p, old, id, c), p.fate = "queued"
    PROVE  ChainOK(Limited(p), old, id, c)
<1> DEFINE verdict == Rate!RateLimited(p.plugins.windows, p.record.key, clock)
           q == Limited(p)
<1>1. q = [p EXCEPT !.plugins.windows = verdict.windows,
                    !.fate = IF verdict.pass THEN @ ELSE "limited"]
  BY DEF Limited
<1> HIDE DEF verdict, q
<1>2. /\ q.plugins.sampling = p.plugins.sampling /\ q.plugins.lastHash = p.plugins.lastHash
      /\ q.record = p.record /\ q.wrote = p.wrote /\ q.fate \in {"queued", "limited"}
      /\ q = [plugins |-> q.plugins, record |-> q.record, wrote |-> q.wrote, fate |-> q.fate]
      /\ PluginsForm(q.plugins)
  <2>1. /\ p = [plugins |-> p.plugins, record |-> p.record, wrote |-> p.wrote, fate |-> p.fate]
        /\ PluginsForm(p.plugins)
    BY DEF ChainOK
  <2>2. QED
    BY <1>1, <2>1 DEF PluginsForm
<1>3. QED
  BY <1>2 DEF ChainOK, q

LEMMA SampledOutOK ==
    ASSUME NEW c, Numbered(c), NEW old, NEW id, NEW p, ChainOK(p, old, id, c), p.fate = "queued",
           \A i \in old : i < id, NEW keep \in BOOLEAN
    PROVE  ChainOK(SampledOut(p, keep), old, id, c)
<1> DEFINE v == Sampling!Sampled(p.plugins.sampling, p.record, keep)
           q == SampledOut(p, keep)
<1>1. q = [p EXCEPT !.plugins.sampling = v.sampling, !.wrote = @ \o v.wrote,
                    !.fate = IF v.pass THEN @ ELSE "sampled"]
  BY DEF SampledOut
<1>2. /\ SamplingShape(p.plugins.sampling, c) /\ SamplingBounds(p.plugins.sampling)
      /\ Known(p.record, c) /\ Behind(p.plugins.sampling, p.record)
  BY DEF ChainOK, Behind
<1>3. /\ SamplingShape(v.sampling, c) /\ SamplingBounds(v.sampling)
      /\ RecordsOK(v.wrote, c) /\ AllOf(v.sampling) \cap Ids(v.wrote) = {}
      /\ AllOf(v.sampling) \cup Ids(v.wrote) =
           AllOf(p.plugins.sampling)
             \cup (IF v.pass \/ p.record.trace = NoTrace THEN {} ELSE {p.record.id})
      /\ v.pass \/ p.record.trace = NoTrace \/ ~p.record.severe
  BY <1>2, Samples
<1> HIDE DEF v, q
<1>4. /\ q.plugins.sampling = v.sampling
      /\ q.record = p.record /\ q.wrote = p.wrote \o v.wrote
      /\ q.fate = (IF v.pass THEN "queued" ELSE "sampled")
      /\ q = [plugins |-> q.plugins, record |-> q.record, wrote |-> q.wrote, fate |-> q.fate]
      /\ PluginsForm(q.plugins)
  <2> DEFINE wrote == p.wrote \o v.wrote
  <2>1. /\ p = [plugins |-> p.plugins, record |-> p.record, wrote |-> p.wrote, fate |-> p.fate]
        /\ PluginsForm(p.plugins)
    BY DEF ChainOK
  <2>2. q = [p EXCEPT !.plugins.sampling = v.sampling, !.wrote = wrote,
                      !.fate = IF v.pass THEN @ ELSE "sampled"]
    BY <1>1
  <2> HIDE DEF wrote
  <2>3. /\ q.plugins.sampling = v.sampling
        /\ q.record = p.record /\ q.wrote = wrote
        /\ q.fate = (IF v.pass THEN "queued" ELSE "sampled")
        /\ q = [plugins |-> q.plugins, record |-> q.record, wrote |-> q.wrote, fate |-> q.fate]
        /\ PluginsForm(q.plugins)
    BY <2>1, <2>2 DEF PluginsForm
  <2>4. QED
    BY <2>3 DEF wrote
<1>5. id \notin old
  <2>1. id \in Nat
    BY DEF ChainOK, Known, Numbered
  <2>2. QED
    BY <2>1
<1>6. /\ RecordsOK(p.wrote, c) /\ AllOf(p.plugins.sampling) \cap Ids(p.wrote) = {}
      /\ AllOf(p.plugins.sampling) \cup Ids(p.wrote) = old
      /\ p.record.id = id
  BY DEF ChainOK
<1>7. Disjoint(p.wrote, v.wrote)
  BY <1>3, <1>5, <1>6 DEF Disjoint
<1>8. RecordsOK(q.wrote, c) /\ Ids(q.wrote) = Ids(p.wrote) \cup Ids(v.wrote)
  <2>1. RecordsOK(p.wrote \o v.wrote, c) /\ Ids(p.wrote \o v.wrote) = Ids(p.wrote) \cup Ids(v.wrote)
    <3>1. JoinedOK(p.wrote, v.wrote, c)
      BY <1>3, <1>6, <1>7, IdsJoined
    <3>2. QED
      BY <3>1, Zenon DEF JoinedOK
  <2>2. QED
    BY <1>4, <2>1, Zenon
<1>9. AllOf(q.plugins.sampling) \cap Ids(q.wrote) = {}
  BY <1>3, <1>4, <1>5, <1>6, <1>8
<1>10. AllOf(q.plugins.sampling) \cup Ids(q.wrote) =
         old \cup (IF q.fate # "sampled" \/ q.record.trace = NoTrace THEN {} ELSE {id})
  <2>1. q.fate # "sampled" <=> v.pass
    BY <1>4
  <2>2. AllOf(q.plugins.sampling) \cup Ids(q.wrote) =
          old \cup (IF v.pass \/ q.record.trace = NoTrace THEN {} ELSE {id})
    BY <1>3, <1>4, <1>6, <1>8
  <2>3. QED
    BY <2>1, <2>2
<1>11. QED
  BY <1>3, <1>4, <1>8, <1>9, <1>10 DEF ChainOK, q

LEMMA ChainedOK ==
    ASSUME NEW c, NEW old, NEW id, NEW p, ChainOK(p, old, id, c), p.fate = "queued"
    PROVE  ChainOK(Chained(p), old, id, c)
<1> DEFINE q == Chained(p)
<1>1. CASE ~Tamper!CanHash(p.record)
  BY <1>1 DEF Chained
<1>2. CASE Tamper!CanHash(p.record)
  <2> DEFINE r == Tamper!Hashed(p.record, p.plugins.lastHash)
             h == Tamper!Digest(p.record, p.plugins.lastHash)
  <2>1. q = [p EXCEPT !.record = r, !.plugins.lastHash = h]
    BY <1>2 DEF Chained
  <2>2. r = [p.record EXCEPT !.prev_hash = p.plugins.lastHash,
                             !.hash = Tamper!Digest(p.record, p.plugins.lastHash)]
    BY DEF Tamper!Hashed
  <2> HIDE DEF q, r, h
  <2>3. /\ RecordForm(r) /\ r.id = p.record.id /\ r.key = p.record.key
        /\ r.trace = p.record.trace /\ r.severe = p.record.severe
        /\ r.refused = p.record.refused /\ r.cyclic = p.record.cyclic
    <3>1. RecordForm(p.record)
      BY DEF ChainOK
    <3>2. QED
      BY <2>2, <3>1 DEF RecordForm
  <2>4. /\ q.plugins.sampling = p.plugins.sampling
        /\ q.record = r /\ q.wrote = p.wrote /\ q.fate = p.fate
        /\ q = [plugins |-> q.plugins, record |-> q.record, wrote |-> q.wrote, fate |-> q.fate]
        /\ PluginsForm(q.plugins)
    <3>1. /\ p = [plugins |-> p.plugins, record |-> p.record, wrote |-> p.wrote, fate |-> p.fate]
          /\ PluginsForm(p.plugins)
      BY DEF ChainOK
    <3>2. QED
      BY <2>1, <3>1 DEF PluginsForm
  <2>5. Known(r, c)
    BY <2>3 DEF ChainOK, Known
  <2>6. QED
    BY <2>3, <2>4, <2>5 DEF ChainOK, q
<1>3. QED
  BY <1>1, <1>2

Hooks == {"rateLimit", "sampling", "tamperEvident", "alerting"}

LEMMA ThroughOK ==
    ASSUME NEW c, Numbered(c), NEW old, NEW id, NEW p, ChainOK(p, old, id, c), p.fate = "queued",
           \A i \in old : i < id, NEW hook \in Hooks, NEW keep \in BOOLEAN
    PROVE  ChainOK(Through(p, hook, keep), old, id, c)
<1>1. CASE hook = "rateLimit"
  BY <1>1, LimitedOK DEF Through
<1>2. CASE hook = "sampling"
  <2>1. ChainOK(SampledOut(p, keep), old, id, c)
    BY SampledOutOK
  <2>2. QED
    BY <1>2, <2>1 DEF Through
<1>3. CASE hook = "tamperEvident"
  BY <1>3, ChainedOK DEF Through
<1>4. CASE hook = "alerting"
  BY <1>4 DEF Through
<1>5. QED
  BY <1>1, <1>2, <1>3, <1>4 DEF Hooks

Start(r) == [plugins |-> plugins, record |-> r, wrote |-> <<>>, fate |-> "queued"]
AfterHook(p, n, keep) == IF p.fate = "queued" THEN Through(p, setup.chain[n], keep) ELSE p

\* f gives what the first hooks of the chain made of r, up to the m-th.
RunOf(f, m, r, keep) ==
    f = [n \in 0..m |-> IF n = 0 THEN Start(r) ELSE AfterHook(f[n - 1], n, keep)]

LEMMA RunExists ==
    ASSUME NEW m \in Nat, NEW r, NEW keep
    PROVE  \E f : RunOf(f, m, r, keep)
<1> DEFINE None == {n \in Nat : ~\E f : RunOf(f, n, r, keep)}
<1> SUFFICES ASSUME None # {} PROVE FALSE
  OBVIOUS
<1>1. PICK n \in None : \A k \in None : n <= k
  BY LeastNatural
<1>2. n # 0
  <2>1. RunOf([k \in 0..0 |-> Start(r)], 0, r, keep)
    BY DEF RunOf
  <2>2. QED
    BY <2>1
<1>3. PICK f : RunOf(f, n - 1, r, keep)
  <2>1. n - 1 \in Nat /\ n - 1 \notin None
    BY <1>1, <1>2
  <2>2. QED
    BY <2>1
<1> DEFINE g == [k \in 0..n |-> IF k = n THEN AfterHook(f[n - 1], n, keep) ELSE f[k]]
<1>4. RunOf(g, n, r, keep)
  <2>1. \A k \in 0..n : g[k] = IF k = 0 THEN Start(r) ELSE AfterHook(g[k - 1], k, keep)
    <3> SUFFICES ASSUME NEW k \in 0..n
                 PROVE  g[k] = IF k = 0 THEN Start(r) ELSE AfterHook(g[k - 1], k, keep)
      OBVIOUS
    <3>1. CASE k = n
      <4>1. n - 1 \in 0..n /\ n - 1 # n /\ n \in 0..n
        BY <1>2
      <4>2. g[n] = AfterHook(f[n - 1], n, keep) /\ g[n - 1] = f[n - 1]
        BY <4>1
      <4>3. QED
        BY <1>2, <3>1, <4>2
    <3>2. CASE k # n
      <4>1. /\ k \in 0..(n - 1) /\ f[k] = IF k = 0 THEN Start(r) ELSE AfterHook(f[k - 1], k, keep)
            /\ k # 0 => k - 1 \in 0..n /\ k - 1 # n
        BY <1>3, <3>2 DEF RunOf
      <4>2. g[k] = f[k] /\ (k # 0 => g[k - 1] = f[k - 1])
        BY <3>2, <4>1
      <4>3. QED
        BY <4>1, <4>2
    <3>3. QED
      BY <3>1, <3>2
  <2> HIDE DEF g
  <2>2. \E d : g = [k \in 0..n |-> d[k]]
    <3>1. g = [k \in 0..n |-> g[k]]
      BY DEF g
    <3>2. QED
      BY <3>1
  <2>3. QED
    BY <2>1, <2>2 DEF RunOf
<1>5. QED
  BY <1>1, <1>4

LEMMA ChainIsRun ==
    ASSUME NEW r, NEW keep, Len(setup.chain) \in Nat
    PROVE  \E f : RunOf(f, Len(setup.chain), r, keep) /\ ThroughChain(r, keep) = f[Len(setup.chain)]
<1> DEFINE m == Len(setup.chain)
<1> DEFINE f == CHOOSE g : g = [n \in 0..m |-> IF n = 0 THEN Start(r) ELSE AfterHook(g[n - 1], n, keep)]
<1>1. RunOf(f, m, r, keep)
  BY RunExists DEF RunOf
<1>2. ThroughChain(r, keep) = f[m]
  BY Zenon DEF ThroughChain, Start, AfterHook
<1>3. QED
  BY <1>1, <1>2

\* What the hooks keep holds of what comes out of the last one.
LEMMA ChainEnds ==
    ASSUME NEW c, Numbered(c), NEW old, NEW id, NEW r, ChainOK(Start(r), old, id, c),
           \A i \in old : i < id, NEW keep \in BOOLEAN, setup.chain \in Seq(Hooks)
    PROVE  ChainOK(ThroughChain(r, keep), old, id, c)
<1> DEFINE m == Len(setup.chain)
<1>1. m \in Nat /\ \A n \in 1..m : setup.chain[n] \in Hooks
  OBVIOUS
<1>2. PICK f : RunOf(f, m, r, keep) /\ ThroughChain(r, keep) = f[m]
  BY <1>1, ChainIsRun
<1> HIDE DEF m
<1> DEFINE Bad == {n \in 0..m : ~ChainOK(f[n], old, id, c)}
<1>3. Bad = {}
  <2> SUFFICES ASSUME Bad # {} PROVE FALSE
    OBVIOUS
  <2>1. PICK n \in Bad : \A k \in Bad : n <= k
    <3>1. Bad \in SUBSET Nat
      BY <1>1
    <3>2. QED
      BY <3>1, LeastNatural
  <2>2. n \in 0..m /\ f[n] = IF n = 0 THEN Start(r) ELSE AfterHook(f[n - 1], n, keep)
    BY <1>2, <2>1 DEF RunOf
  <2>3. n # 0
    <3>1. ~ChainOK(f[n], old, id, c)
      BY <2>1
    <3>2. QED
      BY <2>2, <3>1
  <2>4. n - 1 \in 0..m /\ n - 1 \notin Bad /\ n \in 1..m
    <3>1. n - 1 \in 0..m /\ n \in 1..m /\ ~(n <= n - 1)
      BY <1>1, <2>2, <2>3
    <3> HIDE DEF Bad
    <3>2. QED
      BY <2>1, <3>1
  <2>5. ChainOK(f[n - 1], old, id, c)
    BY <2>4
  <2>6. ChainOK(AfterHook(f[n - 1], n, keep), old, id, c)
    <3>1. setup.chain[n] \in Hooks
      BY <1>1, <2>4
    <3>2. CASE f[n - 1].fate = "queued"
      BY <2>5, <3>1, <3>2, ThroughOK DEF AfterHook
    <3>3. CASE f[n - 1].fate # "queued"
      BY <2>5, <3>3 DEF AfterHook
    <3>4. QED
      BY <3>2, <3>3
  <2>7. QED
    BY <2>1, <2>2, <2>3, <2>6
<1>4. m \in 0..m
  BY <1>1
<1>5. QED
  BY <1>2, <1>3, <1>4

-----------------------------------------------------------------------------
(* Logger.retries. *)

LEMMA RetryMaps ==
    /\ Retry!EmptyMap = <<>>
    /\ \A m : Retry!Keys(m) = Map!Keys(m)
    /\ \A m, k : Retry!At(m, k) = Map!At(m, k)
    /\ \A m, k : Retry!Without(m, k) = Map!Without(m, k)
    /\ \A m, k, v : Retry!Touched(m, k, v) = Map!Touched(m, k, v)
    /\ \A m, n : Retry!Newest(m, n) = Map!Newest(m, n)
<1>1. \A m : Retry!Keys(m) = Map!Keys(m)
  BY DEF Retry!Keys, Map!Keys
<1>2. \A m, k : Retry!PlaceOf(m, k) = Map!PlaceOf(m, k)
  BY DEF Retry!PlaceOf, Map!PlaceOf
<1>3. \A m, k : Retry!At(m, k) = Map!At(m, k)
  BY <1>2 DEF Retry!At, Map!At
<1>4. \A m, n : Retry!RemoveAt(m, n) = Map!RemoveAt(m, n)
  BY DEF Retry!RemoveAt, Map!RemoveAt
<1>5. \A m, k : Retry!Without(m, k) = Map!Without(m, k)
  BY <1>1, <1>2, <1>4 DEF Retry!Without, Map!Without
<1>6. \A m, k, v : Retry!Touched(m, k, v) = Map!Touched(m, k, v)
  BY <1>5 DEF Retry!Touched, Map!Touched
<1>7. Retry!EmptyMap = <<>> /\ \A m, n : Retry!Newest(m, n) = Map!Newest(m, n)
  BY DEF Retry!EmptyMap, Retry!Newest, Map!Newest
<1>8. QED
  BY <1>1, <1>3, <1>5, <1>6, <1>7

\* The n entries touched last.
LEMMA NewestIs ==
    ASSUME NEW m, MapOK(m), NEW n \in Nat
    PROVE  LET p == Map!Newest(m, n)
           IN  MapOK(p) /\ Entries(p) \subseteq Entries(m) /\ Len(p) <= n /\ Len(p) \in Nat
<1> DEFINE p == SubSeq(m, Len(m) - n + 1, Len(m))
<1>1. Len(m) \in Nat /\ IsSeq(m)
  BY DEF MapOK, IsSeq
<1>2. CASE ~(Len(m) > n)
  BY <1>1, <1>2 DEF Map!Newest
<1>3. CASE Len(m) > n
  <2> DEFINE k == Len(m) - n + 1
  <2>1. k \in 1..(Len(m) + 1) /\ Len(m) \in (k - 1)..Len(m) /\ Len(m) - k + 1 = n
    BY <1>1, <1>3
  <2>2. p = SubSeq(m, k, Len(m))
    OBVIOUS
  <2> HIDE DEF k, p
  <2>3. IsSeq(p) /\ Len(p) = Len(m) - k + 1 /\ \A i \in 1..Len(p) : p[i] = m[k + i - 1]
    BY <1>1, <2>1, <2>2, Part
  <2>4. \A i \in 1..Len(p) : k + i - 1 \in 1..Len(m)
    BY <1>1, <2>1, <2>3
  <2>5. \A i, j \in 1..Len(p) : k + i - 1 = k + j - 1 => i = j
    BY <1>1, <2>1
  <2>6. Entries(p) \subseteq Entries(m)
    <3> SUFFICES ASSUME NEW i \in 1..Len(p) PROVE p[i] \in Entries(m)
      BY DEF Entries
    <3>1. PICK j \in 1..Len(m) : p[i] = m[j]
      BY <2>3, <2>4
    <3>2. QED
      BY <3>1 DEF Entries
  <2>7. MapOK(p)
    <3> SUFFICES ASSUME NEW i \in 1..Len(p), NEW j \in 1..Len(p), p[i].key = p[j].key PROVE i = j
      BY <2>3 DEF MapOK
    <3>1. m[k + i - 1].key = m[k + j - 1].key
      BY <2>3
    <3>2. k + i - 1 = k + j - 1
      BY <2>4, <3>1 DEF MapOK
    <3>3. QED
      BY <2>5, <3>2
  <2>8. Map!Newest(m, n) = p
    BY <1>3 DEF Map!Newest, p
  <2>9. QED
    BY <2>1, <2>3, <2>6, <2>7, <2>8
<1>4. QED
  BY <1>2, <1>3

AttemptsOK(a) == MapOK(a) /\ \A e \in Entries(a) : e.value \in Nat

LEMMA EmptyIsMap == MapOK(<<>>) /\ Entries(<<>>) = {} /\ IsSeq(<<>>) /\ Len(<<>>) = 0
<1>1. IsSeq(<<>>) /\ Len(<<>>) = 0
  BY EmptySeq DEF IsSeq
<1>2. \A m : m = <<>> => MapOK(m) /\ Entries(m) = {}
  BY <1>1 DEF MapOK, Entries
<1>3. QED
  BY <1>1, <1>2

LEMMA AttemptIsNat ==
    ASSUME NEW a, AttemptsOK(a), NEW k
    PROVE  Retry!Attempt(a, k) \in Nat
<1>1. CASE k \in Map!Keys(a)
  <2>1. PICK e \in Entries(a) : e.key = k
    BY <1>1, KeysOfEntries DEF AttemptsOK
  <2>2. Map!At(a, k) = e.value
    BY <2>1, AtIs DEF AttemptsOK
  <2>3. Map!At(a, k) + 1 \in Nat
    BY <2>2 DEF AttemptsOK
  <2>4. QED
    BY <1>1, <2>3, RetryMaps DEF Retry!Attempt
<1>2. CASE k \notin Map!Keys(a)
  BY <1>2, RetryMaps DEF Retry!Attempt
<1>3. QED
  BY <1>1, <1>2

LEMMA AttemptsKept ==
    ASSUME NEW a, AttemptsOK(a), NEW k
    PROVE  AttemptsOK(Retry!Opened(a, k)) /\ AttemptsOK(Retry!Succeeded(a, k))
<1>1. AttemptsOK(Retry!Succeeded(a, k))
  <2>1. MapOK(Map!Without(a, k)) /\ Entries(Map!Without(a, k)) = But(a, k)
    BY WithoutIs DEF AttemptsOK
  <2>2. QED
    BY <2>1, RetryMaps DEF AttemptsOK, But, Retry!Succeeded
<1>2. AttemptsOK(Retry!Opened(a, k))
  <2> DEFINE v == Retry!Attempt(a, k)
             m == Map!Touched(a, k, v)
             p == Map!Newest(m, MaxEntries)
  <2>1. v \in Nat /\ MaxEntries \in Nat
    BY AttemptIsNat, Limits
  <2> HIDE DEF v
  <2>2. MapOK(m) /\ Entries(m) = But(a, k) \cup {[key |-> k, value |-> v]}
    BY TouchedIs DEF AttemptsOK
  <2> HIDE DEF m
  <2>3. MapOK(p) /\ Entries(p) \subseteq Entries(m)
    BY <2>1, <2>2, NewestIs
  <2>4. Retry!Opened(a, k) = p
    BY RetryMaps DEF Retry!Opened, p, m, v
  <2> HIDE DEF p
  <2>5. QED
    BY <2>1, <2>2, <2>3, <2>4 DEF AttemptsOK, But
<1>3. QED
  BY <1>1, <1>2

-----------------------------------------------------------------------------
(* Calls made so far: what is known of a record stays known. *)

CallsOf(l) == [i \in 1..Len(l) |-> l[i].call]
Longer(c, d) == DOMAIN c \subseteq DOMAIN d /\ \A i \in DOMAIN c : d[i] = c[i]

LEMMA CallAdded ==
    ASSUME NEW l, IsSeq(l), NEW e
    PROVE  LET d == CallsOf(Append(l, e))
           IN  /\ Longer(CallsOf(l), d) /\ Numbered(CallsOf(l)) /\ Numbered(d)
               /\ DOMAIN CallsOf(l) = 1..Len(l) /\ DOMAIN d = (1..Len(l)) \cup {Len(l) + 1}
               /\ d[Len(l) + 1] = e.call
<1> DEFINE p == Append(l, e)
<1>1. /\ IsSeq(p) /\ Len(p) = Len(l) + 1 /\ p[Len(l) + 1] = e /\ Len(l) \in Nat
      /\ \A i \in 1..Len(l) : p[i] = l[i]
      /\ \A i \in 1..Len(p) : i \in 1..Len(l) \/ i = Len(l) + 1
  BY Appended, SeqDomain
<1> HIDE DEF p
<1>2. Len(p) \in Nat /\ 1..Len(p) = (1..Len(l)) \cup {Len(l) + 1}
  BY <1>1
<1>3. Numbered(CallsOf(l)) /\ Numbered(CallsOf(p))
  BY <1>1, <1>2 DEF Numbered, CallsOf
<1>4. Longer(CallsOf(l), CallsOf(p)) /\ CallsOf(p)[Len(l) + 1] = e.call
  BY <1>1, <1>2 DEF Longer, CallsOf
<1>5. QED
  BY <1>2, <1>3, <1>4 DEF p, CallsOf

LEMMA LongerRecords ==
    ASSUME NEW c, NEW d, Longer(c, d), NEW q, RecordsOK(q, c)
    PROVE  RecordsOK(q, d)
<1>1. \A i \in 1..Len(q) : Known(q[i], d)
  BY DEF RecordsOK, Longer, Known
<1>2. QED
  BY <1>1 DEF RecordsOK

LEMMA LongerSampling ==
    ASSUME NEW c, NEW d, Longer(c, d), NEW s, SamplingShape(s, c)
    PROVE  SamplingShape(s, d)
<1>1. BufferOK(s.buffer, d)
  BY LongerRecords DEF SamplingShape, BufferOK, EntryOK
<1>2. LostBehind(s.lost, d)
  BY DEF SamplingShape, LostBehind, Longer
<1>3. s.evicted \subseteq DOMAIN d /\ s.lost \subseteq DOMAIN d
  BY DEF SamplingShape, Longer
<1>4. QED
  BY <1>1, <1>2, <1>3 DEF SamplingShape

-----------------------------------------------------------------------------
(* Where the records are: in the queue, in the sink, in what SamplingPlugin *)
(* holds or has dropped, refused by the transport, or dropped by the rest.  *)

Placed(Q, S, A, R, D, U) ==
    /\ Q \cup S \cup A \cup R \cup D = U
    /\ Q \cap S = {} /\ Q \cap A = {} /\ Q \cap R = {} /\ Q \cap D = {}
    /\ S \cap A = {} /\ S \cap R = {} /\ S \cap D = {}
    /\ A \cap R = {} /\ A \cap D = {} /\ R \cap D = {}

LEMMA OneMorePlaced ==
    ASSUME NEW Q, NEW S, NEW A, NEW R, NEW D, NEW U, Placed(Q, S, A, R, D, U), NEW n, n \notin U
    PROVE  /\ Placed(Q \cup {n}, S, A, R, D, U \cup {n})
           /\ Placed(Q, S, A \cup {n}, R, D, U \cup {n})
           /\ Placed(Q, S, A, R, D \cup {n}, U \cup {n})
  BY Zenon DEF Placed

LEMMA FlushedPlaced ==
    ASSUME NEW Q, NEW S, NEW A, NEW R, NEW D, NEW U, Placed(Q, S, A, R, D, U),
           NEW B, NEW W, B \cup W = A, B \cap W = {}
    PROVE  Placed(Q, S \cup W, B, R, D, U)
  BY DEF Placed

LEMMA WrittenPlaced ==
    ASSUME NEW Q, NEW S, NEW A, NEW R, NEW D, NEW U, Placed(Q, S, A, R, D, U), NEW n \in Q
    PROVE  /\ Placed(Q \ {n}, S \cup {n}, A, R, D, U)
           /\ Placed(Q \ {n}, S, A, R \cup {n}, D, U)
  BY DEF Placed

Calls == CallsOf(log)
Dropped(l) ==
    {i \in 1..Len(l) : l[i].fate = "limited" \/ (l[i].fate = "sampled" /\ l[i].call.trace = NoTrace)}

LogOK ==
    /\ IsSeq(log) /\ clock \in Nat
    /\ \A i \in 1..Len(log) :
          /\ log[i].call \in setup.calls /\ log[i].at \in 0..clock
          /\ log[i].fate \in {"queued", "limited", "sampled"} /\ log[i].retry_count \in Nat

SamplingOK == SamplingShape(plugins.sampling, Calls) /\ SamplingBounds(plugins.sampling)

PipeInv ==
    /\ setup \in Setups /\ clock <= setup.ticks
    /\ LogOK /\ AttemptsOK(attempts)
    /\ PluginsForm(plugins) /\ SamplingOK
    /\ RecordsOK(queue, Calls) /\ RecordsOK(sink, Calls)
    /\ Placed(Ids(queue), Ids(sink), AllOf(plugins.sampling), rejected, Dropped(log), 1..Len(log))

LEMMA SetupIs ==
    ASSUME NEW s \in Setups
    PROVE  /\ s.chain \in Seq(Hooks) /\ s.ticks \in Nat /\ s.records \in Nat
           /\ \A i, j \in DOMAIN s.chain : s.chain[i] = s.chain[j] => i = j
           /\ \A c \in s.calls : c.kind \in CallKinds
  BY PipelineAssumption DEF Hooks

LEMMA PipelineStarts == Init => PipeInv
<1> SUFFICES ASSUME Init PROVE PipeInv
  OBVIOUS
<1>1. /\ setup \in Setups /\ clock = 0 /\ attempts = <<>> /\ queue = <<>> /\ sink = <<>>
      /\ rejected = {} /\ log = <<>>
      /\ plugins = [windows |-> Rate!EmptyMap, sampling |-> Sampling!NothingSampled,
                    lastHash |-> Tamper!GENESIS_HASH]
  BY RetryMaps DEF Init
<1>2. IsSeq(log) /\ Len(log) = 0 /\ Numbered(Calls)
  BY <1>1, EmptyIsMap DEF Numbered, Calls, CallsOf
<1>3. LogOK /\ clock <= setup.ticks
  BY <1>1, <1>2, SetupIs DEF LogOK
<1>4. AttemptsOK(attempts)
  <2>1. attempts = <<>>
    BY <1>1
  <2>2. MapOK(attempts) /\ Entries(attempts) = {}
    BY <2>1, EmptyIsMap, Zenon
  <2>3. QED
    BY <2>2 DEF AttemptsOK
<1>5. RecordsOK(queue, Calls) /\ RecordsOK(sink, Calls) /\ Ids(queue) = {} /\ Ids(sink) = {}
  <2>1. \A q : q = <<>> => RecordsOK(q, Calls) /\ Ids(q) = {}
    BY EmptyIsMap DEF RecordsOK, Uniq, Ids
  <2>2. QED
    BY <1>1, <2>1
<1>6. PluginsForm(plugins)
  BY <1>1 DEF PluginsForm
<1> DEFINE s == plugins.sampling
<1>7. /\ s = [buffer |-> s.buffer, bufferedCount |-> s.bufferedCount, elevated |-> s.elevated,
              evicted |-> s.evicted, lost |-> s.lost]
      /\ s.buffer = <<>> /\ s.bufferedCount = 0 /\ s.elevated = {} /\ s.evicted = {} /\ s.lost = {}
  BY <1>1, SamplingMaps DEF Sampling!NothingSampled
<1> HIDE DEF s
<1>8. /\ MapOK(s.buffer) /\ Entries(s.buffer) = {} /\ Len(s.buffer) = 0
  <2>1. s.buffer = <<>>
    BY <1>7
  <2>2. QED
    BY <2>1, EmptyIsMap, Zenon
<1>9. Held(s.buffer) = {} /\ BufferOK(s.buffer, Calls)
  BY <1>8 DEF Held, HeldIn, BufferOK
<1>10. s.bufferedCount = Cardinality(Held(s.buffer))
  BY <1>7, <1>9, FS_EmptySet
<1>11. SamplingShape(s, Calls)
  BY <1>7, <1>9, <1>10 DEF SamplingShape, LostBehind
<1>12. SamplingBounds(s)
  BY <1>7, <1>8, Limits DEF SamplingBounds
<1>13. AllOf(s) = {} /\ Dropped(log) = {} /\ 1..Len(log) = {}
  BY <1>2, <1>7, <1>9 DEF AllOf, Dropped
<1>14. Placed(Ids(queue), Ids(sink), AllOf(s), rejected, Dropped(log), 1..Len(log))
  BY <1>1, <1>5, <1>13 DEF Placed
<1>15. QED
  BY <1>1, <1>3, <1>4, <1>5, <1>6, <1>11, <1>12, <1>14 DEF PipeInv, SamplingOK, s

LEMMA RecordKnown ==
    ASSUME NEW d, NEW n, n \in DOMAIN d
    PROVE  LET r == Record(d[n], n) IN RecordForm(r) /\ Known(r, d) /\ r.id = n
  BY DEF Record, RecordForm, Known

QueueAfter(end) == IF end.fate = "queued" THEN Append(queue, end.record) ELSE queue
EndOf(call, keep) == ThroughChain(Record(call, Len(log) + 1), keep)
Entry(entry, call, end) == entry.call = call /\ entry.fate = end.fate
LogAfter(entry) == Append(log, entry)

\* What a call makes of the records' whereabouts.
LEMMA DispatchKeeps ==
    ASSUME PipeInv, NEW call, NEW keep \in BOOLEAN, NEW end, end = EndOf(call, keep),
           NEW entry, Entry(entry, call, end), NEW l, l = LogAfter(entry),
           NEW t, t = QueueAfter(end)
    PROVE  /\ PluginsForm(end.plugins) /\ end.fate \in {"queued", "limited", "sampled"}
           /\ SamplingShape(end.plugins.sampling, CallsOf(l)) /\ SamplingBounds(end.plugins.sampling)
           /\ RecordsOK(t, CallsOf(l)) /\ RecordsOK(sink \o end.wrote, CallsOf(l))
           /\ Placed(Ids(t), Ids(sink \o end.wrote), AllOf(end.plugins.sampling), rejected,
                     Dropped(l), 1..Len(l))
           /\ Ids(sink \o end.wrote) = Ids(sink) \cup Ids(end.wrote)
           /\ \A i \in AllOf(end.plugins.sampling) \cup Ids(end.wrote) :
                 i \in AllOf(plugins.sampling) \/ (i = Len(log) + 1 /\ ~call.severe)
<1> DEFINE c == Calls
           d == CallsOf(l)
           n == Len(log) + 1
           r == Record(call, n)
           s == plugins.sampling
           u == end.plugins.sampling
           W == end.wrote
           U == 1..Len(log)
<1>1. /\ Longer(c, d) /\ Numbered(c) /\ Numbered(d) /\ DOMAIN c = U /\ DOMAIN d = U \cup {n}
      /\ d[n] = call /\ n \notin U /\ n \in Nat /\ U \subseteq Nat /\ \A i \in U : i < n
  <2>1. IsSeq(log) /\ Len(log) \in Nat
    BY DEF PipeInv, LogOK, IsSeq
  <2>2. Longer(c, d) /\ Numbered(c) /\ Numbered(d) /\ DOMAIN c = U /\ DOMAIN d = U \cup {n}
        /\ d[n] = call
    BY <2>1, CallAdded DEF Calls, Entry, LogAfter
  <2>3. QED
    BY <2>1, <2>2
<1>2. /\ SamplingShape(s, d) /\ SamplingBounds(s) /\ RecordsOK(queue, d) /\ RecordsOK(sink, d)
  <2>1. SamplingShape(s, c) /\ SamplingBounds(s) /\ RecordsOK(queue, c) /\ RecordsOK(sink, c)
    BY DEF PipeInv, SamplingOK
  <2> HIDE DEF c, d, s
  <2>2. QED
    BY <1>1, <2>1, LongerSampling, LongerRecords
<1>3. RecordForm(r) /\ Known(r, d) /\ r.id = n
  <2>1. n \in DOMAIN d /\ call = d[n]
    BY <1>1
  <2> HIDE DEF d, n
  <2>2. QED
    BY <2>1, RecordKnown
<1>4. Placed(Ids(queue), Ids(sink), AllOf(s), rejected, Dropped(log), U)
  BY DEF PipeInv
<1>5. \A i \in AllOf(s) : i < n
  BY <1>1, <1>4 DEF Placed
<1>6. ChainOK(Start(r), AllOf(s), n, d)
  <2> DEFINE p == Start(r)
  <2>1. /\ p.plugins = plugins /\ p.record = r /\ p.wrote = <<>> /\ p.fate = "queued"
        /\ p = [plugins |-> p.plugins, record |-> p.record, wrote |-> p.wrote, fate |-> p.fate]
    BY DEF Start
  <2> HIDE DEF p, c, d, n, r, s
  <2>2. RecordsOK(p.wrote, d) /\ Ids(p.wrote) = {}
    <3>1. \A q : q = <<>> => RecordsOK(q, d) /\ Ids(q) = {}
      BY EmptyIsMap DEF RecordsOK, Uniq, Ids
    <3>2. QED
      BY <2>1, <3>1
  <2>3. PluginsForm(plugins)
    BY DEF PipeInv
  <2>4. QED
    BY <1>2, <1>3, <2>1, <2>2, <2>3 DEF ChainOK, p, s
<1>7. ChainOK(end, AllOf(s), n, d)
  <2>1. setup.chain \in Seq(Hooks)
    BY SetupIs DEF PipeInv
  <2> HIDE DEF c, d, n, r, s
  <2>2. ChainOK(ThroughChain(r, keep), AllOf(s), n, d)
    BY <1>1, <1>5, <1>6, <2>1, ChainEnds
  <2>3. end = ThroughChain(r, keep)
    BY DEF r, n, EndOf
  <2>4. QED
    BY <2>2, <2>3
<1> HIDE DEF c, d, r, s, u, W
<1>8. /\ PluginsForm(end.plugins) /\ end.fate \in {"queued", "limited", "sampled"}
      /\ SamplingShape(u, d) /\ SamplingBounds(u)
      /\ Known(end.record, d) /\ end.record.id = n
      /\ RecordsOK(W, d) /\ AllOf(u) \cap Ids(W) = {}
      /\ AllOf(u) \cup Ids(W) =
           AllOf(s) \cup (IF end.fate # "sampled" \/ end.record.trace = NoTrace THEN {} ELSE {n})
      /\ end.fate = "sampled" => end.record.trace = NoTrace \/ ~end.record.severe
  BY <1>7 DEF ChainOK, u, W
<1>9. end.record.trace = call.trace /\ end.record.severe = call.severe
  BY <1>1, <1>8 DEF Known
<1>10. Ids(sink) \cap Ids(W) = {} /\ n \notin Ids(queue)
  BY <1>1, <1>4, <1>8 DEF Placed
<1>11. RecordsOK(sink \o W, d) /\ Ids(sink \o W) = Ids(sink) \cup Ids(W)
  <2>1. RecordsOK(sink, d) /\ RecordsOK(W, d) /\ Disjoint(sink, W)
    BY <1>2, <1>8, <1>10 DEF Disjoint
  <2>2. JoinedOK(sink, W, d)
    BY <2>1, IdsJoined
  <2>3. QED
    BY <2>2 DEF JoinedOK
<1>12. /\ RecordsOK(t, d)
       /\ Ids(t) = IF end.fate = "queued" THEN Ids(queue) \cup {n} ELSE Ids(queue)
  <2>1. CASE end.fate = "queued"
    <3>1. /\ RecordsOK(Append(queue, end.record), d)
          /\ Ids(Append(queue, end.record)) = Ids(queue) \cup {n}
      BY <1>2, <1>8, <1>10, IdsAppended
    <3>2. t = Append(queue, end.record)
      BY <2>1 DEF QueueAfter
    <3>3. QED
      BY <2>1, <3>1, <3>2
  <2>2. CASE end.fate # "queued"
    BY <1>2, <2>2 DEF QueueAfter
  <2>3. QED
    BY <2>1, <2>2
<1>13. /\ 1..Len(l) = U \cup {n}
       /\ Dropped(l) = IF end.fate = "limited" \/ (end.fate = "sampled" /\ call.trace = NoTrace)
                       THEN Dropped(log) \cup {n} ELSE Dropped(log)
  <2>1. IsSeq(log)
    BY DEF PipeInv, LogOK
  <2>2. /\ Len(l) = n /\ l[n] = entry /\ Len(log) \in Nat
        /\ \A i \in U : l[i] = log[i]
    BY <2>1, Appended, SeqDomain DEF LogAfter
  <2>3. 1..Len(l) = U \cup {n}
    BY <2>2
  <2>4. QED
    BY <2>2, <2>3 DEF Dropped, Entry
<1> DEFINE A == AllOf(u) \cup Ids(W)
<1>14. Placed(Ids(t), Ids(sink), A, rejected, Dropped(l), U \cup {n})
  <2>0. /\ Placed(Ids(queue) \cup {n}, Ids(sink), AllOf(s), rejected, Dropped(log), U \cup {n})
        /\ Placed(Ids(queue), Ids(sink), AllOf(s) \cup {n}, rejected, Dropped(log), U \cup {n})
        /\ Placed(Ids(queue), Ids(sink), AllOf(s), rejected, Dropped(log) \cup {n}, U \cup {n})
    <3>1. n \notin U
      BY <1>1
    <3> HIDE DEF U, n
    <3>2. QED
      BY <1>4, <3>1, OneMorePlaced
  <2>1. CASE end.fate = "queued"
    <3>1. A = AllOf(s) /\ Ids(t) = Ids(queue) \cup {n} /\ Dropped(l) = Dropped(log)
      BY <1>8, <1>12, <1>13, <2>1
    <3> HIDE DEF U, n, A
    <3>2. QED
      BY <2>0, <3>1
  <2>2. CASE end.fate = "limited" \/ (end.fate = "sampled" /\ call.trace = NoTrace)
    <3>1. A = AllOf(s) /\ Ids(t) = Ids(queue) /\ Dropped(l) = Dropped(log) \cup {n}
      BY <1>8, <1>9, <1>12, <1>13, <2>2
    <3> HIDE DEF U, n, A
    <3>2. QED
      BY <2>0, <3>1
  <2>3. CASE end.fate = "sampled" /\ call.trace # NoTrace
    <3>1. A = AllOf(s) \cup {n} /\ Ids(t) = Ids(queue) /\ Dropped(l) = Dropped(log)
      BY <1>8, <1>9, <1>12, <1>13, <2>3
    <3> HIDE DEF U, n, A
    <3>2. QED
      BY <2>0, <3>1
  <2>4. QED
    BY <1>8, <2>1, <2>2, <2>3
<1>15. Placed(Ids(t), Ids(sink) \cup Ids(W), AllOf(u), rejected, Dropped(l), U \cup {n})
  <2> HIDE DEF U, n
  <2>1. QED
    BY <1>8, <1>14, FlushedPlaced
<1>16. \A i \in AllOf(u) \cup Ids(W) : i \in AllOf(s) \/ (i = n /\ ~call.severe)
  BY <1>8, <1>9
<1>17. QED
  BY <1>8, <1>11, <1>12, <1>13, <1>15, <1>16 DEF u, W, d, s

LEMMA DispatchStep == PipeInv /\ Dispatch => PipeInv'
<1> SUFFICES ASSUME PipeInv, Dispatch PROVE PipeInv'
  OBVIOUS
<1>1. PICK call \in setup.calls, keep \in BOOLEAN :
         LET end == ThroughChain(Record(call, Len(log) + 1), keep)
         IN  /\ plugins' = end.plugins
             /\ sink' = sink \o end.wrote
             /\ queue' = IF end.fate = "queued" THEN Append(queue, end.record) ELSE queue
             /\ TrackRetries(call)
             /\ log' = Append(log, [call |-> call, at |-> clock, fate |-> end.fate,
                                    retry_count |-> Retry!Attempt(attempts, call.key)])
  BY DEF Dispatch
<1> DEFINE end   == EndOf(call, keep)
           entry == [call |-> call, at |-> clock, fate |-> end.fate,
                     retry_count |-> Retry!Attempt(attempts, call.key)]
<1>2. /\ plugins' = end.plugins /\ sink' = sink \o end.wrote /\ queue' = QueueAfter(end)
      /\ TrackRetries(call) /\ log' = LogAfter(entry)
  BY <1>1 DEF EndOf, QueueAfter, LogAfter
<1>3. UNCHANGED <<setup, clock, rejected>>
  BY DEF Dispatch
<1>4. Entry(entry, call, end)
  BY DEF Entry
<1>5. entry.at = clock /\ entry.fate = end.fate /\ entry.call = call /\ entry.retry_count \in Nat
  BY AttemptIsNat DEF PipeInv
<1> HIDE DEF end, entry
<1>6. /\ PluginsForm(end.plugins) /\ end.fate \in {"queued", "limited", "sampled"}
      /\ SamplingShape(end.plugins.sampling, CallsOf(LogAfter(entry)))
      /\ SamplingBounds(end.plugins.sampling)
      /\ RecordsOK(QueueAfter(end), CallsOf(LogAfter(entry)))
      /\ RecordsOK(sink \o end.wrote, CallsOf(LogAfter(entry)))
      /\ Placed(Ids(QueueAfter(end)), Ids(sink \o end.wrote), AllOf(end.plugins.sampling), rejected,
                Dropped(LogAfter(entry)), 1..Len(LogAfter(entry)))
  <2>1. end = EndOf(call, keep)
    BY DEF end
  <2>2. QED
    BY <1>4, <2>1, DispatchKeeps
<1>7. LogOK'
  <2>1. /\ IsSeq(LogAfter(entry)) /\ Len(LogAfter(entry)) = Len(log) + 1
        /\ LogAfter(entry)[Len(log) + 1] = entry
        /\ \A i \in 1..Len(log) : LogAfter(entry)[i] = log[i]
        /\ \A i \in 1..Len(LogAfter(entry)) : i \in 1..Len(log) \/ i = Len(log) + 1
    BY Appended DEF LogAfter, PipeInv, LogOK
  <2>2. clock \in 0..clock
    BY DEF PipeInv, LogOK
  <2>3. \A i \in 1..Len(LogAfter(entry)) :
           /\ LogAfter(entry)[i].call \in setup.calls /\ LogAfter(entry)[i].at \in 0..clock
           /\ LogAfter(entry)[i].fate \in {"queued", "limited", "sampled"}
           /\ LogAfter(entry)[i].retry_count \in Nat
    BY <1>5, <1>6, <2>1, <2>2 DEF PipeInv, LogOK
  <2>4. QED
    BY <1>2, <1>3, <2>1, <2>3 DEF LogOK, PipeInv
<1>8. AttemptsOK(attempts')
  <2>1. call.kind \in {"action", "observation", "other"}
    BY SetupIs DEF PipeInv, CallKinds
  <2>2. \/ attempts' = Retry!Opened(attempts, call.key)
        \/ attempts' = Retry!Succeeded(attempts, call.key)
        \/ attempts' = attempts
    BY <1>2, <2>1 DEF TrackRetries
  <2>3. QED
    BY <2>2, AttemptsKept DEF PipeInv
<1>9. setup' \in Setups /\ clock' <= setup'.ticks
  BY <1>3 DEF PipeInv
<1>10. Calls' = CallsOf(LogAfter(entry))
  BY <1>2 DEF Calls, CallsOf
<1>11. SamplingOK'
  BY <1>2, <1>6, <1>10 DEF SamplingOK
<1>12. QED
  BY <1>2, <1>3, <1>6, <1>7, <1>8, <1>9, <1>10, <1>11 DEF PipeInv

LEMMA WriteStep == PipeInv /\ WriteAndNotify => PipeInv'
<1> SUFFICES ASSUME PipeInv, WriteAndNotify PROVE PipeInv'
  OBVIOUS
<1> DEFINE r == Head(queue)
<1>1. /\ queue # <<>> /\ queue' = Tail(queue)
      /\ UNCHANGED <<setup, clock, attempts, plugins, log>>
      /\ \/ r.refused /\ rejected' = rejected \cup {r.id} /\ sink' = sink
         \/ ~r.refused /\ sink' = Append(sink, r) /\ rejected' = rejected
  BY DEF WriteAndNotify
<1>2. /\ RecordsOK(Tail(queue), Calls) /\ Ids(Tail(queue)) = Ids(queue) \ {r.id}
      /\ Known(r, Calls) /\ r.id \in Ids(queue)
  BY <1>1, IdsTail DEF PipeInv
<1> HIDE DEF r
<1>3. Placed(Ids(queue), Ids(sink), AllOf(plugins.sampling), rejected, Dropped(log), 1..Len(log))
  BY DEF PipeInv
<1>4. /\ Placed(Ids(queue) \ {r.id}, Ids(sink) \cup {r.id}, AllOf(plugins.sampling), rejected,
                Dropped(log), 1..Len(log))
      /\ Placed(Ids(queue) \ {r.id}, Ids(sink), AllOf(plugins.sampling), rejected \cup {r.id},
                Dropped(log), 1..Len(log))
  BY <1>2, <1>3, WrittenPlaced
<1>5. /\ RecordsOK(sink', Calls)
      /\ Placed(Ids(queue'), Ids(sink'), AllOf(plugins.sampling), rejected', Dropped(log), 1..Len(log))
  <2>1. CASE sink' = sink /\ rejected' = rejected \cup {r.id}
    BY <1>1, <1>2, <1>4, <2>1 DEF PipeInv
  <2>2. CASE sink' = Append(sink, r) /\ rejected' = rejected
    <3>1. r.id \notin Ids(sink)
      BY <1>2, <1>3 DEF Placed
    <3>2. RecordsOK(sink, Calls)
      BY DEF PipeInv
    <3>3. RecordsOK(Append(sink, r), Calls) /\ Ids(Append(sink, r)) = Ids(sink) \cup {r.id}
      BY <1>2, <3>1, <3>2, IdsAppended
    <3>4. QED
      BY <1>1, <1>2, <1>4, <2>2, <3>3
  <2>3. QED
    BY <1>1, <2>1, <2>2
<1>6. Calls' = Calls /\ LogOK' /\ SamplingOK'
  BY <1>1 DEF PipeInv, Calls, LogOK, SamplingOK
<1>7. QED
  BY <1>1, <1>2, <1>5, <1>6 DEF PipeInv

LEMMA PipelineStep == PipeInv /\ [Next]_vars => PipeInv'
<1> SUFFICES ASSUME PipeInv, [Next]_vars PROVE PipeInv'
  OBVIOUS
<1>1. ASSUME UNCHANGED <<setup, attempts, plugins, queue, sink, rejected, log>>,
             clock' \in Nat, clock <= clock', clock' <= setup.ticks
      PROVE  PipeInv'
  <2>1. LogOK'
    <3>1. \A i \in 0..clock : i \in 0..clock'
      BY <1>1 DEF PipeInv, LogOK
    <3>2. QED
      BY <1>1, <3>1 DEF PipeInv, LogOK
  <2>2. Calls' = Calls /\ SamplingOK'
    BY <1>1 DEF PipeInv, Calls, SamplingOK
  <2>3. QED
    BY <1>1, <2>1, <2>2 DEF PipeInv
<1>2. CASE Dispatch
  BY <1>2, DispatchStep
<1>3. CASE WriteAndNotify
  BY <1>3, WriteStep
<1>4. CASE Tick
  <2>1. clock' \in Nat /\ clock <= clock' /\ clock' <= setup.ticks
    BY <1>4, SetupIs DEF Tick, PipeInv, LogOK
  <2>2. QED
    BY <1>1, <1>4, <2>1 DEF Tick
<1>5. CASE AlertTimer \/ CloseAlerting \/ UNCHANGED vars
  <2>1. /\ UNCHANGED <<setup, attempts, plugins, queue, sink, rejected, log>> /\ clock' = clock
    BY <1>5 DEF AlertTimer, CloseAlerting, vars
  <2>2. clock \in Nat /\ clock <= clock /\ clock <= setup.ticks
    BY DEF PipeInv, LogOK
  <2>3. QED
    BY <1>1, <2>1, <2>2
<1>6. QED
  BY <1>2, <1>3, <1>4, <1>5 DEF Next

LEMMA PipelineKept == Spec => []PipeInv
  BY PipelineStarts, PipelineStep, PTL DEF Spec

-----------------------------------------------------------------------------
(* The records, counted. *)

LEMMA OneOrNone ==
    ASSUME NEW T, NEW condition \in BOOLEAN, condition => \E k : T = {k}, ~condition => T = {}
    PROVE  Cardinality(T) = One(condition)
<1>1. CASE condition
  <2>1. PICK k : T = {k}
    BY <1>1
  <2>2. Cardinality({k}) = 1
    BY FS_Singleton
  <2>3. QED
    BY <1>1, <2>1, <2>2 DEF One
<1>2. CASE ~condition
  BY <1>2, FS_EmptySet DEF One
<1>3. QED
  BY <1>1, <1>2

LEMMA TimesIs ==
    ASSUME NEW c, NEW q, RecordsOK(q, c), NEW i
    PROVE  Times(i, q) = One(i \in Ids(q))
<1> DEFINE T == {j \in DOMAIN q : q[j].id = i}
<1>1. DOMAIN q = 1..Len(q)
  BY SeqDomain DEF RecordsOK
<1>2. i \in Ids(q) => \E k : T = {k}
  <2> SUFFICES ASSUME i \in Ids(q) PROVE \E k : T = {k}
    OBVIOUS
  <2>1. PICK k \in 1..Len(q) : q[k].id = i
    BY DEF Ids
  <2>2. T = {k}
    BY <1>1, <2>1 DEF RecordsOK, Uniq
  <2>3. QED
    BY <2>2
<1>3. i \notin Ids(q) => T = {}
  BY <1>1 DEF Ids
<1> HIDE DEF T
<1>4. Cardinality(T) = One(i \in Ids(q))
  <2> DEFINE b == i \in Ids(q)
  <2>1. b \in BOOLEAN
    OBVIOUS
  <2>2. (b => \E k : T = {k}) /\ (~b => T = {})
    BY <1>2, <1>3
  <2> HIDE DEF b
  <2>3. Cardinality(T) = One(b)
    BY <2>1, <2>2, OneOrNone
  <2>4. QED
    BY <2>3 DEF b
<1>5. QED
  BY <1>4 DEF Times, T

IdAt(m, p) == m[p[1]].value[p[2]].id

\* Two traces of the buffer hold no record in common.
LEMMA HeldByOne ==
    ASSUME NEW c, NEW m, BufferOK(m, c), NEW n, NEW l,
           m[n] \in Entries(m), m[l] \in Entries(m),
           NEW i, i \in Ids(m[n].value), i \in Ids(m[l].value)
    PROVE  m[n] = m[l]
BY HeldOnce

\* Every record the buffer holds has one place in it.
LEMMA PlacesAre ==
    ASSUME NEW c, NEW m, BufferOK(m, c)
    PROVE  /\ \A p \in PlacesIn(m) : IdAt(m, p) \in Held(m)
           /\ \A i \in Held(m) : \E p \in PlacesIn(m) : IdAt(m, p) = i
           /\ \A p, o \in PlacesIn(m) : IdAt(m, p) = IdAt(m, o) => p = o
<1>1. DOMAIN m = 1..Len(m) /\ \A n \in 1..Len(m) : m[n] \in Entries(m)
  BY SeqDomain DEF BufferOK, MapOK, Entries
<1>2. \A n \in 1..Len(m) : DOMAIN m[n].value = 1..Len(m[n].value)
  BY <1>1, SeqDomain DEF BufferOK, EntryOK, RecordsOK
<1>3. \A n \in 1..Len(m) : \A k \in 1..Len(m[n].value) :
         /\ <<n, k>> \in PlacesIn(m) /\ IdAt(m, <<n, k>>) = m[n].value[k].id
         /\ IdAt(m, <<n, k>>) \in Ids(m[n].value)
  BY <1>1, <1>2 DEF PlacesIn, IdAt, Ids
<1>4. \A p \in PlacesIn(m) : \E n \in 1..Len(m) : \E k \in 1..Len(m[n].value) : p = <<n, k>>
  BY <1>1, <1>2 DEF PlacesIn
<1>5. \A p \in PlacesIn(m) : IdAt(m, p) \in Held(m)
  BY <1>1, <1>3, <1>4 DEF Held, HeldIn
<1>6. ASSUME NEW i \in Held(m) PROVE \E p \in PlacesIn(m) : IdAt(m, p) = i
  <2>1. PICK n \in 1..Len(m) : i \in Ids(m[n].value)
    BY DEF Held, HeldIn, Entries
  <2>2. PICK k \in 1..Len(m[n].value) : m[n].value[k].id = i
    BY <2>1 DEF Ids
  <2>3. QED
    BY <1>3, <2>2
<1>7. ASSUME NEW p \in PlacesIn(m), NEW o \in PlacesIn(m), IdAt(m, p) = IdAt(m, o) PROVE p = o
  <2>1. PICK n \in 1..Len(m) : \E k \in 1..Len(m[n].value) : p = <<n, k>>
    BY <1>4
  <2>2. PICK k \in 1..Len(m[n].value) : p = <<n, k>>
    BY <2>1
  <2>3. PICK l \in 1..Len(m) : \E h \in 1..Len(m[l].value) : o = <<l, h>>
    BY <1>4
  <2>4. PICK h \in 1..Len(m[l].value) : o = <<l, h>>
    BY <2>3
  <2>5. /\ IdAt(m, p) \in Ids(m[n].value) /\ IdAt(m, p) \in Ids(m[l].value)
        /\ m[n].value[k].id = m[l].value[h].id
    BY <1>3, <1>7, <2>2, <2>4
  <2>6. m[n] = m[l]
    BY <1>1, <2>5, HeldByOne
  <2>7. n = l
    BY <2>6 DEF BufferOK, MapOK
  <2>8. k = h
    BY <1>1, <2>5, <2>7 DEF BufferOK, EntryOK, RecordsOK, Uniq
  <2>9. QED
    BY <2>2, <2>4, <2>7, <2>8
<1>8. QED
  BY <1>5, <1>6, <1>7

LEMMA BufferedOnce ==
    ASSUME NEW c, NEW m, BufferOK(m, c), NEW i
    PROVE  Cardinality({p \in PlacesIn(m) : IdAt(m, p) = i}) = One(i \in Held(m))
<1> DEFINE T == {p \in PlacesIn(m) : IdAt(m, p) = i}
           b == i \in Held(m)
<1>1. b => \E p : T = {p}
  <2> SUFFICES ASSUME b PROVE \E p : T = {p}
    OBVIOUS
  <2>1. PICK p \in PlacesIn(m) : IdAt(m, p) = i
    BY PlacesAre
  <2>2. \A o \in PlacesIn(m) : IdAt(m, o) = i => o = p
    BY <2>1, PlacesAre
  <2>3. T = {p}
    BY <2>1, <2>2
  <2>4. QED
    BY <2>3
<1>2. ~b => T = {}
  BY PlacesAre
<1>3. b \in BOOLEAN
  OBVIOUS
<1> HIDE DEF T, b
<1>4. Cardinality(T) = One(b)
  BY <1>1, <1>2, <1>3, OneOrNone
<1>5. QED
  BY <1>4 DEF T, b

LEMMA BufferedCount ==
    ASSUME NEW c, Numbered(c), NEW m, BufferOK(m, c)
    PROVE  Cardinality(PlacesIn(m)) = Cardinality(Held(m))
<1> DEFINE P == PlacesIn(m)
           H == Held(m)
<1>1. /\ \A p \in P : IdAt(m, p) \in H
      /\ \A i \in H : \E p \in P : IdAt(m, p) = i
      /\ \A p, o \in P : IdAt(m, p) = IdAt(m, o) => p = o
  BY PlacesAre
<1>2. IsFiniteSet(H)
  BY HeldKnown
<1> HIDE DEF P, H
<1> DEFINE g == [i \in H |-> CHOOSE p \in P : IdAt(m, p) = i]
<1>3. \A i \in H : g[i] \in P /\ IdAt(m, g[i]) = i
  BY <1>1
<1> HIDE DEF g
<1>4. g \in Bijection(H, P)
  <2>1. g \in [H -> P]
    BY <1>3 DEF g
  <2>2. \A i, j \in H : g[i] = g[j] => i = j
    BY <1>3
  <2>3. \A p \in P : \E i \in H : g[i] = p
    BY <1>1, <1>3
  <2>4. QED
    BY <2>1, <2>2, <2>3 DEF Bijection, Injection, IsInjective, Surjection
<1>5. ExistsBijection(H, P)
  BY <1>4 DEF ExistsBijection
<1>6. Cardinality(H) = Cardinality(P)
  BY <1>2, <1>5, FS_Bijection
<1>7. QED
  BY <1>6 DEF P, H

\* Placed, said of one record: it is in one of the seven places.
LEMMA PlacedOnce ==
    ASSUME NEW Q, NEW S, NEW A, NEW R, NEW D, NEW U, Placed(Q, S, A, R, D, U),
           NEW H, NEW E, NEW L, A = H \cup E \cup L, H \cap E = {}, H \cap L = {}, E \cap L = {},
           NEW i \in U
    PROVE  1 = One(i \in Q) + One(i \in S) + One(i \in H) + One(i \in R) + One(i \in E)
               + One(i \in L) + One(i \in D)
<1>1. /\ i \in Q \/ i \in S \/ i \in H \/ i \in E \/ i \in L \/ i \in R \/ i \in D
      /\ i \in Q => i \notin S /\ i \notin H /\ i \notin E /\ i \notin L /\ i \notin R /\ i \notin D
      /\ i \in S => i \notin H /\ i \notin E /\ i \notin L /\ i \notin R /\ i \notin D
      /\ i \in H => i \notin E /\ i \notin L /\ i \notin R /\ i \notin D
      /\ i \in E => i \notin L /\ i \notin R /\ i \notin D
      /\ i \in L => i \notin R /\ i \notin D
      /\ i \in R => i \notin D
  BY DEF Placed
<1>2. QED
  BY <1>1 DEF One

\* Logger.dispatch() and its queue keep the record of each call well formed, and
\* whatever the queue, the sink, the buffer or the histories name is a record dispatched.
THEOREM PipelineTypeCorrect == Spec => []PipelineTypeOK
<1>1. PipeInv /\ AlertInv => PipelineTypeOK
  <2> SUFFICES ASSUME PipeInv, AlertInv PROVE PipelineTypeOK
    OBVIOUS
  <2> DEFINE s == plugins.sampling
             m == s.buffer
  <2>1. clock \in 0..setup.ticks
    BY SetupIs DEF PipeInv, LogOK
  <2>2. \A i \in LogIndices :
           /\ log[i].call \in setup.calls /\ log[i].at \in 0..clock
           /\ log[i].fate \in {"queued", "limited", "sampled"} /\ log[i].retry_count \in Nat
    BY SeqDomain DEF PipeInv, LogOK, LogIndices
  <2>3. /\ SamplingShape(s, Calls) /\ BufferOK(m, Calls) /\ Numbered(Calls)
        /\ LogIndices = 1..Len(log) /\ DOMAIN Calls = 1..Len(log)
    BY SeqDomain DEF PipeInv, SamplingOK, SamplingShape, LogOK, LogIndices, Numbered, Calls, CallsOf
  <2>4. Cardinality(Held(m)) \in Nat /\ s.bufferedCount = Cardinality(Held(m))
    BY <2>3, HeldKnown DEF SamplingShape
  <2>5. Placed(Ids(queue), Ids(sink), AllOf(s), rejected, Dropped(log), 1..Len(log))
    BY DEF PipeInv
  <2>6. Sampling!Ids(queue \o sink) = Ids(queue) \cup Ids(sink)
    <3>1. RecordsOK(queue, Calls) /\ RecordsOK(sink, Calls) /\ Disjoint(queue, sink)
      BY <2>5 DEF PipeInv, Placed, Disjoint
    <3>2. JoinedOK(queue, sink, Calls)
      BY <3>1, IdsJoined
    <3>3. IsSeq(queue \o sink)
      BY <3>2 DEF JoinedOK, RecordsOK
    <3>4. Sampling!Ids(queue \o sink) = Ids(queue \o sink)
      BY <3>3, IdsAre
    <3>5. QED
      BY <3>2, <3>4 DEF JoinedOK
  <2>7. {BufferedAt(p).id : p \in Buffered} \subseteq Held(m)
    BY <2>3, PlacesAre DEF Buffered, BufferedAt, IdAt
  <2>8. AllOf(s) = Held(m) \cup s.evicted \cup s.lost
    BY DEF AllOf
  <2>9. \A i \in DOMAIN attempts : attempts[i].value \in Nat
    BY SeqDomain DEF PipeInv, AttemptsOK, MapOK, Entries
  <2>10. \A k \in DOMAIN alerts.windows : alerts.windows[k].count \in Nat \ {0}
    BY DEF AlertInv, AlertShapes, Window
  <2> HIDE DEF m
  <2>11. Sampling!Ids(queue \o sink) \cup {BufferedAt(p).id : p \in Buffered} \cup rejected
           \cup s.evicted \cup s.lost \subseteq LogIndices
    BY <2>3, <2>5, <2>6, <2>7, <2>8 DEF Placed
  <2>12. s.bufferedCount \in Nat
    BY <2>4
  <2>13. QED
    BY <2>1, <2>2, <2>9, <2>10, <2>11, <2>12 DEF PipelineTypeOK, s
<1>2. QED
  BY <1>1, PipelineKept, AlertsStart, AlertsStep, PTL DEF Spec

\* Whatever plugins a program has, in whatever order its records are sampled, limited,
\* flushed with their trace, evicted and refused: each record dispatched is in one
\* place, once, and nothing is dropped without a reason.
THEOREM RecordsAreAccounted == Spec => []RecordsAccounted
<1>1. PipeInv => RecordsAccounted
  <2> SUFFICES ASSUME PipeInv, NEW i \in LogIndices
               PROVE  1 = Times(i, queue) + Times(i, sink)
                          + Cardinality({p \in Buffered : BufferedAt(p).id = i})
                          + One(i \in rejected) + One(i \in plugins.sampling.evicted)
                          + One(i \in plugins.sampling.lost) + One(log[i].fate = "limited")
                          + One(log[i].fate = "sampled" /\ log[i].call.trace = NoTrace)
    BY DEF RecordsAccounted
  <2> DEFINE s == plugins.sampling
             m == s.buffer
  <2>1. SamplingShape(s, Calls) /\ BufferOK(m, Calls) /\ i \in 1..Len(log)
    BY SeqDomain DEF PipeInv, SamplingOK, SamplingShape, LogOK, LogIndices
  <2>2. Times(i, queue) = One(i \in Ids(queue)) /\ Times(i, sink) = One(i \in Ids(sink))
    BY TimesIs DEF PipeInv
  <2>3. Cardinality({p \in Buffered : BufferedAt(p).id = i}) = One(i \in Held(m))
    BY <2>1, BufferedOnce DEF Buffered, BufferedAt, IdAt
  <2>4. One(log[i].fate = "limited") + One(log[i].fate = "sampled" /\ log[i].call.trace = NoTrace)
          = One(i \in Dropped(log))
    BY <2>1 DEF Dropped, One
  <2>5. 1 = One(i \in Ids(queue)) + One(i \in Ids(sink)) + One(i \in Held(m)) + One(i \in rejected)
            + One(i \in s.evicted) + One(i \in s.lost) + One(i \in Dropped(log))
    <3>1. /\ Placed(Ids(queue), Ids(sink), AllOf(s), rejected, Dropped(log), 1..Len(log))
          /\ AllOf(s) = Held(m) \cup s.evicted \cup s.lost
      BY DEF PipeInv, AllOf
    <3>2. Held(m) \cap s.evicted = {} /\ Held(m) \cap s.lost = {} /\ s.evicted \cap s.lost = {}
      BY <2>1 DEF SamplingShape
    <3> HIDE DEF m, s
    <3>3. QED
      BY <2>1, <3>1, <3>2, PlacedOnce
  <2>6. \A b : One(b) \in Int
    BY DEF One
  <2>7. QED
    BY <2>2, <2>3, <2>4, <2>5, <2>6
<1>2. QED
  BY <1>1, PipelineKept, PTL

\* Once a trace is elevated it misses only what was evicted before, what a plugin
\* ahead limited, and what follows a record of it that the transport refused.
THEOREM TracesAreComplete == Spec => []TraceComplete
<1>1. PipeInv => TraceComplete
  <2> SUFFICES ASSUME PipeInv, NEW i \in LogIndices, log[i].call.trace \in Elevated,
                      log[i].fate # "limited"
               PROVE  \/ i \in Sampling!Ids(queue \o sink) \cup rejected \cup plugins.sampling.evicted
                      \/ \E j \in 1..i : /\ {i, j} \subseteq plugins.sampling.lost
                                         /\ log[j].call.trace = log[i].call.trace
                                         /\ log[j].call.refused
    BY DEF TraceComplete
  <2> DEFINE s == plugins.sampling
             m == s.buffer
  <2>1. /\ SamplingShape(s, Calls) /\ BufferOK(m, Calls) /\ i \in 1..Len(log)
        /\ DOMAIN Calls = 1..Len(log) /\ \A j \in 1..Len(log) : Calls[j] = log[j].call
    BY SeqDomain DEF PipeInv, SamplingOK, SamplingShape, LogOK, LogIndices, Calls, CallsOf
  <2>2. Placed(Ids(queue), Ids(sink), AllOf(s), rejected, Dropped(log), 1..Len(log))
    BY DEF PipeInv
  <2>3. Sampling!Ids(queue \o sink) = Ids(queue) \cup Ids(sink)
    <3>1. RecordsOK(queue, Calls) /\ RecordsOK(sink, Calls) /\ Disjoint(queue, sink)
      BY <2>2 DEF PipeInv, Placed, Disjoint
    <3>2. JoinedOK(queue, sink, Calls)
      BY <3>1, IdsJoined
    <3>3. IsSeq(queue \o sink)
      BY <3>2 DEF JoinedOK, RecordsOK
    <3>4. Sampling!Ids(queue \o sink) = Ids(queue \o sink)
      BY <3>3, IdsAre
    <3>5. QED
      BY <3>2, <3>4 DEF JoinedOK
  <2>4. i \notin Dropped(log)
    BY <2>1 DEF Dropped, SamplingShape, Elevated
  <2>5. i \notin Held(m)
    <3> SUFFICES ASSUME i \in Held(m) PROVE FALSE
      OBVIOUS
    <3>1. PICK e \in Entries(m) : i \in Ids(e.value)
      BY DEF Held, HeldIn
    <3>2. Calls[i].trace = e.key
      BY <2>1, <3>1, HeldOnce
    <3>3. e.key \in Map!Keys(m)
      BY <2>1, KeysOfEntries DEF BufferOK
    <3>4. QED
      BY <2>1, <3>2, <3>3 DEF SamplingShape, Elevated
  <2>6. CASE i \in s.lost
    <3>1. PICK j \in s.lost : j <= i /\ Calls[j].trace = Calls[i].trace /\ Calls[j].refused
      BY <2>1, <2>6 DEF SamplingShape, LostBehind
    <3>2. j \in 1..Len(log)
      BY <2>1 DEF SamplingShape
    <3>3. j \in 1..i
      BY <2>1, <3>1, <3>2
    <3>4. QED
      BY <2>1, <2>6, <3>1, <3>2, <3>3
  <2>7. AllOf(s) = Held(m) \cup s.evicted \cup s.lost
    BY DEF AllOf
  <2> HIDE DEF m
  <2>8. CASE i \notin s.lost
    BY <2>1, <2>2, <2>3, <2>4, <2>5, <2>7, <2>8 DEF Placed
  <2>9. QED
    BY <2>6, <2>8
<1>2. QED
  BY <1>1, PipelineKept, PTL

\* bufferedCount is the number of records buffered, maxBufferedRecords and maxTraces
\* bound what is buffered, and nothing is buffered for an elevated trace.  With
\* maxTraces 0 a trace is buffered all the same: evictOldestTrace() finds nothing.
THEOREM SamplingIsBounded ==
    ASSUME MaxTraces > 0
    PROVE  Spec => []SamplingBounded
<1>1. PipeInv => SamplingBounded
  <2> SUFFICES ASSUME PipeInv PROVE SamplingBounded
    OBVIOUS
  <2> DEFINE s == plugins.sampling
             m == s.buffer
  <2>1. SamplingShape(s, Calls) /\ SamplingBounds(s) /\ BufferOK(m, Calls) /\ Numbered(Calls)
    BY SeqDomain DEF PipeInv, SamplingOK, SamplingShape, LogOK, Numbered, Calls, CallsOf
  <2>2. Cardinality(Buffered) = Cardinality(Held(m))
    BY <2>1, BufferedCount DEF Buffered
  <2>3. s.bufferedCount = Cardinality(Held(m)) /\ Map!Keys(m) \cap s.elevated = {}
    BY <2>1 DEF SamplingShape
  <2>4. s.bufferedCount <= MaxBufferedRecords /\ Len(m) <= MaxTraces
    BY <2>1 DEF SamplingBounds
  <2>5. Sampling!Keys(m) = Map!Keys(m)
    BY SamplingMaps
  <2>6. QED
    BY <2>2, <2>3, <2>4, <2>5 DEF SamplingBounded, Elevated
<1>2. QED
  BY <1>1, PipelineKept, PTL

-----------------------------------------------------------------------------
(* The hash chain: the records that were hashed, in order. *)

LEMMA SameSeq ==
    ASSUME NEW p, NEW q, IsSeq(p), IsSeq(q), Len(p) = Len(q), \A i \in 1..Len(p) : p[i] = q[i]
    PROVE  p = q
<1>1. p = [i \in 1..Len(p) |-> p[i]] /\ q = [i \in 1..Len(q) |-> q[i]]
  BY DEF IsSeq
<1>2. [i \in 1..Len(p) |-> p[i]] = [i \in 1..Len(q) |-> q[i]]
  OBVIOUS
<1>3. QED
  BY <1>1, <1>2, Zenon

KeptNext(q, n, before) == IF WasHashed(q[n]) THEN Append(before, q[n]) ELSE before
KeepsTo(f, q, m) == f = [n \in 0..m |-> IF n = 0 THEN <<>> ELSE KeptNext(q, n, f[n - 1])]

LEMMA KeptExists ==
    ASSUME NEW q, NEW m \in Nat
    PROVE  \E f : KeepsTo(f, q, m)
<1> DEFINE None == {n \in Nat : ~\E f : KeepsTo(f, q, n)}
<1> SUFFICES ASSUME None # {} PROVE FALSE
  OBVIOUS
<1>1. PICK n \in None : \A k \in None : n <= k
  BY LeastNatural
<1>2. n # 0
  <2>1. KeepsTo([k \in 0..0 |-> <<>>], q, 0)
    BY DEF KeepsTo
  <2>2. QED
    BY <2>1
<1>3. PICK f : KeepsTo(f, q, n - 1)
  <2>1. n - 1 \in Nat /\ n - 1 \notin None
    BY <1>1, <1>2
  <2>2. QED
    BY <2>1
<1> DEFINE g == [k \in 0..n |-> IF k = n THEN KeptNext(q, n, f[n - 1]) ELSE f[k]]
<1>4. KeepsTo(g, q, n)
  <2>1. \A k \in 0..n : g[k] = IF k = 0 THEN <<>> ELSE KeptNext(q, k, g[k - 1])
    <3> SUFFICES ASSUME NEW k \in 0..n
                 PROVE  g[k] = IF k = 0 THEN <<>> ELSE KeptNext(q, k, g[k - 1])
      OBVIOUS
    <3>1. CASE k = n
      <4>1. n - 1 \in 0..n /\ n - 1 # n /\ n \in 0..n
        BY <1>2
      <4>2. g[n] = KeptNext(q, n, f[n - 1]) /\ g[n - 1] = f[n - 1]
        BY <4>1
      <4>3. QED
        BY <1>2, <3>1, <4>2
    <3>2. CASE k # n
      <4>1. /\ k \in 0..(n - 1) /\ f[k] = IF k = 0 THEN <<>> ELSE KeptNext(q, k, f[k - 1])
            /\ k # 0 => k - 1 \in 0..n /\ k - 1 # n
        BY <1>3, <3>2 DEF KeepsTo
      <4>2. g[k] = f[k] /\ (k # 0 => g[k - 1] = f[k - 1])
        BY <3>2, <4>1
      <4>3. QED
        BY <4>1, <4>2
    <3>3. QED
      BY <3>1, <3>2
  <2> HIDE DEF g
  <2>2. \E d : g = [k \in 0..n |-> d[k]]
    <3>1. g = [k \in 0..n |-> g[k]]
      BY DEF g
    <3>2. QED
      BY <3>1
  <2>3. QED
    BY <2>1, <2>2 DEF KeepsTo
<1>5. QED
  BY <1>1, <1>4

\* What is kept of a sequence, followed along another: the one is the other without
\* its k-th record, which was not hashed, and for a k beyond both they are the same.
Skip(n, k) == IF n < k THEN n ELSE n + 1

SkipsOne(q, m, p, l, k) ==
    /\ m \in Nat /\ l \in Nat /\ k \in Nat \ {0}
    /\ \A n \in 1..l : Skip(n, k) \in 1..m /\ p[n] = q[Skip(n, k)]
    /\ k <= l + 1 /\ k <= m => ~WasHashed(q[k])

LEMMA KeptSkips ==
    ASSUME NEW q, NEW m, NEW p, NEW l, NEW k, SkipsOne(q, m, p, l, k),
           NEW f, KeepsTo(f, q, m), NEW g, KeepsTo(g, p, l),
           NEW n \in 0..l, Skip(n, k) \in 0..m
    PROVE  g[n] = f[Skip(n, k)]
<1>0. /\ m \in Nat /\ l \in Nat /\ k \in Nat \ {0}
      /\ \A i \in 1..l : Skip(i, k) \in 1..m /\ p[i] = q[Skip(i, k)]
      /\ k <= l + 1 /\ k <= m => ~WasHashed(q[k])
  BY DEF SkipsOne
<1> DEFINE Differ == {i \in 0..l : Skip(i, k) \in 0..m /\ g[i] # f[Skip(i, k)]}
<1>1. Differ = {}
  <2> SUFFICES ASSUME Differ # {} PROVE FALSE
    OBVIOUS
  <2>1. PICK x \in Differ : \A i \in Differ : x <= i
    <3>1. Differ \in SUBSET Nat
      OBVIOUS
    <3>2. QED
      BY <3>1, LeastNatural
  <2>2. x \in 0..l /\ Skip(x, k) \in 0..m /\ g[x] # f[Skip(x, k)]
    BY <2>1
  <2>3. g[x] = IF x = 0 THEN <<>> ELSE KeptNext(p, x, g[x - 1])
    BY <2>2 DEF KeepsTo
  <2>4. \A j \in 0..m : f[j] = IF j = 0 THEN <<>> ELSE KeptNext(q, j, f[j - 1])
    BY DEF KeepsTo
  <2>5. CASE x = 0
    <3>1. Skip(x, k) = 0
      BY <1>0, <2>5 DEF Skip
    <3>2. QED
      BY <2>2, <2>3, <2>4, <2>5, <3>1
  <2>6. CASE x # 0
    <3>1. x - 1 \in 0..l /\ x \in 1..l /\ ~(x <= x - 1)
      BY <1>0, <2>2, <2>6
    <3>2. p[x] = q[Skip(x, k)] /\ Skip(x, k) \in 1..m /\ Skip(x, k) # 0
      BY <1>0, <3>1
    <3>3. Skip(x - 1, k) \in 0..m
      BY <1>0, <2>2, <3>1 DEF Skip
    <3>4. g[x - 1] = f[Skip(x - 1, k)]
      <4>1. x - 1 \notin Differ
        BY <2>1, <3>1
      <4>2. QED
        BY <3>1, <3>3, <4>1
    <3>5. f[Skip(x, k)] = KeptNext(q, Skip(x, k), f[Skip(x, k) - 1])
      BY <2>2, <2>4, <3>2
    <3>6. f[Skip(x, k) - 1] = f[Skip(x - 1, k)]
      <4>1. CASE x # k
        <5>1. Skip(x, k) - 1 = Skip(x - 1, k)
          BY <1>0, <3>1, <4>1 DEF Skip
        <5>2. QED
          BY <5>1
      <4>2. CASE x = k
        <5>1. Skip(x, k) - 1 = k /\ Skip(x - 1, k) = k - 1 /\ k \in 0..m /\ k # 0
          BY <1>0, <2>2, <3>1, <4>2 DEF Skip
        <5>2. ~WasHashed(q[k])
          BY <1>0, <3>1, <4>2, <5>1
        <5>3. f[k] = f[k - 1]
          BY <2>4, <5>1, <5>2 DEF KeptNext
        <5>4. QED
          BY <5>1, <5>3
      <4>3. QED
        BY <4>1, <4>2
    <3>7. QED
      BY <2>2, <2>3, <2>6, <3>2, <3>4, <3>5, <3>6 DEF KeptNext
  <2>7. QED
    BY <2>5, <2>6
<1>2. QED
  BY <1>1

LEMMA OnlyHashedIs ==
    ASSUME NEW q, IsSeq(q)
    PROVE  \E f : KeepsTo(f, q, Len(q)) /\ OnlyHashed(q) = f[Len(q)]
<1> DEFINE m == Len(q)
           f == CHOOSE g : g = [n \in 0..m |-> IF n = 0 THEN <<>>
                                               ELSE IF WasHashed(q[n]) THEN Append(g[n - 1], q[n])
                                               ELSE g[n - 1]]
<1>1. KeepsTo(f, q, m)
  <2>1. \A g : KeepsTo(g, q, m) <=>
           g = [n \in 0..m |-> IF n = 0 THEN <<>>
                               ELSE IF WasHashed(q[n]) THEN Append(g[n - 1], q[n]) ELSE g[n - 1]]
    BY DEF KeepsTo, KeptNext
  <2>2. m \in Nat
    BY DEF IsSeq
  <2> HIDE DEF m
  <2>3. \E g : KeepsTo(g, q, m)
    BY <2>2, KeptExists
  <2>4. QED
    BY <2>1, <2>3
<1>2. OnlyHashed(q) = f[m]
  BY Zenon DEF OnlyHashed
<1>3. QED
  BY <1>1, <1>2

LEMMA HashedAppended ==
    ASSUME NEW q, IsSeq(q), NEW r
    PROVE  OnlyHashed(Append(q, r)) =
               IF WasHashed(r) THEN Append(OnlyHashed(q), r) ELSE OnlyHashed(q)
<1> DEFINE p == Append(q, r)
           l == Len(q)
<1>1. /\ IsSeq(p) /\ Len(p) = l + 1 /\ p[l + 1] = r /\ l \in Nat
      /\ \A i \in 1..l : p[i] = q[i]
  BY Appended, SeqDomain
<1> HIDE DEF p
<1>2. PICK g : KeepsTo(g, q, l) /\ OnlyHashed(q) = g[l]
  BY OnlyHashedIs
<1>3. PICK f : KeepsTo(f, p, l + 1) /\ OnlyHashed(p) = f[l + 1]
  <2>1. \E f : KeepsTo(f, p, Len(p)) /\ OnlyHashed(p) = f[Len(p)]
    BY <1>1, OnlyHashedIs
  <2>2. QED
    BY <1>1, <2>1
<1>4. g[l] = f[l]
  <2> DEFINE k == l + 2
             m == l + 1
  <2>1. k \in Nat \ {0} /\ m \in Nat /\ ~(k <= m) /\ \A n \in 0..l : Skip(n, k) = n
    BY <1>1 DEF Skip
  <2>2. \A n \in 1..l : Skip(n, k) \in 1..m /\ q[n] = p[Skip(n, k)]
    BY <1>1, <2>1
  <2>3. KeepsTo(f, p, m) /\ KeepsTo(g, q, l)
    BY <1>2, <1>3
  <2>4. l \in 0..l /\ l \in 0..m /\ Skip(l, k) = l
    BY <1>1, <2>1
  <2> HIDE DEF k, m, l
  <2>5. SkipsOne(p, m, q, l, k)
    BY <1>1, <2>1, <2>2 DEF SkipsOne
  <2>6. Skip(l, k) \in 0..m
    BY <2>4
  <2>7. g[l] = f[Skip(l, k)]
    BY <2>3, <2>4, <2>5, <2>6, KeptSkips
  <2>8. QED
    BY <2>4, <2>7
<1>5. f[l + 1] = KeptNext(p, l + 1, f[l])
  <2>1. l + 1 \in 0..(l + 1) /\ l + 1 # 0 /\ (l + 1) - 1 = l
    BY <1>1
  <2>2. f[l + 1] = IF l + 1 = 0 THEN <<>> ELSE KeptNext(p, l + 1, f[(l + 1) - 1])
    BY <1>3, <2>1 DEF KeepsTo
  <2>3. QED
    BY <2>1, <2>2
<1>6. QED
  BY <1>1, <1>2, <1>3, <1>4, <1>5 DEF KeptNext, p

LEMMA HashedWithout ==
    ASSUME NEW q, IsSeq(q), NEW k \in 1..Len(q), ~WasHashed(q[k]),
           NEW p, IsSeq(p), Len(p) = Len(q) - 1, \A n \in 1..Len(p) : p[n] = q[Skip(n, k)]
    PROVE  OnlyHashed(p) = OnlyHashed(q)
<1> DEFINE l == Len(p)
           m == Len(q)
<1>1. l \in Nat /\ m \in Nat /\ l = m - 1 /\ k \in 1..m
  BY DEF IsSeq
<1>2. PICK g : KeepsTo(g, p, l) /\ OnlyHashed(p) = g[l]
  BY OnlyHashedIs
<1>3. PICK f : KeepsTo(f, q, m) /\ OnlyHashed(q) = f[m]
  BY OnlyHashedIs
<1>4. \A n \in 1..l : Skip(n, k) \in 1..m /\ p[n] = q[Skip(n, k)]
  BY <1>1 DEF Skip
<1> HIDE DEF l, m
<1>5. ASSUME NEW n \in 0..l, Skip(n, k) \in 0..m PROVE g[n] = f[Skip(n, k)]
  <2>1. SkipsOne(q, m, p, l, k)
    BY <1>1, <1>4 DEF SkipsOne, m
  <2>2. QED
    BY <1>2, <1>3, <1>5, <2>1, KeptSkips
<1>6. CASE k < m
  <2>1. l \in 0..l /\ Skip(l, k) = m /\ m \in 0..m
    BY <1>1, <1>6 DEF Skip
  <2>2. QED
    BY <1>2, <1>3, <1>5, <2>1
<1>7. CASE k = m
  <2>1. l \in 0..l /\ Skip(l, k) = l /\ l \in 0..m /\ m - 1 = l /\ m \in 0..m /\ m # 0
    BY <1>1, <1>7 DEF Skip
  <2>2. g[l] = f[l]
    BY <1>5, <2>1
  <2>3. f[m] = KeptNext(q, m, f[m - 1])
    BY <1>3, <2>1 DEF KeepsTo
  <2>4. f[m] = f[l]
    BY <1>7, <2>1, <2>3 DEF KeptNext
  <2>5. QED
    BY <1>2, <1>3, <2>2, <2>4
<1>8. QED
  BY <1>1, <1>6, <1>7

\* What is left of the records in hand when one is written, or refused.
LEMMA JoinAppended ==
    ASSUME NEW p, NEW q, IsSeq(p), IsSeq(q), NEW e
    PROVE  p \o Append(q, e) = Append(p \o q, e)
<1> DEFINE S == {p[i] : i \in 1..Len(p)} \cup {q[i] : i \in 1..Len(q)} \cup {e}
<1>1. p \in Seq(S) /\ q \in Seq(S) /\ <<e>> \in Seq(S)
  <2>1. p \in Seq(S) /\ q \in Seq(S) /\ e \in S
    BY SeqOver
  <2> HIDE DEF S
  <2>2. QED
    BY <2>1
<1> HIDE DEF S
<1>2. p \o (q \o <<e>>) = (p \o q) \o <<e>>
  BY <1>1, ConcatAssociative
<1>3. \A s \in Seq(S) : Append(s, e) = s \o <<e>>
  BY <1>1
<1>4. p \o q \in Seq(S)
  BY <1>1
<1>5. QED
  BY <1>1, <1>2, <1>3, <1>4

LEMMA HeadMoves ==
    ASSUME NEW p, NEW q, IsSeq(p), IsSeq(q), q # <<>>
    PROVE  Append(p, Head(q)) \o Tail(q) = p \o q
<1> DEFINE S == {p[i] : i \in 1..Len(p)} \cup {q[i] : i \in 1..Len(q)}
           e == Head(q)
           t == Tail(q)
<1>1. p \in Seq(S) /\ q \in Seq(S)
  BY SeqOver
<1> HIDE DEF S
<1>2. e \in S /\ t \in Seq(S) /\ <<e>> \in Seq(S) /\ q = <<e>> \o t
  BY <1>1
<1> HIDE DEF e, t
<1>3. p \o (<<e>> \o t) = (p \o <<e>>) \o t
  BY <1>1, <1>2, ConcatAssociative
<1>4. Append(p, e) = p \o <<e>>
  BY <1>1, <1>2
<1>5. QED
  BY <1>2, <1>3, <1>4 DEF e, t

LastHash(h) == IF Len(h) = 0 THEN Tamper!GENESIS_HASH ELSE h[Len(h)].hash
Verified(h, last) == IsSeq(h) /\ Tamper!VerifyChain(h) /\ last = LastHash(h)

LEMMA ChainGrows ==
    ASSUME NEW h, NEW last, Verified(h, last), NEW r, r.prev_hash = last,
           r.hash = Tamper!Digest(r, last), WasHashed(r)
    PROVE  Verified(Append(h, r), r.hash)
<1> DEFINE p == Append(h, r)
           l == Len(h)
<1>1. /\ IsSeq(p) /\ Len(p) = l + 1 /\ p[l + 1] = r /\ l \in Nat
      /\ \A i \in 1..l : p[i] = h[i]
      /\ \A i \in 1..Len(p) : i \in 1..l \/ i = l + 1
  BY Appended, SeqDomain DEF Verified
<1>2. DOMAIN p = 1..Len(p) /\ DOMAIN h = 1..l
  BY <1>1, SeqDomain DEF Verified
<1> HIDE DEF p
<1>3. Tamper!VerifyChain(p)
  <2> DEFINE Linked(q, i) ==
               LET prev == IF i = 1 THEN Tamper!GENESIS_HASH ELSE q[i - 1].hash
               IN  /\ q[i].hash # Tamper!Unhashed /\ q[i].prev_hash = prev
                   /\ q[i].hash = Tamper!Digest(q[i], prev)
  <2>1. \A i \in 1..l : Linked(h, i)
    BY <1>2 DEF Verified, Tamper!VerifyChain
  <2>2. ASSUME NEW i \in 1..l PROVE Linked(p, i)
    <3>1. p[i] = h[i] /\ (i # 1 => p[i - 1] = h[i - 1])
      <4>1. i # 1 => i - 1 \in 1..l
        BY <1>1
      <4>2. QED
        BY <1>1, <4>1
    <3>2. Linked(h, i)
      BY <2>1
    <3>3. QED
      BY <3>1, <3>2
  <2>3. Linked(p, l + 1)
    <3>1. CASE l = 0
      <4>1. last = Tamper!GENESIS_HASH /\ l + 1 = 1
        BY <3>1 DEF Verified, LastHash
      <4>2. QED
        BY <1>1, <4>1 DEF WasHashed
    <3>2. CASE l # 0
      <4>1. last = h[l].hash /\ l + 1 # 1 /\ (l + 1) - 1 = l /\ l \in 1..l
        BY <1>1, <3>2 DEF Verified, LastHash
      <4>2. p[(l + 1) - 1] = h[l]
        BY <1>1, <4>1
      <4>3. QED
        BY <1>1, <4>1, <4>2 DEF WasHashed
    <3>3. QED
      BY <3>1, <3>2
  <2>4. \A i \in DOMAIN p : Linked(p, i)
    BY <1>1, <1>2, <2>2, <2>3
  <2>5. QED
    BY <2>4 DEF Tamper!VerifyChain
<1>4. r.hash = LastHash(p)
  <2>1. Len(p) # 0 /\ p[Len(p)] = r
    BY <1>1
  <2>2. QED
    BY <2>1 DEF LastHash
<1>5. QED
  BY <1>1, <1>3, <1>4 DEF Verified, p

HashesLast ==
    setup.chain # <<>> /\ Last(setup.chain) = "tamperEvident" /\ "sampling" \notin Range(setup.chain)

\* Before the last hook the record is as it came and nothing has been written.
Untouched(p, r) ==
    /\ p = [plugins |-> p.plugins, record |-> p.record, wrote |-> p.wrote, fate |-> p.fate]
    /\ PluginsForm(p.plugins)
    /\ p.record = r /\ p.wrote = <<>> /\ p.plugins.lastHash = plugins.lastHash

LEMMA HookLeaves ==
    ASSUME NEW p, NEW r, Untouched(p, r), p.fate = "queued", NEW keep,
           NEW hook \in {"rateLimit", "alerting"}
    PROVE  Untouched(Through(p, hook, keep), r)
<1>1. CASE hook = "alerting"
  BY <1>1 DEF Through
<1>2. CASE hook = "rateLimit"
  <2> DEFINE verdict == Rate!RateLimited(p.plugins.windows, p.record.key, clock)
             q == Limited(p)
  <2>1. q = [p EXCEPT !.plugins.windows = verdict.windows,
                      !.fate = IF verdict.pass THEN @ ELSE "limited"]
    BY DEF Limited
  <2> HIDE DEF verdict, q
  <2>2. Untouched(q, r)
    BY <2>1 DEF Untouched, PluginsForm
  <2>3. QED
    BY <1>2, <2>2 DEF Through, q
<1>3. QED
  BY <1>1, <1>2

\* What comes of a record when the hash chain is the last hook.
HashedEnd(end, r) ==
    /\ end.wrote = <<>>
    /\ \/ end.fate # "queued" /\ end.plugins.lastHash = plugins.lastHash
       \/ /\ end.fate = "queued" /\ r.cyclic /\ end.record = r
          /\ end.plugins.lastHash = plugins.lastHash
       \/ /\ end.fate = "queued" /\ ~r.cyclic /\ end.record = Tamper!Hashed(r, plugins.lastHash)
          /\ end.plugins.lastHash = Tamper!Digest(r, plugins.lastHash)

LEMMA HashesAtTheEnd ==
    ASSUME setup \in Setups, PluginsForm(plugins), HashesLast, NEW r, NEW keep
    PROVE  HashedEnd(ThroughChain(r, keep), r)
<1> DEFINE m == Len(setup.chain)
<1>1. /\ m \in Nat \ {0} /\ \A n \in 1..m : setup.chain[n] \in Hooks
      /\ setup.chain[m] = "tamperEvident"
      /\ \A n \in 1..m : n # m => setup.chain[n] \in {"rateLimit", "alerting"}
  <2>1. setup.chain \in Seq(Hooks) /\ DOMAIN setup.chain = 1..m
    BY SetupIs
  <2>2. /\ m \in Nat \ {0} /\ \A n \in 1..m : setup.chain[n] \in Hooks
        /\ setup.chain[m] = "tamperEvident" /\ m \in 1..m
    BY <2>1 DEF HashesLast, Last
  <2>3. \A n \in 1..m : n # m => setup.chain[n] # "tamperEvident"
    BY <2>1, <2>2, SetupIs
  <2>4. \A n \in 1..m : setup.chain[n] # "sampling"
    BY <2>1 DEF HashesLast, Range
  <2>5. QED
    BY <2>2, <2>3, <2>4 DEF Hooks
<1>2. PICK f : RunOf(f, m, r, keep) /\ ThroughChain(r, keep) = f[m]
  BY <1>1, ChainIsRun
<1> HIDE DEF m
<1>3. \A n \in 0..m : f[n] = IF n = 0 THEN Start(r) ELSE AfterHook(f[n - 1], n, keep)
  BY <1>2 DEF RunOf
<1> DEFINE Bad == {n \in 0..(m - 1) : ~Untouched(f[n], r)}
<1>4. Bad = {}
  <2> SUFFICES ASSUME Bad # {} PROVE FALSE
    OBVIOUS
  <2>1. PICK n \in Bad : \A k \in Bad : n <= k
    <3>1. Bad \in SUBSET Nat
      BY <1>1
    <3>2. QED
      BY <3>1, LeastNatural
  <2>2. n \in 0..(m - 1) /\ ~Untouched(f[n], r)
    BY <2>1
  <2>3. Untouched(Start(r), r)
    <3>1. Start(r) = [plugins |-> plugins, record |-> r, wrote |-> <<>>, fate |-> "queued"]
      BY DEF Start
    <3>2. QED
      BY <3>1 DEF Untouched
  <2>4. n # 0
    <3>1. 0 \in 0..m
      BY <1>1
    <3>2. QED
      BY <1>3, <2>2, <2>3, <3>1
  <2>5. n - 1 \in 0..(m - 1) /\ n \in 1..m /\ n # m /\ n \in 0..m /\ ~(n <= n - 1)
    BY <1>1, <2>2, <2>4
  <2>6. Untouched(f[n - 1], r)
    <3> HIDE DEF Bad
    <3>1. n - 1 \notin Bad
      BY <2>1, <2>5
    <3>2. QED
      BY <2>5, <3>1 DEF Bad
  <2>7. f[n] = AfterHook(f[n - 1], n, keep)
    BY <1>3, <2>4, <2>5
  <2>8. Untouched(AfterHook(f[n - 1], n, keep), r)
    <3>1. setup.chain[n] \in {"rateLimit", "alerting"}
      BY <1>1, <2>5
    <3>2. CASE f[n - 1].fate = "queued"
      BY <2>6, <3>1, <3>2, HookLeaves DEF AfterHook
    <3>3. CASE f[n - 1].fate # "queued"
      BY <2>6, <3>3 DEF AfterHook
    <3>4. QED
      BY <3>2, <3>3
  <2>9. QED
    BY <2>2, <2>7, <2>8
<1>5. Untouched(f[m - 1], r) /\ f[m] = AfterHook(f[m - 1], m, keep)
  <2>1. m - 1 \in 0..(m - 1) /\ m \in 0..m /\ m # 0
    BY <1>1
  <2>2. QED
    BY <1>3, <1>4, <2>1
<1> DEFINE p == f[m - 1]
<1>6. CASE p.fate # "queued"
  BY <1>2, <1>5, <1>6 DEF AfterHook, HashedEnd, Untouched
<1>7. CASE p.fate = "queued"
  <2> HIDE DEF p
  <2>1. f[m] = Chained(p)
    BY <1>1, <1>5, <1>7 DEF AfterHook, Through, p
  <2>2. Untouched(p, r)
    BY <1>5 DEF p
  <2>3. CASE ~Tamper!CanHash(r)
    <3>1. Chained(p) = p
      BY <2>2, <2>3 DEF Chained, Untouched
    <3>2. QED
      BY <1>2, <1>7, <2>1, <2>2, <2>3, <3>1 DEF HashedEnd, Untouched, Tamper!CanHash, p
  <2>4. CASE Tamper!CanHash(r)
    <3> DEFINE h == Tamper!Hashed(r, plugins.lastHash)
               d == Tamper!Digest(r, plugins.lastHash)
    <3>1. Chained(p) = [p EXCEPT !.record = h, !.plugins.lastHash = d]
      BY <2>2, <2>4 DEF Chained, Untouched
    <3> HIDE DEF h, d
    <3>2. /\ Chained(p).record = h /\ Chained(p).plugins.lastHash = d /\ Chained(p).wrote = <<>>
          /\ Chained(p).fate = p.fate
      BY <2>2, <3>1 DEF Untouched, PluginsForm
    <3>3. ~r.cyclic
      BY <2>4 DEF Tamper!CanHash
    <3>4. QED
      BY <1>2, <1>7, <2>1, <3>2, <3>3 DEF HashedEnd, h, d, p
  <2>5. QED
    BY <2>3, <2>4
<1>8. QED
  BY <1>6, <1>7

HashedRecords == OnlyHashed(sink \o queue)
OnlyCyclicRejected == \A i \in rejected : log[i].call.cyclic
HashedNotCyclic(q) == \A i \in 1..Len(q) : WasHashed(q[i]) => ~q[i].cyclic

HashInv ==
    HashesLast => /\ HashedNotCyclic(queue)
                  /\ OnlyCyclicRejected => Verified(HashedRecords, plugins.lastHash)

LEMMA HashesStart == Init => HashInv
<1> SUFFICES ASSUME Init PROVE HashInv
  OBVIOUS
<1>1. queue = <<>> /\ sink = <<>> /\ plugins.lastHash = Tamper!GENESIS_HASH
  BY DEF Init
<1>2. \A q : q = <<>> => OnlyHashed(q) = <<>>
  <2> SUFFICES ASSUME NEW q, q = <<>> PROVE OnlyHashed(q) = <<>>
    OBVIOUS
  <2>1. IsSeq(q) /\ Len(q) = 0
    BY EmptyIsMap
  <2>2. PICK f : KeepsTo(f, q, 0) /\ OnlyHashed(q) = f[0]
    BY <2>1, OnlyHashedIs
  <2>3. QED
    BY <2>2 DEF KeepsTo
<1>3. sink \o queue = <<>>
  BY <1>1, EmptySeq, ConcatEmptySeq
<1>4. HashedRecords = <<>>
  BY <1>2, <1>3 DEF HashedRecords
<1>5. \A h : h = <<>> => Verified(h, Tamper!GENESIS_HASH)
  <2> SUFFICES ASSUME NEW h, h = <<>> PROVE Verified(h, Tamper!GENESIS_HASH)
    OBVIOUS
  <2>1. IsSeq(h) /\ Len(h) = 0 /\ DOMAIN h = {}
    <3>1. IsSeq(h) /\ Len(h) = 0
      BY EmptyIsMap
    <3>2. QED
      BY <3>1, SeqDomain
  <2>2. QED
    BY <2>1 DEF Verified, LastHash, Tamper!VerifyChain
<1>6. Verified(HashedRecords, plugins.lastHash)
  BY <1>1, <1>4, <1>5
<1>7. HashedNotCyclic(queue)
  <2>1. Len(queue) = 0
    BY <1>1, EmptySeq
  <2>2. QED
    BY <2>1 DEF HashedNotCyclic
<1>8. QED
  BY <1>6, <1>7 DEF HashInv

LEMMA HashesDispatch == PipeInv /\ HashInv /\ Dispatch => HashInv'
<1> SUFFICES ASSUME PipeInv, HashInv, Dispatch, HashesLast' PROVE HashInv'
  BY DEF HashInv
<1>1. PICK call \in setup.calls, keep \in BOOLEAN :
         LET end == ThroughChain(Record(call, Len(log) + 1), keep)
         IN  /\ plugins' = end.plugins
             /\ sink' = sink \o end.wrote
             /\ queue' = IF end.fate = "queued" THEN Append(queue, end.record) ELSE queue
             /\ TrackRetries(call)
             /\ log' = Append(log, [call |-> call, at |-> clock, fate |-> end.fate,
                                    retry_count |-> Retry!Attempt(attempts, call.key)])
  BY DEF Dispatch
<1> DEFINE r == Record(call, Len(log) + 1)
           end == ThroughChain(r, keep)
           entry == [call |-> call, at |-> clock, fate |-> end.fate,
                     retry_count |-> Retry!Attempt(attempts, call.key)]
<1>2. /\ plugins' = end.plugins /\ sink' = sink \o end.wrote
      /\ queue' = (IF end.fate = "queued" THEN Append(queue, end.record) ELSE queue)
      /\ log' = Append(log, entry)
  BY <1>1
<1>3. setup' = setup /\ rejected' = rejected /\ HashesLast
  BY DEF Dispatch, HashesLast
<1>4. RecordForm(r) /\ r.hash = Tamper!Unhashed
  BY DEF Record, RecordForm
<1> HIDE DEF entry, r
<1>5. HashedEnd(end, r)
  BY <1>3, HashesAtTheEnd DEF PipeInv
<1> HIDE DEF end
<1>6. IsSeq(sink) /\ IsSeq(queue) /\ IsSeq(log) /\ IsSeq(sink \o queue)
  <2>1. IsSeq(sink) /\ IsSeq(queue) /\ IsSeq(log)
    BY DEF PipeInv, RecordsOK, LogOK
  <2>2. QED
    BY <2>1, Joined
<1>7. sink' = sink
  <2>1. sink' = sink \o <<>>
    BY <1>2, <1>5 DEF HashedEnd
  <2>2. PICK S : sink \in Seq(S)
    BY <1>6, SeqOfItsElements
  <2>3. QED
    BY <2>1, <2>2, ConcatEmptySeq
<1>8. OnlyCyclicRejected' => OnlyCyclicRejected
  <2>1. rejected \subseteq 1..Len(log)
    BY DEF PipeInv, Placed
  <2>2. \A i \in 1..Len(log) : log'[i] = log[i]
    BY <1>2, <1>6, Appended
  <2>3. QED
    BY <1>3, <2>1, <2>2 DEF OnlyCyclicRejected
<1> DEFINE last == plugins.lastHash
           h == HashedRecords
<1>9. HashedNotCyclic(queue) /\ (OnlyCyclicRejected => Verified(h, last))
  BY <1>3 DEF HashInv
<1>10. ASSUME NEW e, queue' = Append(queue, e)
       PROVE  /\ HashedRecords' = (IF WasHashed(e) THEN Append(h, e) ELSE h)
              /\ (WasHashed(e) => ~e.cyclic) => HashedNotCyclic(queue')
  <2>1. sink' \o queue' = Append(sink \o queue, e)
    BY <1>6, <1>7, <1>10, JoinAppended
  <2>2. HashedRecords' = OnlyHashed(Append(sink \o queue, e))
    BY <2>1 DEF HashedRecords
  <2>3. HashedRecords' = (IF WasHashed(e) THEN Append(h, e) ELSE h)
    BY <1>6, <2>2, HashedAppended DEF HashedRecords
  <2>4. /\ Len(queue') = Len(queue) + 1 /\ queue'[Len(queue) + 1] = e
        /\ \A i \in 1..Len(queue) : queue'[i] = queue[i]
        /\ \A i \in 1..Len(queue') : i \in 1..Len(queue) \/ i = Len(queue) + 1
    BY <1>6, <1>10, Appended
  <2>5. QED
    BY <1>9, <2>3, <2>4 DEF HashedNotCyclic
<1>11. CASE end.fate # "queued" /\ end.plugins.lastHash = plugins.lastHash
  <2>1. queue' = queue /\ plugins'.lastHash = last
    BY <1>2, <1>11
  <2>2. HashedRecords' = h
    BY <1>7, <2>1 DEF HashedRecords
  <2>3. QED
    BY <1>8, <1>9, <2>1, <2>2 DEF HashInv
<1>12. CASE /\ end.fate = "queued" /\ r.cyclic /\ end.record = r
            /\ end.plugins.lastHash = plugins.lastHash
  <2>1. queue' = Append(queue, r) /\ plugins'.lastHash = last /\ ~WasHashed(r)
    BY <1>2, <1>4, <1>12 DEF WasHashed
  <2>2. HashedRecords' = h /\ HashedNotCyclic(queue')
    BY <1>10, <2>1
  <2>3. QED
    BY <1>8, <1>9, <2>1, <2>2 DEF HashInv
<1>13. CASE /\ end.fate = "queued" /\ ~r.cyclic /\ end.record = Tamper!Hashed(r, plugins.lastHash)
            /\ end.plugins.lastHash = Tamper!Digest(r, plugins.lastHash)
  <2> DEFINE e == Tamper!Hashed(r, last)
             d == Tamper!Digest(r, last)
  <2>1. queue' = Append(queue, e) /\ plugins'.lastHash = d
    BY <1>2, <1>13
  <2>2. e.prev_hash = last /\ e.hash = d /\ ~e.cyclic /\ e.id = r.id
    <3>1. e = [r EXCEPT !.prev_hash = last, !.hash = d]
      BY DEF Tamper!Hashed
    <3> HIDE DEF e, d
    <3>2. QED
      BY <1>4, <1>13, <3>1 DEF RecordForm
  <2>3. WasHashed(e) /\ d = Tamper!Digest(e, last)
    BY <2>2 DEF WasHashed, Tamper!Digest, Tamper!Unhashed
  <2> HIDE DEF e, d
  <2>4. HashedRecords' = Append(h, e) /\ HashedNotCyclic(queue')
    BY <1>10, <2>1, <2>2, <2>3
  <2>5. Verified(h, last) => Verified(Append(h, e), d)
    BY <2>2, <2>3, ChainGrows
  <2>6. QED
    BY <1>8, <1>9, <2>1, <2>4, <2>5 DEF HashInv
<1>14. QED
  BY <1>5, <1>11, <1>12, <1>13 DEF HashedEnd

LEMMA HashesWrite == PipeInv /\ HashInv /\ WriteAndNotify => HashInv'
<1> SUFFICES ASSUME PipeInv, HashInv, WriteAndNotify, HashesLast' PROVE HashInv'
  BY DEF HashInv
<1> DEFINE r == Head(queue)
<1>1. /\ queue # <<>> /\ queue' = Tail(queue)
      /\ UNCHANGED <<setup, clock, attempts, plugins, log>>
      /\ \/ r.refused /\ rejected' = rejected \cup {r.id} /\ sink' = sink
         \/ ~r.refused /\ sink' = Append(sink, r) /\ rejected' = rejected
  BY DEF WriteAndNotify
<1>2. HashesLast /\ HashedNotCyclic(queue)
      /\ (OnlyCyclicRejected => Verified(HashedRecords, plugins.lastHash))
  BY <1>1 DEF HashInv, HashesLast
<1>3. IsSeq(sink) /\ IsSeq(queue) /\ Known(r, Calls)
  BY <1>1, IdsTail DEF PipeInv, RecordsOK
<1>4. /\ IsSeq(queue') /\ Len(queue') = Len(queue) - 1 /\ Len(queue) \in Nat \ {0}
      /\ r = queue[1]
      /\ \A i \in 1..Len(queue') : queue'[i] = queue[i + 1]
  BY <1>1, <1>3, WithoutHead, SeqDomain
<1> HIDE DEF r
<1>5. HashedNotCyclic(queue')
  <2>1. \A i \in 1..Len(queue') : i + 1 \in 1..Len(queue)
    BY <1>4
  <2>2. QED
    BY <1>2, <1>4, <2>1 DEF HashedNotCyclic
<1>6. CASE sink' = Append(sink, r) /\ rejected' = rejected
  <2>1. sink' \o queue' = sink \o queue
    BY <1>1, <1>3, <1>6, HeadMoves DEF r
  <2>2. HashedRecords' = HashedRecords
    BY <2>1 DEF HashedRecords
  <2>3. OnlyCyclicRejected' => OnlyCyclicRejected
    BY <1>1, <1>6 DEF OnlyCyclicRejected
  <2>4. QED
    BY <1>1, <1>2, <1>5, <2>2, <2>3 DEF HashInv
<1>7. CASE sink' = sink /\ rejected' = rejected \cup {r.id}
  <2> SUFFICES ASSUME OnlyCyclicRejected' PROVE Verified(HashedRecords, plugins.lastHash)'
    BY <1>5 DEF HashInv
  <2>1. OnlyCyclicRejected /\ log[r.id].call.cyclic
    BY <1>1, <1>7 DEF OnlyCyclicRejected
  <2>2. r.cyclic
    <3>1. r.id \in DOMAIN Calls /\ Calls[r.id] = log[r.id].call /\ r.cyclic = Calls[r.id].cyclic
      BY <1>3 DEF Known, Calls, CallsOf
    <3>2. QED
      BY <2>1, <3>1
  <2>3. ~WasHashed(r)
    BY <1>2, <1>4, <2>2 DEF HashedNotCyclic
  <2> DEFINE q == sink \o queue
             p == sink \o queue'
             k == Len(sink) + 1
  <2>4. /\ IsSeq(q) /\ Len(q) = Len(sink) + Len(queue)
        /\ \A i \in 1..Len(sink) : q[i] = sink[i]
        /\ \A i \in 1..Len(queue) : q[Len(sink) + i] = queue[i]
    BY <1>3, Joined
  <2>5. /\ IsSeq(p) /\ Len(p) = Len(sink) + Len(queue')
        /\ \A i \in 1..Len(sink) : p[i] = sink[i]
        /\ \A i \in 1..Len(queue') : p[Len(sink) + i] = queue'[i]
        /\ \A i \in 1..Len(p) : i \in 1..Len(sink) \/ i - Len(sink) \in 1..Len(queue')
    BY <1>3, <1>4, Joined
  <2>6. Len(sink) \in Nat
    BY <1>3 DEF IsSeq
  <2> HIDE DEF p, q
  <2>7. k \in 1..Len(q) /\ Len(p) = Len(q) - 1 /\ q[k] = r
    <3>1. 1 \in 1..Len(queue)
      BY <1>4
    <3>2. q[Len(sink) + 1] = queue[1]
      BY <2>4, <3>1
    <3>3. QED
      BY <1>4, <2>4, <2>5, <2>6, <3>2
  <2>8. ASSUME NEW n \in 1..Len(p) PROVE p[n] = q[Skip(n, k)]
    <3>1. CASE n \in 1..Len(sink)
      <4>1. Skip(n, k) = n
        BY <2>6, <3>1 DEF Skip
      <4>2. QED
        BY <2>4, <2>5, <3>1, <4>1
    <3>2. CASE n \notin 1..Len(sink)
      <4> DEFINE i == n - Len(sink)
      <4>1. i \in 1..Len(queue') /\ n = Len(sink) + i
        BY <2>5, <2>6, <3>2
      <4>2. Skip(n, k) = Len(sink) + (i + 1) /\ i + 1 \in 1..Len(queue)
        BY <1>4, <2>6, <4>1 DEF Skip
      <4> HIDE DEF i
      <4>3. p[Len(sink) + i] = queue'[i] /\ queue'[i] = queue[i + 1]
        BY <1>4, <2>5, <4>1
      <4>4. q[Len(sink) + (i + 1)] = queue[i + 1]
        BY <2>4, <4>2
      <4>5. QED
        BY <4>1, <4>2, <4>3, <4>4
    <3>3. QED
      BY <3>1, <3>2
  <2> HIDE DEF k
  <2>9. OnlyHashed(p) = OnlyHashed(q)
    BY <2>3, <2>4, <2>5, <2>7, <2>8, HashedWithout
  <2>10. HashedRecords' = OnlyHashed(p) /\ HashedRecords = OnlyHashed(q)
    BY <1>7 DEF HashedRecords, p, q
  <2>11. QED
    BY <1>1, <1>2, <2>1, <2>9, <2>10
<1>8. QED
  BY <1>1, <1>6, <1>7

LEMMA HashesStep == PipeInv /\ HashInv /\ [Next]_vars => HashInv'
<1> SUFFICES ASSUME PipeInv, HashInv, [Next]_vars PROVE HashInv'
  OBVIOUS
<1>1. CASE Tick \/ AlertTimer \/ CloseAlerting \/ UNCHANGED vars
  <2>1. UNCHANGED <<setup, plugins, queue, sink, rejected, log>>
    BY <1>1 DEF Tick, AlertTimer, CloseAlerting, vars
  <2>2. QED
    BY <2>1 DEF HashInv, HashesLast, HashedNotCyclic, OnlyCyclicRejected, HashedRecords
<1>2. QED
  BY <1>1, HashesDispatch, HashesWrite DEF Next

\* With TamperEvidentPlugin last and no record written ahead of its turn, everything
\* hashed that is written or queued verifies as one chain, whatever was limited or
\* could not be hashed, as long as the transport refuses only what has no hash.
THEOREM ChainsVerify == Spec => []ChainVerifies
<1>1. HashInv => ChainVerifies
  BY DEF HashInv, HashesLast, OnlyCyclicRejected, Verified, HashedRecords, ChainVerifies
<1>2. Spec => []HashInv
  BY PipelineStarts, PipelineStep, HashesStart, HashesStep, PTL DEF Spec
<1>3. QED
  BY <1>1, <1>2, PTL

-----------------------------------------------------------------------------
(* Recency: seen gives the key that was touched at each index.  The entries  *)
(* of a map stand in the order in which their keys were touched last.        *)

After(seen, k, l) ==
    \E j \in DOMAIN seen : seen[j] = l /\ \A i \in DOMAIN seen : seen[i] = k => i < j
Recent(m, seen) == \A a, b \in 1..Len(m) : a < b => After(seen, m[a].key, m[b].key)
SeenNext(seen, n, k) == [i \in DOMAIN seen \cup {n} |-> IF i = n THEN k ELSE seen[i]]
Past(seen, n) == n \in Nat /\ DOMAIN seen \subseteq Nat /\ \A i \in DOMAIN seen : i < n

LEMMA AfterNext ==
    ASSUME NEW seen, NEW n, Past(seen, n), NEW key, NEW k, k # key
    PROVE  /\ After(SeenNext(seen, n, key), k, key)
           /\ \A l : After(seen, k, l) => After(SeenNext(seen, n, key), k, l)
<1> DEFINE new == SeenNext(seen, n, key)
<1>1. /\ DOMAIN new = DOMAIN seen \cup {n} /\ new[n] = key
      /\ \A i \in DOMAIN seen : new[i] = seen[i] /\ i < n
  BY DEF SeenNext, Past
<1> HIDE DEF new
<1>2. \A i \in DOMAIN new : new[i] = k => i \in DOMAIN seen /\ seen[i] = k
  BY <1>1
<1>3. After(new, k, key)
  BY <1>1, <1>2 DEF After
<1>4. ASSUME NEW l, After(seen, k, l) PROVE After(new, k, l)
  BY <1>1, <1>2, <1>4 DEF After
<1>5. QED
  BY <1>3, <1>4 DEF new

LEMMA RecentPart ==
    ASSUME NEW m, NEW p, NEW seen, Recent(m, seen), NEW f \in [1..Len(p) -> 1..Len(m)],
           \A a, b \in 1..Len(p) : a < b => f[a] < f[b], \A a \in 1..Len(p) : p[a] = m[f[a]]
    PROVE  Recent(p, seen)
<1> SUFFICES ASSUME NEW a \in 1..Len(p), NEW b \in 1..Len(p), a < b
             PROVE  After(seen, p[a].key, p[b].key)
  BY DEF Recent
<1>1. f[a] \in 1..Len(m) /\ f[b] \in 1..Len(m) /\ f[a] < f[b] /\ p[a] = m[f[a]] /\ p[b] = m[f[b]]
  OBVIOUS
<1>2. QED
  BY <1>1 DEF Recent

LEMMA RecentWithout ==
    ASSUME NEW m, MapOK(m), NEW seen, Recent(m, seen), NEW k
    PROVE  Recent(Map!Without(m, k), seen)
<1>1. CASE k \notin Map!Keys(m)
  BY <1>1 DEF Map!Without
<1>2. CASE k \in Map!Keys(m)
  <2> DEFINE n == Map!PlaceOf(m, k)
             p == Map!RemoveAt(m, n)
             f == [i \in 1..Len(p) |-> IF i < n THEN i ELSE i + 1]
  <2>1. n \in 1..Len(m) /\ Len(m) \in Nat /\ IsSeq(m)
    BY <1>2, PlaceIs DEF MapOK, IsSeq
  <2>2. Map!Without(m, k) = p
    BY <1>2 DEF Map!Without
  <2> HIDE DEF n
  <2>3. /\ IsSeq(p) /\ Len(p) = Len(m) - 1
        /\ \A i \in 1..Len(p) : p[i] = m[IF i < n THEN i ELSE i + 1]
    BY <2>1, Removed
  <2> HIDE DEF p
  <2>4. \A i \in 1..Len(p) : (IF i < n THEN i ELSE i + 1) \in 1..Len(m)
    BY <2>1, <2>3
  <2>5. \A a, b \in 1..Len(p) : a < b => f[a] < f[b]
    BY <2>1
  <2>6. f \in [1..Len(p) -> 1..Len(m)] /\ \A a \in 1..Len(p) : p[a] = m[f[a]]
    BY <2>3, <2>4
  <2> HIDE DEF f
  <2>7. Recent(p, seen)
    BY <2>5, <2>6, RecentPart
  <2>8. QED
    BY <2>2, <2>7
<1>3. QED
  BY <1>1, <1>2

LEMMA RecentTouched ==
    ASSUME NEW m, MapOK(m), NEW seen, Recent(m, seen), NEW n, Past(seen, n), NEW key, NEW v
    PROVE  Recent(Map!Touched(m, key, v), SeenNext(seen, n, key))
<1> DEFINE w == Map!Without(m, key)
           e == [key |-> key, value |-> v]
           p == Append(w, e)
<1>1. MapOK(w) /\ Recent(w, seen) /\ \A i \in 1..Len(w) : w[i].key # key
  <2>1. MapOK(w) /\ Entries(w) = But(m, key)
    BY WithoutIs
  <2>2. QED
    BY <2>1, RecentWithout DEF Entries, But
<1>2. e.key = key /\ Map!Touched(m, key, v) = p
  BY DEF Map!Touched
<1> HIDE DEF w, e
<1>3. /\ Len(w) \in Nat /\ Len(p) = Len(w) + 1 /\ p[Len(w) + 1] = e
      /\ \A i \in 1..Len(w) : p[i] = w[i]
  BY <1>1, Appended, SeqDomain DEF MapOK
<1> HIDE DEF p
<1>4. ASSUME NEW a \in 1..Len(p), NEW b \in 1..Len(p), a < b
      PROVE  After(SeenNext(seen, n, key), p[a].key, p[b].key)
  <2>1. a \in 1..Len(w) /\ p[a].key = w[a].key /\ w[a].key # key
    BY <1>1, <1>3, <1>4
  <2>2. CASE b = Len(w) + 1
    BY <1>2, <1>3, <2>1, <2>2, AfterNext
  <2>3. CASE b # Len(w) + 1
    <3>1. b \in 1..Len(w) /\ p[b].key = w[b].key
      BY <1>3, <2>3
    <3>2. After(seen, w[a].key, w[b].key)
      BY <1>1, <1>4, <2>1, <3>1 DEF Recent
    <3>3. QED
      BY <2>1, <3>1, <3>2, AfterNext
  <2>4. QED
    BY <2>2, <2>3
<1>5. QED
  BY <1>2, <1>4 DEF Recent

\* Newest(m, n) drops the entries before the last n.
LEMMA NewestAre ==
    ASSUME NEW m, MapOK(m), NEW n \in Nat, Len(m) > n
    PROVE  LET p == Map!Newest(m, n)
           IN  /\ IsSeq(p) /\ Len(p) = n /\ Len(m) \in Nat
               /\ \A i \in 1..n : p[i] = m[Len(m) - n + i]
<1> DEFINE k == Len(m) - n + 1
           p == SubSeq(m, k, Len(m))
<1>1. Len(m) \in Nat /\ IsSeq(m)
  BY DEF MapOK, IsSeq
<1>2. k \in 1..(Len(m) + 1) /\ Len(m) \in (k - 1)..Len(m) /\ Len(m) - k + 1 = n
  BY <1>1
<1>3. \A i \in 1..n : k + i - 1 = Len(m) - n + i
  BY <1>1
<1>4. Map!Newest(m, n) = p
  BY DEF Map!Newest
<1> HIDE DEF k
<1>5. IsSeq(p) /\ Len(p) = Len(m) - k + 1 /\ \A i \in 1..Len(p) : p[i] = m[k + i - 1]
  BY <1>1, <1>2, Part
<1> HIDE DEF p
<1>6. Len(p) = n /\ \A i \in 1..n : p[i] = m[Len(m) - n + i]
  BY <1>2, <1>3, <1>5
<1>7. QED
  BY <1>1, <1>4, <1>5, <1>6

LEMMA RecentNewest ==
    ASSUME NEW m, MapOK(m), NEW seen, Recent(m, seen), NEW n \in Nat
    PROVE  Recent(Map!Newest(m, n), seen)
<1>1. Len(m) \in Nat
  BY DEF MapOK, IsSeq
<1>2. CASE ~(Len(m) > n)
  BY <1>2 DEF Map!Newest
<1>3. CASE Len(m) > n
  <2> DEFINE p == Map!Newest(m, n)
             f == [i \in 1..Len(p) |-> Len(m) - n + i]
  <2>1. Len(p) = n /\ \A i \in 1..n : p[i] = m[Len(m) - n + i]
    BY <1>3, NewestAre
  <2> HIDE DEF p
  <2>2. /\ \A i \in 1..n : Len(m) - n + i \in 1..Len(m)
        /\ \A a, b \in 1..n : a < b => Len(m) - n + a < Len(m) - n + b
    BY <1>1, <1>3
  <2>3. /\ f \in [1..Len(p) -> 1..Len(m)] /\ \A a \in 1..Len(p) : p[a] = m[f[a]]
        /\ \A a, b \in 1..Len(p) : a < b => f[a] < f[b]
    BY <2>1, <2>2
  <2> HIDE DEF f
  <2>4. QED
    BY <2>3, RecentPart DEF p
<1>4. QED
  BY <1>2, <1>3

\* Whoever is evicted makes room for n others, all touched later.
LEMMA EvictedByOthers ==
    ASSUME NEW m, MapOK(m), NEW seen, Recent(m, seen), NEW n \in Nat,
           NEW k \in Map!Keys(m), k \notin Map!Keys(Map!Newest(m, n)),
           NEW S, IsFiniteSet(S), \A l : After(seen, k, l) => l \in S
    PROVE  n <= Cardinality(S)
<1> DEFINE p == Map!Newest(m, n)
           q == Map!PlaceOf(m, k)
           I == (Len(m) - n + 1)..Len(m)
           f == [b \in I |-> m[b].key]
           T == {m[b].key : b \in I}
<1>1. Len(m) \in Nat /\ q \in 1..Len(m) /\ m[q].key = k
  BY PlaceIs DEF MapOK, IsSeq
<1>2. Len(m) > n
  BY <1>1 DEF Map!Newest
<1>3. /\ IsSeq(p) /\ Len(p) = n
      /\ \A i \in 1..n : p[i] = m[Len(m) - n + i]
  BY <1>2, NewestAre
<1> HIDE DEF q, p
<1>4. q <= Len(m) - n
  <2> SUFFICES ASSUME q > Len(m) - n PROVE FALSE
    BY <1>1
  <2>1. q - (Len(m) - n) \in 1..n /\ Len(m) - n + (q - (Len(m) - n)) = q
    BY <1>1, <1>2
  <2>2. p[q - (Len(m) - n)].key = k /\ q - (Len(m) - n) \in DOMAIN p
    BY <1>1, <1>3, <2>1, SeqDomain
  <2>3. QED
    BY <2>2 DEF Map!Keys, p
<1>5. \A b \in I : b \in 1..Len(m) /\ q < b
  BY <1>1, <1>2, <1>4
<1>6. T \subseteq S
  BY <1>1, <1>5 DEF Recent
<1>7. f \in Bijection(I, T)
  <2>1. \A a, b \in I : m[a].key = m[b].key => a = b
    BY <1>5 DEF MapOK
  <2>2. QED
    BY <2>1 DEF Bijection, Injection, Surjection, IsInjective
<1> HIDE DEF T, f
<1>8. IsFiniteSet(I) /\ Cardinality(I) = n
  <2>1. IsFiniteSet(I) /\ Cardinality(I) = IF Len(m) - n + 1 > Len(m) THEN 0
                                            ELSE Len(m) - (Len(m) - n + 1) + 1
    <3>1. Len(m) - n + 1 \in Int /\ Len(m) \in Int
      BY <1>1
    <3>2. QED
      BY <3>1, FS_Interval
  <2>2. QED
    BY <1>1, <1>2, <2>1
<1>9. Cardinality(T) = n
  <2>1. ExistsBijection(I, T)
    BY <1>7 DEF ExistsBijection
  <2>2. QED
    BY <1>8, <2>1, FS_Bijection
<1>10. QED
  BY <1>6, <1>9, FS_Subset

-----------------------------------------------------------------------------
(* What comes of a record at the rate limit, wherever in the chain that is. *)

LEMMA RateMaps ==
    /\ Rate!EmptyMap = <<>>
    /\ \A m : Rate!Keys(m) = Map!Keys(m)
    /\ \A m, k : Rate!At(m, k) = Map!At(m, k)
    /\ \A m, k, v : Rate!Touched(m, k, v) = Map!Touched(m, k, v)
    /\ \A m, n : Rate!Newest(m, n) = Map!Newest(m, n)
<1>1. \A m : Rate!Keys(m) = Map!Keys(m)
  BY DEF Rate!Keys, Map!Keys
<1>2. \A m, k : Rate!PlaceOf(m, k) = Map!PlaceOf(m, k)
  BY DEF Rate!PlaceOf, Map!PlaceOf
<1>3. \A m, k : Rate!At(m, k) = Map!At(m, k)
  BY <1>2 DEF Rate!At, Map!At
<1>4. \A m, n : Rate!RemoveAt(m, n) = Map!RemoveAt(m, n)
  BY DEF Rate!RemoveAt, Map!RemoveAt
<1>5. \A m, k : Rate!Without(m, k) = Map!Without(m, k)
  BY <1>1, <1>2, <1>4 DEF Rate!Without, Map!Without
<1>6. \A m, k, v : Rate!Touched(m, k, v) = Map!Touched(m, k, v)
  BY <1>5 DEF Rate!Touched, Map!Touched
<1>7. Rate!EmptyMap = <<>> /\ \A m, n : Rate!Newest(m, n) = Map!Newest(m, n)
  BY DEF Rate!EmptyMap, Rate!Newest, Map!Newest
<1>8. QED
  BY <1>1, <1>3, <1>6, <1>7

HookAt(n, hook) == n \in DOMAIN setup.chain /\ setup.chain[n] = hook

\* What the first n hooks have made of r: the limit has not seen it,
NotYet(p, n) ==
    /\ p.plugins.windows = plugins.windows /\ p.fate \in {"queued", "sampled"}
    /\ p.fate = "queued" => \A j \in 1..n : ~HookAt(j, "rateLimit")
    /\ p.fate = "sampled" => \E i \in 1..n : /\ HookAt(i, "sampling")
                                             /\ \A j \in 1..i : ~HookAt(j, "rateLimit")

\* or it has given its verdict.
Judged(p, r, n) ==
    LET verdict == Rate!RateLimited(plugins.windows, r.key, clock)
    IN  /\ p.plugins.windows = verdict.windows
        /\ p.fate \in {"queued", "limited", "sampled"} /\ (p.fate = "limited" <=> ~verdict.pass)
        /\ \E m \in 1..n : /\ HookAt(m, "rateLimit")
                           /\ p.fate = "sampled" => \E i \in 1..n : m < i /\ HookAt(i, "sampling")

Whole(p, r) ==
    /\ p = [plugins |-> p.plugins, record |-> p.record, wrote |-> p.wrote, fate |-> p.fate]
    /\ PluginsForm(p.plugins) /\ RecordForm(p.record) /\ p.record.key = r.key

LimitAt(p, r, n) == Whole(p, r) /\ (NotYet(p, n) \/ Judged(p, r, n))

\* One hook, and what it leaves alone.
LEMMA HookChanges ==
    ASSUME NEW p, NEW r, Whole(p, r), p.fate = "queued", NEW hook \in Hooks, NEW keep
    PROVE  LET q == Through(p, hook, keep)
               verdict == Rate!RateLimited(p.plugins.windows, r.key, clock)
           IN  /\ Whole(q, r)
               /\ hook = "rateLimit" => /\ q.plugins.windows = verdict.windows
                                        /\ q.fate = IF verdict.pass THEN "queued" ELSE "limited"
               /\ hook # "rateLimit" => /\ q.plugins.windows = p.plugins.windows
                                        /\ q.fate \in {"queued", "sampled"}
                                        /\ hook # "sampling" => q.fate = "queued"
<1> DEFINE q == Through(p, hook, keep)
<1>0. /\ p = [plugins |-> p.plugins, record |-> p.record, wrote |-> p.wrote, fate |-> p.fate]
      /\ PluginsForm(p.plugins) /\ RecordForm(p.record) /\ p.record.key = r.key
  BY DEF Whole
<1>1. CASE hook = "rateLimit"
  <2> DEFINE verdict == Rate!RateLimited(p.plugins.windows, r.key, clock)
  <2>1. q = [p EXCEPT !.plugins.windows = verdict.windows,
                      !.fate = IF verdict.pass THEN @ ELSE "limited"]
    BY <1>0, <1>1 DEF Through, Limited
  <2> HIDE DEF verdict, q
  <2>2. Whole(q, r) /\ q.plugins.windows = verdict.windows
        /\ q.fate = IF verdict.pass THEN "queued" ELSE "limited"
    BY <1>0, <2>1 DEF Whole, PluginsForm
  <2>3. QED
    BY <1>1, <2>2 DEF verdict, q
<1>2. CASE hook = "sampling"
  <2> DEFINE v == Sampling!Sampled(p.plugins.sampling, p.record, keep)
             wrote == p.wrote \o v.wrote
  <2>1. q = [p EXCEPT !.plugins.sampling = v.sampling, !.wrote = wrote,
                      !.fate = IF v.pass THEN @ ELSE "sampled"]
    BY <1>2 DEF Through, SampledOut
  <2> HIDE DEF v, wrote, q
  <2>2. Whole(q, r) /\ q.plugins.windows = p.plugins.windows /\ q.fate \in {"queued", "sampled"}
    BY <1>0, <2>1 DEF Whole, PluginsForm
  <2>3. QED
    BY <1>2, <2>2 DEF q
<1>3. CASE hook = "tamperEvident"
  <2> DEFINE h == Tamper!Hashed(p.record, p.plugins.lastHash)
             d == Tamper!Digest(p.record, p.plugins.lastHash)
  <2>1. q = IF Tamper!CanHash(p.record) THEN [p EXCEPT !.record = h, !.plugins.lastHash = d] ELSE p
    BY <1>3 DEF Through, Chained
  <2>2. RecordForm(h) /\ h.key = p.record.key
    <3>1. h = [p.record EXCEPT !.prev_hash = p.plugins.lastHash, !.hash = d]
      BY DEF Tamper!Hashed
    <3> HIDE DEF h, d
    <3>2. QED
      BY <1>0, <3>1 DEF RecordForm
  <2> HIDE DEF h, d, q
  <2>3. Whole(q, r) /\ q.plugins.windows = p.plugins.windows /\ q.fate = "queued"
    BY <1>0, <2>1, <2>2 DEF Whole, PluginsForm
  <2>4. QED
    BY <1>3, <2>3 DEF q
<1>4. CASE hook = "alerting"
  BY <1>4 DEF Through
<1>5. QED
  BY <1>1, <1>2, <1>3, <1>4 DEF Hooks

LEMMA LimitNext ==
    ASSUME setup \in Setups, NEW p, NEW r, NEW n \in 1..Len(setup.chain), LimitAt(p, r, n - 1), NEW keep
    PROVE  LimitAt(AfterHook(p, n, keep), r, n)
<1>0. /\ Len(setup.chain) \in Nat /\ n \in DOMAIN setup.chain /\ setup.chain[n] \in Hooks
      /\ \A j : HookAt(j, setup.chain[n]) => j = n
  <2>1. /\ setup.chain \in Seq(Hooks)
        /\ \A i, j \in DOMAIN setup.chain : setup.chain[i] = setup.chain[j] => i = j
    BY SetupIs
  <2>2. Len(setup.chain) \in Nat /\ n \in DOMAIN setup.chain /\ setup.chain[n] \in Hooks
    BY <2>1
  <2>3. QED
    BY <2>1, <2>2 DEF HookAt
<1>1. /\ \A j \in 1..(n - 1) : j \in 1..n /\ j < n
      /\ \A j \in 1..n : j = n \/ j \in 1..(n - 1)
      /\ n \in 1..n
  BY <1>0
<1>2. Whole(p, r)
  BY DEF LimitAt
<1>3. CASE p.fate # "queued"
  <2>1. AfterHook(p, n, keep) = p
    BY <1>3 DEF AfterHook
  <2>2. NotYet(p, n - 1) => NotYet(p, n)
    BY <1>1, <1>3 DEF NotYet
  <2>3. Judged(p, r, n - 1) => Judged(p, r, n)
    BY <1>1 DEF Judged
  <2>4. QED
    BY <1>2, <2>1, <2>2, <2>3 DEF LimitAt
<1>4. CASE p.fate = "queued"
  <2> DEFINE q == Through(p, setup.chain[n], keep)
             verdict == Rate!RateLimited(p.plugins.windows, r.key, clock)
  <2>1. AfterHook(p, n, keep) = q
    BY <1>4 DEF AfterHook
  <2>2. /\ Whole(q, r)
        /\ setup.chain[n] = "rateLimit" => /\ q.plugins.windows = verdict.windows
                                           /\ q.fate = IF verdict.pass THEN "queued" ELSE "limited"
        /\ setup.chain[n] # "rateLimit" => /\ q.plugins.windows = p.plugins.windows
                                           /\ q.fate \in {"queued", "sampled"}
                                           /\ setup.chain[n] # "sampling" => q.fate = "queued"
    BY <1>0, <1>2, <1>4, HookChanges
  <2> HIDE DEF q, verdict
  <2>3. CASE setup.chain[n] = "rateLimit"
    <3>1. HookAt(n, "rateLimit") /\ \A j \in 1..(n - 1) : ~HookAt(j, "rateLimit")
      BY <1>0, <1>1, <2>3 DEF HookAt
    <3>2. NotYet(p, n - 1)
      BY <3>1 DEF LimitAt, Judged
    <3>3. p.plugins.windows = plugins.windows
      BY <3>2 DEF NotYet
    <3>4. q.fate \in {"queued", "limited"} /\ (q.fate = "limited" <=> ~verdict.pass)
      BY <2>2, <2>3
    <3>5. Judged(q, r, n)
      BY <1>1, <2>2, <2>3, <3>1, <3>3, <3>4 DEF Judged, verdict
    <3>6. QED
      BY <2>1, <2>2, <3>5 DEF LimitAt
  <2>4. CASE setup.chain[n] # "rateLimit"
    <3>1. ~HookAt(n, "rateLimit") /\ (setup.chain[n] = "sampling" <=> HookAt(n, "sampling"))
      BY <1>0, <2>4 DEF HookAt
    <3>2. /\ q.plugins.windows = p.plugins.windows /\ q.fate \in {"queued", "sampled"}
          /\ q.fate = "sampled" => HookAt(n, "sampling")
      BY <2>2, <2>4, <3>1
    <3>3. CASE NotYet(p, n - 1)
      <4>1. \A j \in 1..n : ~HookAt(j, "rateLimit")
        BY <1>1, <1>4, <3>1, <3>3 DEF NotYet
      <4>2. NotYet(q, n)
        BY <1>1, <3>2, <3>3, <4>1 DEF NotYet
      <4>3. QED
        BY <2>1, <2>2, <4>2 DEF LimitAt
    <3>4. CASE Judged(p, r, n - 1)
      <4>1. Judged(q, r, n)
        BY <1>1, <1>4, <3>2, <3>4 DEF Judged
      <4>2. QED
        BY <2>1, <2>2, <4>1 DEF LimitAt
    <3>5. QED
      BY <3>3, <3>4 DEF LimitAt
  <2>5. QED
    BY <2>3, <2>4
<1>5. QED
  BY <1>3, <1>4

LEMMA LimitAtTheEnd ==
    ASSUME setup \in Setups, PluginsForm(plugins), NEW r, RecordForm(r), NEW keep
    PROVE  LimitAt(ThroughChain(r, keep), r, Len(setup.chain))
<1> DEFINE m == Len(setup.chain)
<1>1. m \in Nat
  BY SetupIs
<1>2. PICK f : RunOf(f, m, r, keep) /\ ThroughChain(r, keep) = f[m]
  BY <1>1, ChainIsRun
<1>3. \A n \in 0..m : f[n] = IF n = 0 THEN Start(r) ELSE AfterHook(f[n - 1], n, keep)
  BY <1>2 DEF RunOf
<1> DEFINE Bad == {n \in 0..m : ~LimitAt(f[n], r, n)}
<1>4. Bad = {}
  <2> SUFFICES ASSUME Bad # {} PROVE FALSE
    OBVIOUS
  <2>1. PICK n \in Bad : \A k \in Bad : n <= k
    <3>1. Bad \in SUBSET Nat
      BY <1>1
    <3>2. QED
      BY <3>1, LeastNatural
  <2>2. n \in 0..m /\ ~LimitAt(f[n], r, n)
    BY <2>1
  <2>3. LimitAt(Start(r), r, 0)
    <3>1. Start(r) = [plugins |-> plugins, record |-> r, wrote |-> <<>>, fate |-> "queued"]
      BY DEF Start
    <3>2. QED
      BY <3>1 DEF LimitAt, Whole, NotYet
  <2>4. n # 0
    <3>1. 0 \in 0..m
      BY <1>1
    <3>2. QED
      BY <1>3, <2>2, <2>3, <3>1
  <2>5. n - 1 \in 0..m /\ n \in 1..m /\ ~(n <= n - 1)
    BY <1>1, <2>2, <2>4
  <2>6. LimitAt(f[n - 1], r, n - 1)
    <3> HIDE DEF Bad
    <3>1. n - 1 \notin Bad
      BY <2>1, <2>5
    <3>2. QED
      BY <2>5, <3>1 DEF Bad
  <2>7. f[n] = AfterHook(f[n - 1], n, keep)
    BY <1>3, <2>2, <2>4
  <2>8. QED
    BY <2>2, <2>5, <2>6, <2>7, LimitNext
<1>5. m \in 0..m
  BY <1>1
<1>6. QED
  BY <1>2, <1>4, <1>5

ReachesLimit(fate) ==
    "rateLimit" \in Range(setup.chain) /\ (fate = "sampled" => ~Ahead("sampling", "rateLimit"))

LimitSees(end, r) ==
    LET verdict == Rate!RateLimited(plugins.windows, r.key, clock)
    IN  IF ReachesLimit(end.fate)
        THEN end.plugins.windows = verdict.windows /\ (end.fate = "limited" <=> ~verdict.pass)
        ELSE end.plugins.windows = plugins.windows

LEMMA LimitJudges ==
    ASSUME setup \in Setups, PluginsForm(plugins), NEW r, RecordForm(r), NEW keep
    PROVE  LimitSees(ThroughChain(r, keep), r)
<1> DEFINE m == Len(setup.chain)
           end == ThroughChain(r, keep)
           verdict == Rate!RateLimited(plugins.windows, r.key, clock)
<1>1. /\ m \in Nat /\ DOMAIN setup.chain = 1..m
      /\ \A hook : hook \in Range(setup.chain) <=> \E n \in 1..m : HookAt(n, hook)
      /\ Ahead("sampling", "rateLimit") <=>
           \E i, j \in 1..m : i < j /\ HookAt(i, "sampling") /\ HookAt(j, "rateLimit")
      /\ \A i, j \in 1..m : HookAt(i, "rateLimit") /\ HookAt(j, "rateLimit") => i = j
      /\ \A i, j \in 1..m : HookAt(i, "sampling") /\ HookAt(j, "sampling") => i = j
  <2>1. /\ setup.chain \in Seq(Hooks)
        /\ \A i, j \in DOMAIN setup.chain : setup.chain[i] = setup.chain[j] => i = j
    BY SetupIs
  <2>2. m \in Nat /\ DOMAIN setup.chain = 1..m
    BY <2>1
  <2>3. QED
    BY <2>1, <2>2 DEF HookAt, Ahead, Range
<1>2. LimitAt(end, r, m)
  BY LimitAtTheEnd
<1> HIDE DEF m, end, verdict
<1>3. CASE NotYet(end, m)
  <2>1. ReachesLimit(end.fate) => FALSE
    <3>1. CASE end.fate = "queued"
      BY <1>1, <1>3, <3>1 DEF NotYet, ReachesLimit
    <3>2. CASE end.fate = "sampled"
      <4> SUFFICES ASSUME ReachesLimit(end.fate) PROVE FALSE
        OBVIOUS
      <4>1. PICK i \in 1..m : HookAt(i, "sampling") /\ \A j \in 1..i : ~HookAt(j, "rateLimit")
        BY <1>3, <3>2 DEF NotYet
      <4>2. PICK j \in 1..m : HookAt(j, "rateLimit")
        BY <1>1 DEF ReachesLimit
      <4>3. i < j
        BY <4>1, <4>2
      <4>4. QED
        BY <1>1, <3>2, <4>1, <4>2, <4>3 DEF ReachesLimit
    <3>3. QED
      BY <1>3, <3>1, <3>2 DEF NotYet
  <2>2. QED
    BY <1>3, <2>1 DEF LimitSees, NotYet, end
<1>4. CASE Judged(end, r, m)
  <2>1. PICK j \in 1..m :
           /\ HookAt(j, "rateLimit")
           /\ end.fate = "sampled" => \E i \in 1..m : j < i /\ HookAt(i, "sampling")
    BY <1>4 DEF Judged
  <2>2. ReachesLimit(end.fate)
    <3>1. "rateLimit" \in Range(setup.chain)
      BY <1>1, <2>1
    <3>2. ASSUME end.fate = "sampled", Ahead("sampling", "rateLimit") PROVE FALSE
      <4>1. PICK i \in 1..m : j < i /\ HookAt(i, "sampling")
        BY <2>1, <3>2
      <4>2. PICK a \in 1..m, b \in 1..m : a < b /\ HookAt(a, "sampling") /\ HookAt(b, "rateLimit")
        BY <1>1, <3>2
      <4>3. a = i /\ b = j
        BY <1>1, <2>1, <4>1, <4>2
      <4>4. QED
        BY <4>1, <4>2, <4>3
    <3>3. QED
      BY <3>1, <3>2 DEF ReachesLimit
  <2>3. QED
    BY <1>4, <2>2 DEF LimitSees, Judged, end
<1>5. QED
  BY <1>2, <1>3, <1>4 DEF LimitAt

-----------------------------------------------------------------------------
(* The windows of RateLimitPlugin, and what the log says of them.            *)

RateSeen == [i \in Reached |-> log[i].call.key]
WindowOK(w, now) ==
    w = [start |-> w.start, count |-> w.count] /\ w.start \in 0..now /\ w.count \in 1..MaxPerWindow

\* c records of a key passed since t; what its entry must say then.
Fits(windows, k, t, c) ==
    /\ k \notin Map!Keys(windows) => c = 0
    /\ \A e \in Entries(windows) : e.key = k =>
          IF e.value.start >= t THEN c <= MaxPerWindow - 1 + e.value.count
                                ELSE c <= e.value.count - 1

WindowsOK(windows, now) == MapOK(windows) /\ \A e \in Entries(windows) : WindowOK(e.value, now)

Counts(k, t) == Cardinality(Passed(k, t))
WindowFits(k, t) ==
    Undisturbed(k, t) => /\ Counts(k, t) <= 2 * MaxPerWindow - 1
                         /\ clock <= t + PerSeconds - 1 => Fits(plugins.windows, k, t, Counts(k, t))

WindowInv ==
    /\ WindowsOK(plugins.windows, clock)
    /\ Recent(plugins.windows, RateSeen)
    /\ \A i, j \in LogIndices : i < j => log[i].at <= log[j].at
    /\ \A k, t : t \in 0..clock => WindowFits(k, t)

\* What fits is bounded.
LEMMA FitsBound ==
    ASSUME NEW windows, NEW now, WindowsOK(windows, now), NEW k, NEW t, NEW c \in Nat,
           Fits(windows, k, t, c)
    PROVE  c <= 2 * MaxPerWindow - 1
<1>0. MaxPerWindow \in Nat \ {0}
  BY Limits
<1>1. CASE k \notin Map!Keys(windows)
  BY <1>0, <1>1 DEF Fits
<1>2. CASE k \in Map!Keys(windows)
  <2>1. PICK e \in Entries(windows) : e.key = k
    BY <1>2, KeysOfEntries DEF WindowsOK
  <2>2. e.value.count \in 1..MaxPerWindow
    BY <2>1 DEF WindowsOK, WindowOK
  <2>3. c <= MaxPerWindow - 1 + e.value.count \/ c <= e.value.count - 1
    BY <2>1 DEF Fits
  <2>4. QED
    BY <1>0, <2>2, <2>3
<1>3. QED
  BY <1>1, <1>2

LEMMA PassedFinite ==
    ASSUME LogOK, NEW k, NEW t
    PROVE  /\ LogIndices = 1..Len(log) /\ Len(log) \in Nat
           /\ IsFiniteSet(Reached) /\ Reached \subseteq 1..Len(log)
           /\ IsFiniteSet(Passed(k, t)) /\ Counts(k, t) \in Nat
           /\ IsFiniteSet(Others(k, t)) /\ Cardinality(Others(k, t)) \in Nat
<1>1. LogIndices = 1..Len(log) /\ Len(log) \in Nat
  BY SeqDomain DEF LogOK, LogIndices
<1>2. IsFiniteSet(1..Len(log))
  BY <1>1, FS_Interval
<1>3. Reached \subseteq 1..Len(log) /\ Passed(k, t) \subseteq 1..Len(log)
  BY <1>1 DEF Reached, Passed
<1>4. IsFiniteSet(Reached) /\ IsFiniteSet(Passed(k, t))
  BY <1>2, <1>3, FS_Subset
<1> DEFINE J == {j \in Reached : InSpan(j, t)}
           K == {log[i].call.key : i \in J}
<1>5. IsFiniteSet(K)
  <2>1. IsFiniteSet(J)
    BY <1>4, FS_Subset
  <2> DEFINE f == [i \in J |-> log[i].call.key]
  <2>2. f \in Surjection(J, K)
    BY DEF Surjection
  <2> HIDE DEF J, f, K
  <2>3. QED
    BY <2>1, <2>2, FS_Surjection
<1>6. IsFiniteSet(Others(k, t))
  <2>1. Others(k, t) \subseteq K
    BY DEF Others
  <2> HIDE DEF K
  <2>2. QED
    BY <1>5, <2>1, FS_Subset
<1>7. QED
  BY <1>1, <1>3, <1>4, <1>6, FS_CardinalityType DEF Counts

\* beforeLog() of the rate limit: a record counts against its key's window, or
\* opens one.
LEMMA LimitIs ==
    ASSUME NEW w, NEW now \in Nat, WindowsOK(w, now), NEW key, NEW v,
           v = Rate!RateLimited(w, key, now)
    PROVE  \/ \E d \in Entries(w) : \E x :
                 /\ d.key = key /\ (v.pass <=> d.value.count < MaxPerWindow)
                 /\ x.start = d.value.start /\ WindowOK(x, now)
                 /\ x.count = IF v.pass THEN d.value.count + 1 ELSE d.value.count
                 /\ v.windows = Map!Touched(w, key, x)
           \/ /\ v.pass /\ \A d \in Entries(w) : d.key = key => d.value.start <= now - PerSeconds
              /\ \E x : /\ x.start = now /\ x.count = 1 /\ WindowOK(x, now)
                        /\ v.windows = Map!Newest(Map!Touched(w, key, x), MaxKeys)
<1>0. MapOK(w) /\ MaxPerWindow \in Nat \ {0} /\ PerSeconds \in Nat \ {0}
  BY Limits DEF WindowsOK
<1>1. CASE key \in Rate!Keys(w) /\ now - Rate!At(w, key).start < PerSeconds
  <2>1. PICK d \in Entries(w) : d.key = key
    BY <1>0, <1>1, RateMaps, KeysOfEntries
  <2> DEFINE y == d.value
             x == IF y.count < MaxPerWindow THEN [y EXCEPT !.count = @ + 1] ELSE y
  <2>2. Rate!At(w, key) = y
    BY <1>0, <2>1, RateMaps, AtIs
  <2>3. v = Rate!Counted(w, key)
    BY <1>1 DEF Rate!RateLimited
  <2>4. (v.pass <=> y.count < MaxPerWindow) /\ v.windows = Map!Touched(w, key, x)
    <3> DEFINE room == y.count < MaxPerWindow
               m == Rate!Touched(w, key, x)
    <3>1. v = [pass |-> room, windows |-> m]
      BY <2>2, <2>3, Zenon DEF Rate!Counted
    <3>2. Rate!Touched(w, key, x) = Map!Touched(w, key, x)
      BY RateMaps
    <3> HIDE DEF x, y, room, m
    <3>3. v.pass = room /\ v.windows = m
      BY <3>1
    <3>4. QED
      BY <3>2, <3>3, Zenon DEF room, m
  <2>5. WindowOK(y, now)
    BY <2>1 DEF WindowsOK
  <2> HIDE DEF y
  <2>6. /\ WindowOK(x, now) /\ x.start = y.start
        /\ x.count = IF y.count < MaxPerWindow THEN y.count + 1 ELSE y.count
    BY <1>0, <2>5 DEF WindowOK
  <2> HIDE DEF x
  <2>7. QED
    BY <2>1, <2>4, <2>6 DEF y
<1>2. CASE ~(key \in Rate!Keys(w) /\ now - Rate!At(w, key).start < PerSeconds)
  <2> DEFINE x == [start |-> now, count |-> 1]
  <2>1. v = Rate!Opened(w, key, now)
    BY <1>2 DEF Rate!RateLimited
  <2>2. v.pass /\ v.windows = Map!Newest(Map!Touched(w, key, x), MaxKeys)
    BY <2>1, RateMaps DEF Rate!Opened
  <2>3. x.start = now /\ x.count = 1 /\ WindowOK(x, now)
    BY <1>0 DEF WindowOK
  <2> HIDE DEF x
  <2>4. ASSUME NEW d \in Entries(w), d.key = key PROVE d.value.start <= now - PerSeconds
    <3>1. key \in Rate!Keys(w) /\ Rate!At(w, key) = d.value
      BY <1>0, <2>4, RateMaps, AtIs
    <3>2. WindowOK(d.value, now)
      BY DEF WindowsOK
    <3>3. d.value.start \in Nat
      BY <3>2 DEF WindowOK
    <3>4. QED
      BY <1>0, <1>2, <3>1, <3>3
  <2>5. QED
    BY <2>2, <2>3, <2>4
<1>3. QED
  BY <1>1, <1>2

LEMMA WindowsStayOK ==
    ASSUME NEW w, NEW now \in Nat, WindowsOK(w, now), NEW key, NEW v,
           v = Rate!RateLimited(w, key, now), NEW seen, Recent(w, seen), NEW n, Past(seen, n)
    PROVE  WindowsOK(v.windows, now) /\ Recent(v.windows, SeenNext(seen, n, key))
<1>1. ASSUME NEW x, WindowOK(x, now)
      PROVE  WindowsOK(Map!Touched(w, key, x), now)
             /\ Recent(Map!Touched(w, key, x), SeenNext(seen, n, key))
  <2>1. /\ MapOK(Map!Touched(w, key, x))
        /\ Entries(Map!Touched(w, key, x)) = But(w, key) \cup {[key |-> key, value |-> x]}
    BY TouchedIs DEF WindowsOK
  <2>2. Recent(Map!Touched(w, key, x), SeenNext(seen, n, key))
    BY RecentTouched DEF WindowsOK
  <2>3. \A e \in Entries(Map!Touched(w, key, x)) : WindowOK(e.value, now)
    BY <1>1, <2>1 DEF WindowsOK, But
  <2>4. QED
    BY <2>1, <2>2, <2>3 DEF WindowsOK
<1>2. ASSUME NEW m, WindowsOK(m, now), Recent(m, SeenNext(seen, n, key))
      PROVE  WindowsOK(Map!Newest(m, MaxKeys), now)
             /\ Recent(Map!Newest(m, MaxKeys), SeenNext(seen, n, key))
  BY <1>2, Limits, NewestIs, RecentNewest DEF WindowsOK
<1>3. QED
  BY <1>1, <1>2, LimitIs

\* A key touched last stays, if any does.
LEMMA LastStays ==
    ASSUME NEW m, MapOK(m), NEW seen, NEW i, Past(seen, i), NEW key,
           Recent(m, SeenNext(seen, i, key)), key \in Map!Keys(m), NEW n \in Nat \ {0}
    PROVE  key \in Map!Keys(Map!Newest(m, n))
<1> SUFFICES ASSUME key \notin Map!Keys(Map!Newest(m, n)) PROVE FALSE
  OBVIOUS
<1> DEFINE new == SeenNext(seen, i, key)
<1>1. \A l : ~After(new, key, l)
  <2>1. DOMAIN new = DOMAIN seen \cup {i} /\ new[i] = key
    BY DEF SeenNext
  <2>2. \A j \in DOMAIN new : ~(i < j)
    BY <2>1 DEF Past
  <2> HIDE DEF new
  <2>3. QED
    BY <2>1, <2>2 DEF After
<1> HIDE DEF new
<1>2. IsFiniteSet({}) /\ Cardinality({}) = 0
  BY FS_EmptySet
<1>3. n <= Cardinality({})
  <2>1. \A l : After(new, key, l) => l \in {}
    BY <1>1
  <2>2. n \in Nat /\ Recent(m, new)
    BY DEF new
  <2>3. QED
    BY <1>2, <2>1, <2>2, EvictedByOthers
<1>4. QED
  BY <1>2, <1>3

LEMMA FitsNext ==
    ASSUME NEW w, NEW now \in Nat, WindowsOK(w, now), NEW key, NEW v,
           v = Rate!RateLimited(w, key, now), NEW seen, Recent(w, seen), NEW n, Past(seen, n),
           NEW k, NEW t \in 0..now, now <= t + PerSeconds - 1, NEW c \in Nat, Fits(w, k, t, c),
           NEW S, IsFiniteSet(S), Cardinality(S) < MaxKeys,
           c > 0 => \A l : After(SeenNext(seen, n, key), k, l) => l \in S
    PROVE  Fits(v.windows, k, t, IF key = k /\ v.pass THEN c + 1 ELSE c)
<1>0. /\ MaxPerWindow \in Nat \ {0} /\ PerSeconds \in Nat \ {0} /\ MaxKeys \in Nat \ {0}
      /\ MapOK(w)
  BY Limits, FS_CardinalityType DEF WindowsOK
<1>1. \A d \in Entries(w) : /\ d.value.start \in 0..now /\ d.value.count \in 1..MaxPerWindow
                            /\ d.key \in Map!Keys(w)
  BY <1>0, AtIs DEF WindowsOK, WindowOK
<1>2. \A m : MapOK(m) => \A l : l \in Map!Keys(m) <=> \E e \in Entries(m) : e.key = l
  BY KeysOfEntries
<1>3. CASE \E d \in Entries(w) : \E x :
              /\ d.key = key /\ (v.pass <=> d.value.count < MaxPerWindow)
              /\ x.start = d.value.start /\ WindowOK(x, now)
              /\ x.count = IF v.pass THEN d.value.count + 1 ELSE d.value.count
              /\ v.windows = Map!Touched(w, key, x)
  <2>0. PICK d \in Entries(w) : \E x :
              /\ d.key = key /\ (v.pass <=> d.value.count < MaxPerWindow)
              /\ x.start = d.value.start /\ WindowOK(x, now)
              /\ x.count = IF v.pass THEN d.value.count + 1 ELSE d.value.count
              /\ v.windows = Map!Touched(w, key, x)
    BY <1>3
  <2>1. PICK x :
              /\ d.key = key /\ (v.pass <=> d.value.count < MaxPerWindow)
              /\ x.start = d.value.start /\ WindowOK(x, now)
              /\ x.count = IF v.pass THEN d.value.count + 1 ELSE d.value.count
              /\ v.windows = Map!Touched(w, key, x)
    BY <2>0
  <2> DEFINE m == Map!Touched(w, key, x)
             z == [key |-> key, value |-> x]
  <2>2. MapOK(m) /\ Entries(m) = But(w, key) \cup {z}
    BY <1>0, TouchedIs
  <2>3. z.key = key /\ z.value = x
    OBVIOUS
  <2>4. m = v.windows
    BY <2>1
  <2> HIDE DEF m, z
  <2>5. CASE k = key
    <3>1. k \in Map!Keys(m) /\ \A e \in Entries(m) : e.key = k => e.value = x
      BY <1>2, <2>2, <2>3, <2>5 DEF But
    <3>2. IF x.start >= t THEN c <= MaxPerWindow - 1 + d.value.count ELSE c <= d.value.count - 1
      BY <2>1, <2>5 DEF Fits
    <3>3. d.value.count \in Nat
      BY <1>1
    <3>4. QED
      BY <1>0, <2>1, <2>4, <2>5, <3>1, <3>2, <3>3 DEF Fits
  <2>6. CASE k # key
    <3>1. \A e : e.key = k => (e \in Entries(m) <=> e \in Entries(w))
      BY <2>2, <2>3, <2>6 DEF But
    <3>2. k \in Map!Keys(m) <=> k \in Map!Keys(w)
      BY <1>0, <1>2, <2>2, <3>1
    <3>3. QED
      BY <2>4, <2>6, <3>1, <3>2 DEF Fits
  <2>7. QED
    BY <2>5, <2>6
<1>4. CASE /\ v.pass /\ \A d \in Entries(w) : d.key = key => d.value.start <= now - PerSeconds
           /\ \E x : /\ x.start = now /\ x.count = 1 /\ WindowOK(x, now)
                     /\ v.windows = Map!Newest(Map!Touched(w, key, x), MaxKeys)
  <2>1. PICK x : /\ x.start = now /\ x.count = 1 /\ WindowOK(x, now)
                 /\ v.windows = Map!Newest(Map!Touched(w, key, x), MaxKeys)
    BY <1>4
  <2> DEFINE m == Map!Touched(w, key, x)
             z == [key |-> key, value |-> x]
             new == SeenNext(seen, n, key)
             p == v.windows
  <2>2. MapOK(m) /\ Entries(m) = But(w, key) \cup {z} /\ Recent(m, new)
    BY <1>0, TouchedIs, RecentTouched
  <2>3. z.key = key /\ z.value = x
    OBVIOUS
  <2>4. p = Map!Newest(m, MaxKeys)
    BY <2>1
  <2> HIDE DEF m, z, p, new
  <2>5. MapOK(p) /\ Entries(p) \subseteq Entries(m)
    BY <1>0, <2>2, <2>4, NewestIs
  <2>6. CASE k = key
    <3>1. key \in Map!Keys(m)
      BY <1>2, <2>2, <2>3
    <3>2. k \in Map!Keys(p)
      BY <1>0, <2>2, <2>4, <2>6, <3>1, LastStays DEF new
    <3>3. \A e \in Entries(p) : e.key = k => e.value = x
      BY <2>2, <2>3, <2>5, <2>6 DEF But
    <3>4. c <= MaxPerWindow - 1
      <4>1. CASE k \notin Map!Keys(w)
        BY <1>0, <4>1 DEF Fits
      <4>2. CASE k \in Map!Keys(w)
        <5>1. PICK d \in Entries(w) : d.key = k
          BY <1>0, <1>2, <4>2
        <5>2. d.value.start <= now - PerSeconds
          BY <1>4, <2>6, <5>1
        <5>3. d.value.start < t /\ ~(d.value.start >= t)
          BY <1>0, <1>1, <5>2
        <5>4. c <= d.value.count - 1
          BY <5>1, <5>3 DEF Fits
        <5>5. QED
          BY <1>0, <1>1, <5>4
      <4>3. QED
        BY <4>1, <4>2
    <3>5. now >= t /\ c + 1 <= MaxPerWindow - 1 + 1
      BY <1>0, <3>4
    <3>6. QED
      BY <1>4, <2>1, <2>6, <3>2, <3>3, <3>5 DEF Fits, p
  <2>7. CASE k # key
    <3>1. \A e \in Entries(p) : e.key = k => e \in Entries(w)
      BY <2>2, <2>3, <2>5, <2>7 DEF But
    <3>2. ASSUME k \notin Map!Keys(p) PROVE c = 0
      <4> SUFFICES ASSUME c > 0 PROVE FALSE
        OBVIOUS
      <4>1. k \in Map!Keys(w)
        BY DEF Fits
      <4>2. PICK d \in Entries(w) : d.key = k
        BY <1>0, <1>2, <4>1
      <4>3. d \in Entries(m)
        BY <2>2, <2>7, <4>2 DEF But
      <4>4. k \in Map!Keys(m)
        BY <1>2, <2>2, <4>2, <4>3
      <4>5. \A l : After(new, k, l) => l \in S
        BY DEF new
      <4>6. MaxKeys <= Cardinality(S)
        BY <1>0, <2>2, <2>4, <3>2, <4>4, <4>5, EvictedByOthers
      <4>7. QED
        BY <1>0, <4>6, FS_CardinalityType
    <3>3. Fits(p, k, t, c)
      BY <3>1, <3>2 DEF Fits
    <3>4. QED
      BY <2>7, <3>3 DEF p
  <2>8. QED
    BY <2>6, <2>7
<1>5. QED
  BY <1>3, <1>4, LimitIs

LEMMA WindowsStart == Init => WindowInv
<1> SUFFICES ASSUME Init PROVE WindowInv
  OBVIOUS
<1>1. /\ clock = 0 /\ log = <<>> /\ plugins.windows = <<>> /\ setup \in Setups
  BY RateMaps DEF Init
<1> DEFINE w == plugins.windows
<1>2. w = <<>>
  BY <1>1
<1> HIDE DEF w
<1>3. MapOK(w) /\ Entries(w) = {} /\ Len(w) = 0
  BY <1>2, EmptyIsMap, Zenon
<1>4. WindowsOK(w, clock) /\ Recent(w, RateSeen)
  BY <1>3 DEF WindowsOK, Recent
<1>5. LogIndices = {}
  BY <1>1 DEF LogIndices
<1>6. ASSUME NEW k, NEW t PROVE WindowFits(k, t)
  <2>1. Passed(k, t) = {}
    BY <1>5 DEF Passed, Reached
  <2>2. Counts(k, t) = 0
    BY <2>1, FS_EmptySet DEF Counts
  <2>3. Fits(w, k, t, 0) /\ 0 <= 2 * MaxPerWindow - 1
    BY <1>3, Limits DEF Fits
  <2>4. QED
    BY <2>2, <2>3 DEF WindowFits, w
<1>7. QED
  BY <1>4, <1>5, <1>6 DEF WindowInv, w

LEMMA WindowsWait ==
    ASSUME LogOK, WindowInv, UNCHANGED <<setup, plugins, log>>, clock' \in Nat, clock <= clock'
    PROVE  WindowInv'
<1>1. /\ LogIndices' = LogIndices /\ Reached' = Reached /\ RateSeen' = RateSeen
      /\ \A k, t : /\ Passed(k, t)' = Passed(k, t) /\ Undisturbed(k, t)' = Undisturbed(k, t)
                   /\ Counts(k, t)' = Counts(k, t)
  BY DEF LogIndices, Reached, RateSeen, Passed, Others, Undisturbed, Counts, InSpan, Ahead
<1>2. clock \in Nat /\ WindowsOK(plugins.windows, clock)
  BY DEF LogOK, WindowInv
<1>3. WindowsOK(plugins.windows, clock')
  BY <1>2 DEF WindowsOK, WindowOK
<1>4. ASSUME NEW k, NEW t \in 0..clock' PROVE WindowFits(k, t)'
  <2>1. CASE t <= clock
    <3>1. WindowFits(k, t)
      BY <1>2, <2>1 DEF WindowInv
    <3>2. clock' <= t + PerSeconds - 1 => clock <= t + PerSeconds - 1
      BY <1>2, Limits
    <3>3. QED
      BY <1>1, <3>1, <3>2 DEF WindowFits
  <2>2. CASE ~(t <= clock)
    <3>1. \A i \in 1..Len(log) : ~(log[i].at \in t..(t + PerSeconds - 1))
      BY <1>2, <2>2 DEF LogOK
    <3>2. Passed(k, t) = {}
      BY <3>1, PassedFinite DEF Passed, InSpan
    <3>3. Counts(k, t) = 0
      BY <3>2, FS_EmptySet DEF Counts
    <3>4. Fits(plugins.windows, k, t, 0)
      <4>1. ASSUME NEW e \in Entries(plugins.windows)
            PROVE  ~(e.value.start >= t) /\ 0 <= e.value.count - 1
        <5>1. WindowOK(e.value, clock)
          BY <1>2 DEF WindowsOK
        <5>2. e.value.start \in 0..clock /\ e.value.count \in 1..MaxPerWindow
          BY <5>1 DEF WindowOK
        <5>3. QED
          BY <1>2, <2>2, <5>2, Limits
      <4>2. QED
        BY <4>1 DEF Fits
    <3>5. 0 <= 2 * MaxPerWindow - 1
      BY Limits
    <3>6. QED
      BY <1>1, <3>3, <3>4, <3>5 DEF WindowFits
  <2>3. QED
    BY <2>1, <2>2
<1>5. QED
  BY <1>1, <1>3, <1>4 DEF WindowInv

LEMMA WindowsDispatch == PipeInv /\ WindowInv /\ Dispatch => WindowInv'
<1> SUFFICES ASSUME PipeInv, WindowInv, Dispatch PROVE WindowInv'
  OBVIOUS
<1>0. PICK n : n = Len(log) + 1
  OBVIOUS
<1>1. PICK call \in setup.calls, keep \in BOOLEAN :
         LET end == ThroughChain(Record(call, n), keep)
         IN  /\ plugins' = end.plugins
             /\ log' = Append(log, [call |-> call, at |-> clock, fate |-> end.fate,
                                    retry_count |-> Retry!Attempt(attempts, call.key)])
  BY <1>0 DEF Dispatch
<1> DEFINE end   == ThroughChain(Record(call, n), keep)
           entry == [call |-> call, at |-> clock, fate |-> end.fate,
                     retry_count |-> Retry!Attempt(attempts, call.key)]
           key   == call.key
           v     == Rate!RateLimited(plugins.windows, key, clock)
<1>2. UNCHANGED <<setup, clock>> /\ plugins' = end.plugins /\ log' = Append(log, entry)
  BY <1>1 DEF Dispatch
<1>3. entry.at = clock /\ entry.fate = end.fate /\ entry.call = call
  OBVIOUS
<1>4. LimitSees(end, Record(call, n)) /\ Record(call, n).key = key
  <2>1. RecordForm(Record(call, n)) /\ Record(call, n).key = key
    BY DEF Record, RecordForm
  <2>2. setup \in Setups /\ PluginsForm(plugins)
    BY DEF PipeInv
  <2>3. QED
    BY <2>1, <2>2, LimitJudges
<1>5. /\ ReachesLimit(end.fate) => /\ plugins'.windows = v.windows
                                   /\ end.fate = "limited" <=> ~v.pass
      /\ ~ReachesLimit(end.fate) => plugins'.windows = plugins.windows
  BY <1>2, <1>4 DEF LimitSees
<1>6. LogOK /\ clock \in Nat /\ IsSeq(log) /\ Len(log) \in Nat /\ n \in Nat
  BY <1>0 DEF PipeInv, LogOK, IsSeq
<1>7. LogOK'
  BY DispatchStep DEF PipeInv
<1> HIDE DEF end, entry
<1>8. /\ Len(log') = n /\ log'[n] = entry /\ \A i \in 1..Len(log) : log'[i] = log[i]
      /\ LogIndices = 1..Len(log) /\ LogIndices' = (1..Len(log)) \cup {n}
      /\ \A i \in 1..Len(log) : i < n
  <2>1. /\ IsSeq(log') /\ Len(log') = n /\ log'[n] = entry
        /\ \A i \in 1..Len(log) : log'[i] = log[i]
    BY <1>0, <1>2, <1>6, Appended
  <2>2. LogIndices = 1..Len(log) /\ LogIndices' = 1..Len(log')
    BY <1>6, <2>1, SeqDomain DEF LogIndices
  <2>3. 1..Len(log') = (1..Len(log)) \cup {n} /\ \A i \in 1..Len(log) : i < n
    BY <1>0, <1>6, <2>1
  <2>4. QED
    BY <2>1, <2>2, <2>3
<1>9. /\ Reached \subseteq 1..Len(log)
      /\ Reached' = IF ReachesLimit(end.fate) THEN Reached \cup {n} ELSE Reached
  <2>1. Ahead("sampling", "rateLimit")' = Ahead("sampling", "rateLimit") /\ setup' = setup
    BY <1>2 DEF Ahead
  <2>2. \A i \in 1..Len(log) : i \in Reached' <=> i \in Reached
    BY <1>8, <2>1 DEF Reached
  <2>3. n \in Reached' <=> ReachesLimit(end.fate)
    BY <1>3, <1>8, <2>1 DEF Reached, ReachesLimit
  <2>4. Reached \subseteq 1..Len(log) /\ Reached' \subseteq (1..Len(log)) \cup {n}
    BY <1>8 DEF Reached
  <2>5. CASE ReachesLimit(end.fate)
    BY <2>2, <2>3, <2>4, <2>5
  <2>6. CASE ~ReachesLimit(end.fate)
    <3>1. \A i : i \in Reached' <=> i \in Reached
      <4>1. \A i \in Reached' : i \in Reached
        BY <2>2, <2>3, <2>4, <2>6
      <4>2. \A i \in Reached : i \in Reached'
        BY <2>2, <2>4
      <4>3. QED
        BY <4>1, <4>2
    <3>2. Reached' = Reached
      BY <3>1, Zenon
    <3>3. QED
      BY <2>4, <2>6, <3>2
  <2>7. QED
    BY <2>4, <2>5, <2>6
<1>10. \A i, j \in LogIndices' : i < j => log'[i].at <= log'[j].at
  <2>1. \A i \in 1..Len(log) : log[i].at \in Nat /\ log[i].at <= clock
    BY <1>6 DEF LogOK
  <2>2. \A i \in 1..Len(log) : ~(n < i)
    BY <1>6, <1>8
  <2>3. \A i, j \in 1..Len(log) : i < j => log[i].at <= log[j].at
    BY <1>8 DEF WindowInv
  <2>4. QED
    BY <1>3, <1>6, <1>8, <2>1, <2>2, <2>3
<1>11. ASSUME NEW k, NEW t
       PROVE  /\ Passed(k, t)' = IF /\ ReachesLimit(end.fate) /\ key = k /\ end.fate # "limited"
                                    /\ clock \in t..(t + PerSeconds - 1)
                                 THEN Passed(k, t) \cup {n} ELSE Passed(k, t)
              /\ n \notin Passed(k, t)
              /\ Others(k, t) \subseteq Others(k, t)'
              /\ Undisturbed(k, t)' => Undisturbed(k, t)
              /\ IsFiniteSet(Others(k, t)')
  <2>1. \A i \in 1..Len(log) : InSpan(i, t)' = InSpan(i, t)
    BY <1>8 DEF InSpan
  <2>2. InSpan(n, t)' = (clock \in t..(t + PerSeconds - 1))
    BY <1>3, <1>8 DEF InSpan
  <2>3. \A i \in Reached : i \in Reached' /\ i \in 1..Len(log) /\ i # n
    BY <1>8, <1>9
  <2>4. \A i \in 1..Len(log) : i \in Passed(k, t)' <=> i \in Passed(k, t)
    BY <1>8, <1>9, <2>1, <2>3 DEF Passed
  <2>5. n \in Passed(k, t)' <=> /\ ReachesLimit(end.fate) /\ key = k /\ end.fate # "limited"
                                /\ clock \in t..(t + PerSeconds - 1)
    BY <1>3, <1>8, <1>9, <2>2, <2>3 DEF Passed
  <2>6. /\ Passed(k, t) \subseteq 1..Len(log) /\ Passed(k, t)' \subseteq (1..Len(log)) \cup {n}
        /\ n \notin Passed(k, t)
    BY <1>9, <2>3 DEF Passed
  <2>7. Others(k, t) \subseteq Others(k, t)'
    BY <1>8, <2>1, <2>3 DEF Others
  <2>8. IsFiniteSet(Others(k, t)')
    <3>1. Others(k, t)' \subseteq Others(k, t) \cup {key}
      <4>1. \A i \in Reached' : i = n \/ i \in Reached
        BY <1>9
      <4>2. \A i \in Reached : log'[i] = log[i] /\ InSpan(i, t)' = InSpan(i, t)
        BY <1>8, <2>1, <2>3
      <4>3. log'[n].call.key = key
        BY <1>3, <1>8
      <4> HIDE DEF key
      <4>4. QED
        BY <4>1, <4>2, <4>3 DEF Others
    <3>2. IsFiniteSet(Others(k, t) \cup {key})
      BY <1>6, PassedFinite, FS_AddElement
    <3>3. QED
      BY <3>1, <3>2, FS_Subset
  <2>9. Undisturbed(k, t)' => Undisturbed(k, t)
    <3> SUFFICES ASSUME Undisturbed(k, t)' PROVE Undisturbed(k, t)
      OBVIOUS
    <3>1. IsFiniteSet(Others(k, t)') /\ Cardinality(Others(k, t)') < MaxKeys
      BY <2>8 DEF Undisturbed
    <3>2. Cardinality(Others(k, t)) <= Cardinality(Others(k, t)')
      BY <2>7, <3>1, FS_Subset
    <3>3. Cardinality(Others(k, t)) \in Nat /\ Cardinality(Others(k, t)') \in Nat /\ MaxKeys \in Nat
      BY <1>6, <3>1, PassedFinite, FS_CardinalityType, Limits
    <3>4. QED
      BY <3>1, <3>2, <3>3 DEF Undisturbed
  <2> DEFINE more == /\ ReachesLimit(end.fate) /\ key = k /\ end.fate # "limited"
                        /\ clock \in t..(t + PerSeconds - 1)
  <2>10. Passed(k, t)' = IF more THEN Passed(k, t) \cup {n} ELSE Passed(k, t)
    <3>1. n \in Passed(k, t)' <=> more
      BY <2>5
    <3> HIDE DEF more
    <3>2. CASE more
      BY <2>4, <2>6, <3>1, <3>2
    <3>3. CASE ~more
      BY <2>4, <2>6, <3>1, <3>3
    <3>4. QED
      BY <3>2, <3>3
  <2>11. QED
    BY <2>6, <2>7, <2>8, <2>9, <2>10
<1>12. /\ Past(RateSeen, n)
       /\ RateSeen' = IF ReachesLimit(end.fate) THEN SeenNext(RateSeen, n, key) ELSE RateSeen
  <2>1. Past(RateSeen, n)
    <3>1. DOMAIN RateSeen = Reached
      BY DEF RateSeen
    <3>2. \A i \in Reached : i \in Nat /\ i < n
      BY <1>6, <1>8, <1>9
    <3>3. QED
      BY <1>6, <3>1, <3>2 DEF Past
  <2>2. \A i \in Reached : log'[i] = log[i] /\ i # n
    BY <1>8, <1>9
  <2>3. log'[n].call.key = key
    BY <1>3, <1>8
  <2> HIDE DEF key
  <2>4. CASE ReachesLimit(end.fate)
    <3>1. DOMAIN RateSeen = Reached /\ \A i \in Reached : RateSeen[i] = log[i].call.key
      BY DEF RateSeen
    <3>2. RateSeen' = [i \in Reached \cup {n} |-> log'[i].call.key]
      BY <1>9, <2>4 DEF RateSeen
    <3>3. \A i \in Reached \cup {n} : log'[i].call.key = IF i = n THEN key ELSE RateSeen[i]
      BY <2>2, <2>3, <3>1
    <3>4. SeenNext(RateSeen, n, key) = [i \in Reached \cup {n} |-> IF i = n THEN key ELSE RateSeen[i]]
      BY <3>1 DEF SeenNext
    <3>5. [i \in Reached \cup {n} |-> log'[i].call.key]
            = [i \in Reached \cup {n} |-> IF i = n THEN key ELSE RateSeen[i]]
      BY <3>3, Zenon
    <3>6. QED
      BY <2>1, <2>4, <3>2, <3>4, <3>5, Zenon
  <2>5. CASE ~ReachesLimit(end.fate)
    <3>1. RateSeen' = [i \in Reached |-> log'[i].call.key]
      BY <1>9, <2>5 DEF RateSeen
    <3>2. \A i \in Reached : log'[i].call.key = log[i].call.key
      BY <2>2
    <3>3. [i \in Reached |-> log'[i].call.key] = [i \in Reached |-> log[i].call.key]
      BY <3>2, Zenon
    <3>4. QED
      BY <2>1, <2>5, <3>1, <3>3, Zenon DEF RateSeen
  <2>6. QED
    BY <2>1, <2>4, <2>5
<1> HIDE DEF key
<1>13. WindowsOK(plugins.windows, clock) /\ Recent(plugins.windows, RateSeen)
  BY DEF WindowInv
<1>14. WindowsOK(plugins'.windows, clock) /\ Recent(plugins'.windows, RateSeen')
  <2>1. CASE ReachesLimit(end.fate)
    BY <1>5, <1>6, <1>12, <1>13, <2>1, WindowsStayOK
  <2>2. CASE ~ReachesLimit(end.fate)
    BY <1>5, <1>12, <1>13, <2>2
  <2>3. QED
    BY <2>1, <2>2
<1>15. ASSUME NEW k, NEW t \in 0..clock PROVE WindowFits(k, t)'
  <2> SUFFICES ASSUME Undisturbed(k, t)'
               PROVE  /\ Counts(k, t)' <= 2 * MaxPerWindow - 1
                      /\ clock <= t + PerSeconds - 1 => Fits(plugins'.windows, k, t, Counts(k, t)')
    BY <1>2 DEF WindowFits
  <2>1. /\ Counts(k, t) <= 2 * MaxPerWindow - 1
        /\ clock <= t + PerSeconds - 1 => Fits(plugins.windows, k, t, Counts(k, t))
    BY <1>11 DEF WindowInv, WindowFits
  <2>2. IsFiniteSet(Passed(k, t)) /\ Counts(k, t) \in Nat
    BY <1>6, PassedFinite
  <2>3. t \in Nat /\ PerSeconds \in Nat \ {0}
    BY <1>6, Limits
  <2>4. CASE ~(clock <= t + PerSeconds - 1)
    <3>1. ~(clock \in t..(t + PerSeconds - 1))
      BY <2>4
    <3>2. Counts(k, t)' = Counts(k, t)
      BY <1>11, <3>1 DEF Counts
    <3>3. QED
      BY <2>1, <2>4, <3>2
  <2>5. CASE clock <= t + PerSeconds - 1
    <3>1. clock \in t..(t + PerSeconds - 1)
      BY <1>6, <2>3, <2>5
    <3>2. Fits(plugins.windows, k, t, Counts(k, t))
      BY <2>1, <2>5
    <3>3. CASE ~ReachesLimit(end.fate)
      <4>1. Counts(k, t)' = Counts(k, t)
        BY <1>11, <3>3 DEF Counts
      <4>2. QED
        BY <1>5, <2>1, <3>2, <3>3, <4>1
    <3>4. CASE ReachesLimit(end.fate)
      <4>1. Counts(k, t)' = IF key = k /\ v.pass THEN Counts(k, t) + 1 ELSE Counts(k, t)
        <5>1. Passed(k, t)' = IF key = k /\ v.pass THEN Passed(k, t) \cup {n} ELSE Passed(k, t)
          BY <1>5, <1>11, <3>1, <3>4
        <5>2. Cardinality(Passed(k, t) \cup {n}) = Cardinality(Passed(k, t)) + 1
          BY <1>11, <2>2, FS_AddElement
        <5>3. QED
          BY <5>1, <5>2 DEF Counts
      <4>2. ASSUME Counts(k, t) > 0, NEW l, After(SeenNext(RateSeen, n, key), k, l)
            PROVE  l \in Others(k, t)'
        <5>1. Passed(k, t) # {}
          BY <4>2, FS_EmptySet DEF Counts
        <5>2. PICK i \in Reached : log[i].call.key = k /\ log[i].at \in t..(t + PerSeconds - 1)
          BY <5>1 DEF Passed, InSpan
        <5>3. i \in Reached' /\ i \in LogIndices' /\ log'[i] = log[i]
          BY <1>8, <1>9, <5>2
        <5>4. PICK j \in Reached' : /\ log'[j].call.key = l
                                    /\ \A h \in Reached' : log'[h].call.key = k => h < j
          <6>1. After(RateSeen', k, l)
            BY <1>12, <3>4, <4>2
          <6>2. QED
            BY <6>1 DEF After, RateSeen
        <5>5. i < j /\ j \in LogIndices'
          BY <1>8, <1>9, <5>2, <5>3, <5>4
        <5>6. log[i].at <= log'[j].at
          BY <1>10, <5>3, <5>5
        <5>7. log'[j].at \in 0..clock /\ log[i].at \in Nat
          <6>1. j \in 1..Len(log')
            BY <1>8, <1>9, <5>5
          <6>2. log'[j].at \in 0..clock
            BY <1>2, <1>7, <6>1 DEF LogOK
          <6>3. QED
            BY <2>3, <5>2, <6>2
        <5>8. log'[j].at \in t..(t + PerSeconds - 1)
          <6> DEFINE x == log[i].at
                     y == log'[j].at
          <6>1. x \in t..(t + PerSeconds - 1) /\ x <= y /\ y \in 0..clock /\ x \in Nat
            BY <5>2, <5>6, <5>7
          <6> HIDE DEF x, y
          <6>2. y \in t..(t + PerSeconds - 1)
            BY <1>6, <2>3, <2>5, <6>1
          <6>3. QED
            BY <6>2 DEF y
        <5>9. l # k
          <6>1. j \in Nat
            BY <1>6, <1>8, <5>5
          <6>2. QED
            BY <5>4, <6>1
        <5>10. QED
          BY <5>4, <5>8, <5>9 DEF Others, InSpan
      <4>3. IsFiniteSet(Others(k, t)') /\ Cardinality(Others(k, t)') < MaxKeys
        BY <1>11 DEF Undisturbed
      <4>4. Fits(v.windows, k, t, IF key = k /\ v.pass THEN Counts(k, t) + 1 ELSE Counts(k, t))
        BY <1>6, <1>12, <1>13, <2>2, <2>5, <3>2, <4>2, <4>3, FitsNext
      <4>5. Fits(plugins'.windows, k, t, Counts(k, t)')
        BY <1>5, <3>4, <4>1, <4>4
      <4>6. Counts(k, t)' \in Nat
        BY <2>2, <4>1
      <4>7. Counts(k, t)' <= 2 * MaxPerWindow - 1
        BY <1>14, <4>5, <4>6, FitsBound
      <4>8. QED
        BY <4>5, <4>7
    <3>5. QED
      BY <3>3, <3>4
  <2>6. QED
    BY <2>4, <2>5
<1>16. QED
  BY <1>2, <1>10, <1>14, <1>15 DEF WindowInv

LEMMA WindowsStep == PipeInv /\ WindowInv /\ [Next]_vars => WindowInv'
<1> SUFFICES ASSUME PipeInv, WindowInv, [Next]_vars PROVE WindowInv'
  OBVIOUS
<1>1. LogOK /\ clock \in Nat
  BY DEF PipeInv, LogOK
<1>2. CASE Dispatch
  BY <1>2, WindowsDispatch
<1>3. CASE ~Dispatch
  <2>1. UNCHANGED <<setup, plugins, log>> /\ clock' \in Nat /\ clock <= clock'
    BY <1>1, <1>3 DEF Next, WriteAndNotify, Tick, AlertTimer, CloseAlerting, vars
  <2>2. QED
    BY <1>1, <2>1, WindowsWait
<1>4. QED
  BY <1>2, <1>3

\* In the PerSeconds from any t on, a rate limit lets at most 2 * MaxPerWindow - 1
\* records of a key through, if fewer than MaxKeys others are about: the end of one
\* window and all of the next.
THEOREM WindowsAreBounded == Spec => []WindowBound
<1>1. WindowInv => WindowBound
  BY DEF WindowInv, WindowFits, WindowBound, Counts
<1>2. QED
  BY <1>1, PipelineKept, WindowsStart, WindowsStep, PTL DEF Spec

-----------------------------------------------------------------------------
(* Logger.retries, and what the log says of it.                              *)

LEMMA AttemptIs ==
    ASSUME NEW a, AttemptsOK(a)
    PROVE  /\ \A e \in Entries(a) : Retry!Attempt(a, e.key) = e.value + 1 /\ e.key \in Map!Keys(a)
           /\ \A k : k \notin Map!Keys(a) => Retry!Attempt(a, k) = 0
           /\ \A k \in Map!Keys(a) : \E e \in Entries(a) : e.key = k
<1>1. ASSUME NEW e \in Entries(a)
      PROVE  Retry!Attempt(a, e.key) = e.value + 1 /\ e.key \in Map!Keys(a)
  <2>1. e.key \in Map!Keys(a) /\ Map!At(a, e.key) = e.value
    BY AtIs DEF AttemptsOK
  <2>2. QED
    BY <2>1, RetryMaps DEF Retry!Attempt
<1>2. \A k : k \notin Map!Keys(a) => Retry!Attempt(a, k) = 0
  BY RetryMaps DEF Retry!Attempt
<1>3. \A k \in Map!Keys(a) : \E e \in Entries(a) : e.key = k
  BY KeysOfEntries DEF AttemptsOK
<1>4. QED
  BY <1>1, <1>2, <1>3

LEMMA SucceededIs ==
    ASSUME NEW a, AttemptsOK(a), NEW key, NEW k
    PROVE  Retry!Attempt(Retry!Succeeded(a, key), k) = IF k = key THEN 0 ELSE Retry!Attempt(a, k)
<1> DEFINE p == Map!Without(a, key)
<1>1. Retry!Succeeded(a, key) = p
  BY RetryMaps DEF Retry!Succeeded
<1>2. MapOK(p) /\ Entries(p) = But(a, key)
  BY WithoutIs DEF AttemptsOK
<1>3. AttemptsOK(p)
  BY <1>1, AttemptsKept
<1> HIDE DEF p
<1>4. CASE k = key
  <2>1. k \notin Map!Keys(p)
    BY <1>2, <1>3, <1>4, AttemptIs DEF But
  <2>2. QED
    BY <1>1, <1>3, <1>4, <2>1, AttemptIs
<1>5. CASE k # key /\ k \in Map!Keys(a)
  <2>1. PICK e \in Entries(a) : e.key = k
    BY <1>5, AttemptIs
  <2>2. e \in Entries(p)
    BY <1>2, <1>5, <2>1 DEF But
  <2>3. Retry!Attempt(p, k) = e.value + 1 /\ Retry!Attempt(a, k) = e.value + 1
    BY <1>3, <2>1, <2>2, AttemptIs
  <2>4. QED
    BY <1>1, <1>5, <2>3
<1>6. CASE k # key /\ k \notin Map!Keys(a)
  <2>1. k \notin Map!Keys(p)
    BY <1>2, <1>3, <1>6, AttemptIs DEF But
  <2>2. QED
    BY <1>1, <1>3, <1>6, <2>1, AttemptIs
<1>7. QED
  BY <1>4, <1>5, <1>6

\* Opening a call counts it, and may forget one call, for MaxEntries others that
\* were opened after it.
LEMMA OpenedIs ==
    ASSUME NEW a, AttemptsOK(a), NEW key, NEW seen, Recent(a, seen), NEW n, Past(seen, n)
    PROVE  LET p == Retry!Opened(a, key)
               new == SeenNext(seen, n, key)
           IN  /\ Recent(p, new)
               /\ Retry!Attempt(p, key) = Retry!Attempt(a, key) + 1
               /\ \A k : k # key =>
                    \/ Retry!Attempt(p, k) = Retry!Attempt(a, k)
                    \/ /\ Retry!Attempt(p, k) = 0 /\ Retry!Attempt(a, k) > 0
                       /\ \A S : IsFiniteSet(S) /\ (\A l : After(new, k, l) => l \in S) =>
                             MaxEntries <= Cardinality(S)
<1> DEFINE c == Retry!Attempt(a, key)
           z == [key |-> key, value |-> c]
           m == Map!Touched(a, key, c)
           p == Map!Newest(m, MaxEntries)
           new == SeenNext(seen, n, key)
<1>1. Retry!Opened(a, key) = p
  BY RetryMaps DEF Retry!Opened
<1>2. MaxEntries \in Nat \ {0} /\ c \in Nat /\ MapOK(a)
  BY AttemptIsNat, Limits DEF AttemptsOK
<1>3. z.key = key /\ z.value = c
  OBVIOUS
<1>4. MapOK(m) /\ Entries(m) = But(a, key) \cup {z}
  BY <1>2, TouchedIs
<1>5. Recent(m, new)
  BY <1>2, RecentTouched
<1>6. AttemptsOK(p)
  BY <1>1, AttemptsKept
<1> HIDE DEF z, m, new
<1>7. MapOK(p) /\ Entries(p) \subseteq Entries(m) /\ Recent(p, new)
  BY <1>2, <1>4, <1>5, NewestIs, RecentNewest
<1>8. \A k : k \in Map!Keys(m) <=> \E e \in Entries(m) : e.key = k
  BY <1>4, KeysOfEntries
<1>9. key \in Map!Keys(p)
  <2>1. key \in Map!Keys(m)
    BY <1>3, <1>4, <1>8
  <2>2. Recent(m, SeenNext(seen, n, key))
    BY <1>5 DEF new
  <2>3. QED
    BY <1>2, <1>4, <2>1, <2>2, LastStays
<1> HIDE DEF p, c
<1>10. Retry!Attempt(p, key) = c + 1
  <2>1. PICK e \in Entries(p) : e.key = key
    BY <1>6, <1>9, AttemptIs
  <2>2. e.value = c
    BY <1>3, <1>4, <1>7, <2>1 DEF But
  <2>3. QED
    BY <1>6, <2>1, <2>2, AttemptIs
<1>11. ASSUME NEW k, k # key, Retry!Attempt(p, k) # Retry!Attempt(a, k)
       PROVE  /\ Retry!Attempt(p, k) = 0 /\ Retry!Attempt(a, k) > 0
              /\ \A S : IsFiniteSet(S) /\ (\A l : After(new, k, l) => l \in S) =>
                    MaxEntries <= Cardinality(S)
  <2>1. k \notin Map!Keys(p)
    <3> SUFFICES ASSUME k \in Map!Keys(p) PROVE FALSE
      OBVIOUS
    <3>1. PICK e \in Entries(p) : e.key = k
      BY <1>6, AttemptIs
    <3>2. e \in Entries(a)
      BY <1>3, <1>4, <1>7, <1>11, <3>1 DEF But
    <3>3. QED
      BY <1>6, <1>11, <3>1, <3>2, AttemptIs
  <2>2. Retry!Attempt(p, k) = 0
    BY <1>6, <2>1, AttemptIs
  <2>3. k \in Map!Keys(a)
    BY <1>11, <2>2, AttemptIs
  <2>4. PICK e \in Entries(a) : e.key = k
    BY <2>3, AttemptIs
  <2>5. Retry!Attempt(a, k) > 0
    <3>1. Retry!Attempt(a, k) = e.value + 1 /\ e.value \in Nat
      BY <2>4, AttemptIs DEF AttemptsOK
    <3>2. QED
      BY <3>1
  <2>6. k \in Map!Keys(m)
    BY <1>4, <1>8, <1>11, <2>4 DEF But
  <2>7. ASSUME NEW S, IsFiniteSet(S), \A l : After(new, k, l) => l \in S
        PROVE  MaxEntries <= Cardinality(S)
    BY <1>2, <1>4, <1>5, <2>1, <2>6, <2>7, EvictedByOthers DEF p
  <2>8. QED
    BY <2>2, <2>5, <2>7
<1>12. QED
  BY <1>1, <1>7, <1>10, <1>11 DEF c, new

Actions == {i \in LogIndices : log[i].call.kind = "action"}
ActionSeen == [i \in Actions |-> log[i].call.key]

\* The calls of k opened before n and since it last succeeded.
Since(k, n) ==
    {i \in 1..(n - 1) :
        \A j \in i..(n - 1) : ~(log[j].call.kind = "observation" /\ log[j].call.key = k)}
Opens(k, n) == OpensIn(k, Since(k, n))
Crowd(k, i, j) ==
    {log[m].call.key : m \in {l \in (i + 1)..(j - 1) : log[l].call.kind = "action"}} \ {k}
Forgotten(k, n) ==
    \E i \in Opens(k, n), j \in Opens(k, n) \cup {n} :
        i < j /\ Opens(k, n) \cap (i + 1)..(j - 1) = {} /\ CrowdedOut(k, i, j)
Exact(k, n, c) ==
    c = Cardinality(Opens(k, n)) \/ (c < Cardinality(Opens(k, n)) /\ Forgotten(k, n))

RetryInv ==
    /\ Recent(attempts, ActionSeen)
    /\ \A n \in Actions : \A k, c :
          k = log[n].call.key /\ c = log[n].retry_count => Exact(k, n, c)
    /\ \A k, n : n = Len(log) + 1 => Exact(k, n, Retry!Attempt(attempts, k))

LEMMA RetriesAre == RetryInv => RetriesExact
<1> SUFFICES ASSUME RetryInv, NEW n \in LogIndices, log[n].call.kind = "action"
             PROVE  LET k     == log[n].call.key
                        opens == OpensIn(k, SinceSuccess(n))
                    IN  \/ log[n].retry_count = Cardinality(opens)
                        \/ /\ log[n].retry_count < Cardinality(opens)
                           /\ \E i \in opens, j \in opens \cup {n} :
                                 /\ i < j /\ opens \cap (i + 1)..(j - 1) = {}
                                 /\ CrowdedOut(k, i, j)
  BY DEF RetriesExact
<1> DEFINE k == log[n].call.key
<1>1. OpensIn(k, SinceSuccess(n)) = Opens(k, n)
  BY DEF Opens, Since, SinceSuccess
<1>2. Exact(k, n, log[n].retry_count)
  BY DEF RetryInv, Actions
<1> HIDE DEF k
<1>3. \/ log[n].retry_count = Cardinality(Opens(k, n))
      \/ /\ log[n].retry_count < Cardinality(Opens(k, n))
         /\ \E i \in Opens(k, n), j \in Opens(k, n) \cup {n} :
               i < j /\ Opens(k, n) \cap (i + 1)..(j - 1) = {} /\ CrowdedOut(k, i, j)
  BY <1>2 DEF Exact, Forgotten
<1>4. QED
  BY <1>1, <1>3, Zenon DEF k

CrowdIn(q, k, i, j) ==
    {q[m].call.key : m \in {l \in (i + 1)..(j - 1) : q[l].call.kind = "action"}} \ {k}

LEMMA CrowdFinite ==
    ASSUME NEW q, NEW k, NEW i \in Int, NEW j \in Int
    PROVE  IsFiniteSet(CrowdIn(q, k, i, j)) /\ Cardinality(CrowdIn(q, k, i, j)) \in Nat
<1> DEFINE L == {l \in (i + 1)..(j - 1) : q[l].call.kind = "action"}
           K == {q[m].call.key : m \in L}
           f == [m \in L |-> q[m].call.key]
<1>1. IsFiniteSet(L)
  <2>1. IsFiniteSet((i + 1)..(j - 1))
    BY FS_Interval
  <2>2. QED
    BY <2>1, FS_Subset
<1>2. f \in Surjection(L, K)
  BY DEF Surjection
<1>3. CrowdIn(q, k, i, j) \subseteq K
  BY DEF CrowdIn
<1> HIDE DEF L, K, f
<1>4. IsFiniteSet(K)
  BY <1>1, <1>2, FS_Surjection
<1>5. QED
  BY <1>3, <1>4, FS_Subset, FS_CardinalityType

LEMMA CrowdIs ==
    ASSUME NEW k, NEW i \in Int, NEW j \in Int
    PROVE  /\ CrowdedOut(k, i, j) <=> MaxEntries <= Cardinality(Crowd(k, i, j))
           /\ IsFiniteSet(Crowd(k, i, j)) /\ Cardinality(Crowd(k, i, j)) \in Nat
           /\ CrowdedOut(k, i, j)' <=> MaxEntries <= Cardinality(Crowd(k, i, j)')
           /\ IsFiniteSet(Crowd(k, i, j)') /\ Cardinality(Crowd(k, i, j)') \in Nat
<1>1. CrowdedOut(k, i, j) <=> MaxEntries <= Cardinality(Crowd(k, i, j))
  BY DEF CrowdedOut, Crowd
<1>2. CrowdedOut(k, i, j)' <=> MaxEntries <= Cardinality(Crowd(k, i, j)')
  BY DEF CrowdedOut, Crowd
<1>3. Crowd(k, i, j) = CrowdIn(log, k, i, j) /\ Crowd(k, i, j)' = CrowdIn(log', k, i, j)
  BY DEF Crowd, CrowdIn
<1>4. QED
  BY <1>1, <1>2, <1>3, CrowdFinite

LEMMA InCrowd ==
    ASSUME NEW k, NEW i, NEW n \in Nat, NEW m \in (i + 1)..n, NEW l,
           log'[m].call.kind = "action", log'[m].call.key = l, l # k
    PROVE  l \in Crowd(k, i, n + 1)'
<1>1. PICK j : j = n + 1
  OBVIOUS
<1>2. Crowd(k, i, j)' = CrowdIn(log', k, i, j)
  BY DEF Crowd, CrowdIn
<1>3. m \in (i + 1)..(j - 1)
  BY <1>1
<1>4. QED
  BY <1>1, <1>2, <1>3 DEF CrowdIn

LEMMA OpensAre ==
    ASSUME NEW k, NEW n \in Nat
    PROVE  /\ Opens(k, n) \subseteq 1..(n - 1)
           /\ IsFiniteSet(Opens(k, n)) /\ Cardinality(Opens(k, n)) \in Nat
<1>1. Opens(k, n) \subseteq 1..(n - 1)
  BY DEF Opens, OpensIn, Since
<1>2. IsFiniteSet(1..(n - 1))
  BY FS_Interval
<1>3. QED
  BY <1>1, <1>2, FS_Subset, FS_CardinalityType

\* A log that grows tells the same of what came before.
SameUpTo(n) == \A i \in 1..(n - 1) : log'[i] = log[i]

LEMMA OpensStay ==
    ASSUME NEW n \in Nat, SameUpTo(n), NEW k
    PROVE  Opens(k, n)' = Opens(k, n)
<1>1. Since(k, n)' = Since(k, n)
  <2> SUFFICES ASSUME NEW i \in 1..(n - 1)
               PROVE  (\A j \in i..(n - 1) : ~(log'[j].call.kind = "observation" /\ log'[j].call.key = k))
                  <=> (\A j \in i..(n - 1) : ~(log[j].call.kind = "observation" /\ log[j].call.key = k))
    BY DEF Since
  <2>1. \A j \in i..(n - 1) : log'[j] = log[j]
    BY DEF SameUpTo
  <2>2. QED
    BY <2>1
<1>2. \A i \in Since(k, n) : log'[i] = log[i]
  BY DEF Since, SameUpTo
<1>3. QED
  BY <1>1, <1>2 DEF Opens, OpensIn

LEMMA CrowdStays ==
    ASSUME NEW n \in Nat, SameUpTo(n), NEW k, NEW i \in Nat, NEW j \in Int, j <= n
    PROVE  CrowdedOut(k, i, j) => CrowdedOut(k, i, j)'
<1>1. \A l \in (i + 1)..(j - 1) : log'[l] = log[l]
  BY DEF SameUpTo
<1>2. Crowd(k, i, j)' = Crowd(k, i, j)
  BY <1>1 DEF Crowd
<1>3. CrowdedOut(k, i, j)' <=> MaxEntries <= Cardinality(Crowd(k, i, j)')
  BY DEF CrowdedOut, Crowd
<1>4. QED
  BY <1>2, <1>3, CrowdIs

LEMMA CrowdGrows ==
    ASSUME NEW n \in Nat, SameUpTo(n), NEW k, NEW i \in Nat
    PROVE  CrowdedOut(k, i, n) => CrowdedOut(k, i, n + 1)'
<1>1. \A l \in (i + 1)..(n - 1) : log'[l] = log[l] /\ l \in (i + 1)..(n + 1 - 1)
  BY DEF SameUpTo
<1>2. Crowd(k, i, n) \subseteq Crowd(k, i, n + 1)'
  BY <1>1 DEF Crowd
<1>3. n + 1 \in Int /\ n \in Int /\ i \in Int
  OBVIOUS
<1>4. /\ CrowdedOut(k, i, n + 1)' <=> MaxEntries <= Cardinality(Crowd(k, i, n + 1)')
      /\ IsFiniteSet(Crowd(k, i, n + 1)') /\ Cardinality(Crowd(k, i, n + 1)') \in Nat
  BY <1>3, CrowdIs
<1>5. Cardinality(Crowd(k, i, n)) <= Cardinality(Crowd(k, i, n + 1)')
  BY <1>2, <1>4, FS_Subset
<1>6. /\ CrowdedOut(k, i, n) <=> MaxEntries <= Cardinality(Crowd(k, i, n))
      /\ Cardinality(Crowd(k, i, n)) \in Nat
  BY <1>3, CrowdIs
<1>7. QED
  BY <1>4, <1>5, <1>6, CrowdIs, Limits

LEMMA GreatestNatural ==
    ASSUME NEW T \in SUBSET Nat, T # {}, NEW n \in Nat, \A m \in T : m <= n
    PROVE  \E m \in T : \A l \in T : l <= m
<1> DEFINE D == {n - m : m \in T}
<1>1. D \in SUBSET Nat /\ D # {}
  <2>1. \A m \in T : m \in Nat /\ m <= n
    OBVIOUS
  <2>2. \A m \in T : n - m \in Nat
    BY <2>1
  <2>3. QED
    BY <2>2
<1>2. PICK d \in D : \A e \in D : d <= e
  <2> HIDE DEF D
  <2>1. QED
    BY <1>1, LeastNatural
<1>3. PICK m \in T : d = n - m
  BY <1>2
<1>4. ASSUME NEW l \in T PROVE l <= m
  <2>1. n - m <= n - l
    BY <1>2, <1>3
  <2>2. l \in Nat /\ m \in Nat
    OBVIOUS
  <2>3. QED
    BY <2>1, <2>2
<1>5. QED
  BY <1>4

Made(call, n) == log'[n].call = call

LEMMA OpensNext ==
    ASSUME NEW n \in Nat \ {0}, SameUpTo(n), NEW call, Made(call, n), NEW k
    PROVE  Opens(k, n + 1)' = IF call.kind = "observation" /\ call.key = k THEN {}
                              ELSE IF call.kind = "action" /\ call.key = k THEN Opens(k, n) \cup {n}
                              ELSE Opens(k, n)
<1> DEFINE obs(j) == log[j].call.kind = "observation" /\ log[j].call.key = k
           obsNext(j) == log'[j].call.kind = "observation" /\ log'[j].call.key = k
           act(j) == log[j].call.kind = "action" /\ log[j].call.key = k
           actNext(j) == log'[j].call.kind = "action" /\ log'[j].call.key = k
<1>1. /\ Opens(k, n) = {i \in {h \in 1..(n - 1) : \A j \in h..(n - 1) : ~obs(j)} : act(i)}
      /\ Opens(k, n + 1)' = {i \in {h \in 1..(n + 1 - 1) : \A j \in h..(n + 1 - 1) : ~obsNext(j)} : actNext(i)}
  BY DEF Opens, OpensIn, Since
<1>2. /\ \A j \in 1..(n - 1) : (obsNext(j) <=> obs(j)) /\ (actNext(j) <=> act(j))
      /\ obsNext(n) <=> call.kind = "observation" /\ call.key = k
      /\ actNext(n) <=> call.kind = "action" /\ call.key = k
  BY DEF SameUpTo, Made
<1> HIDE DEF obs, obsNext, act, actNext
<1>3. /\ n + 1 - 1 = n /\ 1..n = (1..(n - 1)) \cup {n} /\ n \notin 1..(n - 1) /\ n \in n..n
      /\ \A h \in 1..(n - 1) : h..n = (h..(n - 1)) \cup {n} /\ h..(n - 1) \subseteq 1..(n - 1)
      /\ \A j \in n..n : j = n
  OBVIOUS
<1>4. CASE obsNext(n)
  <2>1. \A h \in 1..n : n \in h..n
    OBVIOUS
  <2>2. Opens(k, n + 1)' = {}
    BY <1>1, <1>3, <1>4, <2>1
  <2>3. QED
    BY <1>2, <1>4, <2>2
<1>5. CASE ~obsNext(n)
  <2>1. \A h \in 1..(n - 1) : (\A j \in h..n : ~obsNext(j)) <=> (\A j \in h..(n - 1) : ~obs(j))
    BY <1>2, <1>3, <1>5
  <2>2. \A j \in n..n : ~obsNext(j)
    BY <1>3, <1>5
  <2>3. \A i : i \in Opens(k, n + 1)' <=> i \in Opens(k, n) \/ (i = n /\ actNext(n))
    <3>1. \A i \in 1..(n - 1) : i \in Opens(k, n + 1)' <=> i \in Opens(k, n)
      BY <1>1, <1>2, <1>3, <2>1
    <3>2. n \in Opens(k, n + 1)' <=> actNext(n)
      BY <1>1, <1>3, <2>2
    <3>3. Opens(k, n + 1)' \subseteq (1..(n - 1)) \cup {n} /\ Opens(k, n) \subseteq 1..(n - 1)
      BY <1>1, <1>3
    <3>4. QED
      BY <1>3, <3>1, <3>2, <3>3
  <2>4. CASE actNext(n)
    <3>1. Opens(k, n + 1)' = Opens(k, n) \cup {n}
      BY <2>3, <2>4
    <3>2. QED
      BY <1>2, <1>5, <2>4, <3>1
  <2>5. CASE ~actNext(n)
    <3>1. Opens(k, n + 1)' = Opens(k, n)
      BY <2>3, <2>5
    <3>2. QED
      BY <1>2, <1>5, <2>5, <3>1
  <2>6. QED
    BY <2>4, <2>5
<1>6. QED
  BY <1>4, <1>5

\* What was counted of k goes on to be what the log says.
LEMMA ExactNext ==
    ASSUME NEW n \in Nat \ {0}, SameUpTo(n), NEW call, Made(call, n), NEW k,
           NEW c \in Nat, Exact(k, n, c), NEW d,
           \/ call.kind = "observation" /\ call.key = k /\ d = 0
           \/ call.kind = "action" /\ call.key = k /\ d = c + 1
           \/ /\ call.key # k \/ call.kind = "other"
              /\ \/ d = c
                 \/ /\ d = 0 /\ c > 0
                    /\ \A i \in Opens(k, n) :
                          (\A j \in Opens(k, n) : j <= i) => CrowdedOut(k, i, n + 1)'
    PROVE  Exact(k, n + 1, d)'
<1> DEFINE O == Opens(k, n)
           P == Opens(k, n + 1)'
<1>1. /\ O \subseteq 1..(n - 1) /\ IsFiniteSet(O) /\ Cardinality(O) \in Nat
      /\ n \notin O
  BY OpensAre
<1>2. P = IF call.kind = "observation" /\ call.key = k THEN {}
          ELSE IF call.kind = "action" /\ call.key = k THEN O \cup {n} ELSE O
  BY OpensNext
<1>3. \/ c = Cardinality(O)
      \/ /\ c < Cardinality(O)
         /\ \E i \in O, j \in O \cup {n} : i < j /\ O \cap (i + 1)..(j - 1) = {} /\ CrowdedOut(k, i, j)
  BY DEF Exact, Forgotten
<1> HIDE DEF O, P
<1>4. ASSUME d = Cardinality(P) PROVE Exact(k, n + 1, d)'
  BY <1>4 DEF Exact, P
<1>5. ASSUME d < Cardinality(P), NEW i \in P, NEW j \in P \cup {n + 1}, i < j,
             P \cap (i + 1)..(j - 1) = {}, CrowdedOut(k, i, j)'
      PROVE  Exact(k, n + 1, d)'
  BY <1>5 DEF Exact, Forgotten, P
<1>6. CASE call.kind = "observation" /\ call.key = k /\ d = 0
  <2>1. P = {} /\ d = Cardinality(P)
    BY <1>2, <1>6, FS_EmptySet
  <2>2. QED
    BY <1>4, <2>1
<1>7. CASE call.kind = "action" /\ call.key = k /\ d = c + 1
  <2>1. P = O \cup {n} /\ Cardinality(P) = Cardinality(O) + 1
    BY <1>1, <1>2, <1>7, FS_AddElement
  <2>2. CASE c = Cardinality(O)
    BY <1>4, <1>7, <2>1, <2>2
  <2>3. CASE c # Cardinality(O)
    <3>1. c < Cardinality(O)
      BY <1>3, <2>3
    <3>2. PICK i \in O, j \in O \cup {n} :
             i < j /\ O \cap (i + 1)..(j - 1) = {} /\ CrowdedOut(k, i, j)
      BY <1>3, <2>3
    <3>3. i \in Nat /\ j \in Nat /\ j <= n /\ i \in P /\ j \in P \cup {n + 1}
      BY <1>1, <2>1
    <3>4. P \cap (i + 1)..(j - 1) = {}
      <4>1. n \notin (i + 1)..(j - 1)
        BY <3>3
      <4>2. QED
        BY <2>1, <3>2, <4>1
    <3>5. CrowdedOut(k, i, j)'
      BY <3>2, <3>3, CrowdStays
    <3>6. d < Cardinality(P)
      BY <1>1, <1>7, <2>1, <3>1
    <3>7. QED
      BY <1>5, <3>2, <3>3, <3>4, <3>5, <3>6
  <2>4. QED
    BY <2>2, <2>3
<1>8. CASE (call.key # k \/ call.kind = "other") /\ d = c
  <2>1. P = O
    BY <1>2, <1>8
  <2>2. CASE c = Cardinality(O)
    BY <1>4, <1>8, <2>1, <2>2
  <2>3. CASE c # Cardinality(O)
    <3>1. d < Cardinality(P)
      BY <1>3, <1>8, <2>1, <2>3
    <3>2. PICK i \in O, j \in O \cup {n} :
             i < j /\ O \cap (i + 1)..(j - 1) = {} /\ CrowdedOut(k, i, j)
      BY <1>3, <2>3
    <3>3. i \in Nat /\ i \in P
      BY <1>1, <2>1
    <3>4. CASE j = n
      <4>1. i < n + 1 /\ n + 1 \in P \cup {n + 1} /\ n + 1 - 1 = n
        BY <1>1, <3>2, <3>4
      <4>2. P \cap (i + 1)..(n + 1 - 1) = {}
        <5>1. \A h \in (i + 1)..(n + 1 - 1) : h = n \/ h \in (i + 1)..(n - 1)
          BY <3>3
        <5>2. QED
          BY <1>1, <2>1, <3>2, <3>4, <5>1
      <4>3. CrowdedOut(k, i, n + 1)'
        BY <3>2, <3>3, <3>4, CrowdGrows
      <4>4. QED
        BY <1>5, <3>1, <3>3, <4>1, <4>2, <4>3
    <3>5. CASE j \in O
      <4>1. j \in Nat /\ j <= n
        BY <1>1, <3>5
      <4>2. CrowdedOut(k, i, j)'
        BY <3>2, <3>3, <4>1, CrowdStays
      <4>3. QED
        BY <1>5, <2>1, <3>1, <3>2, <3>3, <3>5, <4>2
    <3>6. QED
      BY <3>4, <3>5
  <2>4. QED
    BY <2>2, <2>3
<1>9. CASE /\ call.key # k \/ call.kind = "other"
           /\ d = 0 /\ c > 0
           /\ \A i \in Opens(k, n) : (\A j \in Opens(k, n) : j <= i) => CrowdedOut(k, i, n + 1)'
  <2>1. P = O
    BY <1>2, <1>9
  <2>2. d < Cardinality(P) /\ Cardinality(O) > 0
    BY <1>1, <1>3, <1>9, <2>1
  <2>3. O # {}
    BY <2>2, FS_EmptySet
  <2>4. PICK i \in O : \A j \in O : j <= i
    <3>1. n \in Nat /\ O \in SUBSET Nat /\ \A j \in O : j <= n
      BY <1>1
    <3>2. QED
      BY <2>3, <3>1, GreatestNatural
  <2>5. i \in P /\ n + 1 \in P \cup {n + 1} /\ i < n + 1
    BY <1>1, <2>1, <2>4
  <2>6. P \cap (i + 1)..(n + 1 - 1) = {}
    BY <1>1, <2>1, <2>4
  <2>7. CrowdedOut(k, i, n + 1)'
    BY <1>9, <2>4 DEF O
  <2>8. QED
    BY <1>5, <2>2, <2>5, <2>6, <2>7
<1>10. QED
  BY <1>6, <1>7, <1>8, <1>9

\* One more record in the log.
LEMMA LogGrows ==
    ASSUME IsSeq(log), NEW e, log' = Append(log, e), NEW n, n = Len(log) + 1, NEW call, e.call = call
    PROVE  /\ n \in Nat \ {0} /\ SameUpTo(n) /\ Made(call, n) /\ log'[n] = e
           /\ n + 1 = Len(log') + 1 /\ Actions \subseteq 1..(n - 1) /\ Past(ActionSeen, n)
           /\ Actions' = IF call.kind = "action" THEN Actions \cup {n} ELSE Actions
           /\ ActionSeen' = IF call.kind = "action" THEN SeenNext(ActionSeen, n, call.key)
                            ELSE ActionSeen
<1>1. /\ Len(log) \in Nat /\ IsSeq(log') /\ Len(log') = n /\ log'[n] = e
      /\ \A i \in 1..Len(log) : log'[i] = log[i]
  BY Appended, SeqDomain
<1>2. LogIndices = 1..(n - 1) /\ LogIndices' = (1..(n - 1)) \cup {n} /\ n \in Nat \ {0}
      /\ n \notin 1..(n - 1) /\ Len(log) = n - 1
  <2>1. LogIndices = 1..Len(log) /\ LogIndices' = 1..Len(log')
    BY <1>1, SeqDomain DEF LogIndices
  <2>2. QED
    BY <1>1, <2>1
<1>3. SameUpTo(n) /\ Made(call, n)
  BY <1>1, <1>2 DEF SameUpTo, Made
<1>4. Actions \subseteq 1..(n - 1)
  BY <1>2 DEF Actions
<1>5. Actions' = IF call.kind = "action" THEN Actions \cup {n} ELSE Actions
  <2>1. \A i \in 1..(n - 1) : i \in Actions' <=> i \in Actions
    BY <1>2, <1>3 DEF Actions, SameUpTo
  <2>2. n \in Actions' <=> call.kind = "action"
    BY <1>2, <1>3 DEF Actions, Made
  <2>3. Actions' \subseteq (1..(n - 1)) \cup {n}
    BY <1>2 DEF Actions
  <2>4. CASE call.kind = "action"
    BY <1>4, <2>1, <2>2, <2>3, <2>4
  <2>5. CASE call.kind # "action"
    <3>1. \A i : i \in Actions' <=> i \in Actions
      BY <1>4, <2>1, <2>2, <2>3, <2>5
    <3>2. Actions' = Actions
      BY <3>1, Zenon
    <3>3. QED
      BY <2>5, <3>2
  <2>6. QED
    BY <2>4, <2>5
<1>6. Past(ActionSeen, n)
  <2>1. DOMAIN ActionSeen = Actions
    BY DEF ActionSeen
  <2>2. \A i \in Actions : i \in Nat /\ i < n
    BY <1>2, <1>4
  <2>3. QED
    BY <1>2, <2>1, <2>2 DEF Past
<1>7. ActionSeen' = IF call.kind = "action" THEN SeenNext(ActionSeen, n, call.key) ELSE ActionSeen
  <2>1. /\ ActionSeen' = [i \in Actions' |-> log'[i].call.key]
        /\ ActionSeen = [i \in Actions |-> log[i].call.key]
    BY DEF ActionSeen
  <2>2. \A i \in Actions : log'[i].call.key = log[i].call.key /\ i # n
    BY <1>2, <1>3, <1>4 DEF SameUpTo
  <2>3. log'[n].call.key = call.key
    BY <1>3 DEF Made
  <2>4. CASE call.kind = "action"
    <3>1. SeenNext(ActionSeen, n, call.key)
            = [i \in Actions \cup {n} |-> IF i = n THEN call.key ELSE log[i].call.key]
      <4>1. DOMAIN ActionSeen = Actions /\ \A i \in Actions : ActionSeen[i] = log[i].call.key
        BY <2>1
      <4>2. QED
        BY <4>1 DEF SeenNext
    <3>2. \A i \in Actions \cup {n} :
             log'[i].call.key = IF i = n THEN call.key ELSE log[i].call.key
      BY <2>2, <2>3
    <3>3. [i \in Actions \cup {n} |-> log'[i].call.key]
            = [i \in Actions \cup {n} |-> IF i = n THEN call.key ELSE log[i].call.key]
      BY <3>2, Zenon
    <3>4. Actions' = Actions \cup {n}
      BY <1>5, <2>4
    <3>5. QED
      BY <2>1, <2>4, <3>1, <3>3, <3>4
  <2>5. CASE call.kind # "action"
    <3>1. [i \in Actions |-> log'[i].call.key] = [i \in Actions |-> log[i].call.key]
      BY <2>2, Zenon
    <3>2. Actions' = Actions
      BY <1>5, <2>5
    <3>3. QED
      BY <2>1, <2>5, <3>1, <3>2
  <2>6. QED
    BY <2>4, <2>5
<1>8. QED
  BY <1>1, <1>2, <1>3, <1>4, <1>5, <1>6, <1>7

\* The attempts counted after a call, against those counted before it.
LEMMA AttemptsNext ==
    ASSUME PipeInv, RetryInv, NEW e, log' = Append(log, e), NEW n, n = Len(log) + 1,
           NEW call, e.call = call, TrackRetries(call), call.kind \in CallKinds
    PROVE  /\ Recent(attempts', ActionSeen')
           /\ \A k : LET c == Retry!Attempt(attempts, k)
                         d == Retry!Attempt(attempts', k)
                     IN  /\ c \in Nat
                         /\ \/ call.kind = "observation" /\ call.key = k /\ d = 0
                            \/ call.kind = "action" /\ call.key = k /\ d = c + 1
                            \/ /\ call.key # k \/ call.kind = "other"
                               /\ \/ d = c
                                  \/ /\ d = 0 /\ c > 0
                                     /\ \A i \in Opens(k, n) : CrowdedOut(k, i, n + 1)'
<1>1. AttemptsOK(attempts) /\ IsSeq(log) /\ Recent(attempts, ActionSeen)
  BY DEF PipeInv, LogOK, RetryInv
<1>2. /\ n \in Nat \ {0} /\ SameUpTo(n) /\ Made(call, n)
      /\ Actions \subseteq 1..(n - 1) /\ Past(ActionSeen, n)
      /\ Actions' = IF call.kind = "action" THEN Actions \cup {n} ELSE Actions
      /\ ActionSeen' = IF call.kind = "action" THEN SeenNext(ActionSeen, n, call.key)
                       ELSE ActionSeen
  BY <1>1, LogGrows
<1>3. \A k : Retry!Attempt(attempts, k) \in Nat
  BY <1>1, AttemptIsNat
<1>4. CASE call.kind = "observation"
  <2>1. attempts' = Retry!Succeeded(attempts, call.key)
    BY <1>4 DEF TrackRetries
  <2>2. Recent(attempts', ActionSeen')
    <3>1. Recent(Map!Without(attempts, call.key), ActionSeen)
      BY <1>1, RecentWithout DEF AttemptsOK
    <3>2. Retry!Succeeded(attempts, call.key) = Map!Without(attempts, call.key)
      BY RetryMaps DEF Retry!Succeeded
    <3>3. QED
      BY <1>2, <1>4, <2>1, <3>1, <3>2
  <2>3. \A k : Retry!Attempt(attempts', k) = IF k = call.key THEN 0 ELSE Retry!Attempt(attempts, k)
    BY <1>1, <2>1, SucceededIs
  <2>4. QED
    BY <1>3, <1>4, <2>2, <2>3
<1>5. CASE call.kind = "action"
  <2>1. attempts' = Retry!Opened(attempts, call.key)
    BY <1>5 DEF TrackRetries
  <2>2. /\ Recent(attempts', ActionSeen')
        /\ Retry!Attempt(attempts', call.key) = Retry!Attempt(attempts, call.key) + 1
        /\ \A k : k # call.key =>
             \/ Retry!Attempt(attempts', k) = Retry!Attempt(attempts, k)
             \/ /\ Retry!Attempt(attempts', k) = 0 /\ Retry!Attempt(attempts, k) > 0
                /\ \A S : IsFiniteSet(S) /\ (\A l : After(ActionSeen', k, l) => l \in S) =>
                      MaxEntries <= Cardinality(S)
    <3>1. ActionSeen' = SeenNext(ActionSeen, n, call.key)
      BY <1>2, <1>5
    <3>2. QED
      BY <1>1, <1>2, <2>1, <3>1, OpenedIs
  <2>3. ASSUME NEW k, k # call.key,
               \A S : IsFiniteSet(S) /\ (\A l : After(ActionSeen', k, l) => l \in S) =>
                      MaxEntries <= Cardinality(S),
               NEW i \in Opens(k, n)
        PROVE  CrowdedOut(k, i, n + 1)'
    <3>1. i \in 1..(n - 1) /\ log[i].call.kind = "action" /\ log[i].call.key = k
      BY DEF Opens, OpensIn, Since
    <3>2. log'[i].call.kind = "action" /\ log'[i].call.key = k /\ i \in Actions'
      <4>1. log'[i] = log[i]
        BY <3>1 DEF SameUpTo
      <4>2. i \in Actions
        BY <1>1, <1>2, <3>1, SeqDomain DEF Actions, LogIndices
      <4>3. QED
        BY <1>2, <3>1, <4>1, <4>2
    <3>3. /\ DOMAIN ActionSeen' = Actions'
          /\ \A j \in Actions' : ActionSeen'[j] = log'[j].call.key /\ log'[j].call.kind = "action"
      BY DEF ActionSeen, Actions
    <3>4. ASSUME NEW l, After(ActionSeen', k, l) PROVE l \in Crowd(k, i, n + 1)'
      <4>1. PICK j \in Actions' : /\ log'[j].call.key = l /\ i < j
                                  /\ ActionSeen'[j] = k => j < j
        BY <3>2, <3>3, <3>4 DEF After
      <4>2. j \in 1..n /\ i \in Nat
        BY <1>2, <3>1
      <4>3. l # k
        BY <3>3, <4>1, <4>2
      <4>4. n \in Nat /\ j \in (i + 1)..n
        BY <1>2, <4>1, <4>2
      <4>5. log'[j].call.kind = "action" /\ log'[j].call.key = l
        BY <3>3, <4>1
      <4>6. QED
        BY <4>3, <4>4, <4>5, InCrowd
    <3>5. i \in Int /\ n + 1 \in Int
      BY <1>2, <3>1
    <3>6. IsFiniteSet(Crowd(k, i, n + 1)') /\
          (CrowdedOut(k, i, n + 1)' <=> MaxEntries <= Cardinality(Crowd(k, i, n + 1)'))
      BY <3>5, CrowdIs
    <3>7. QED
      BY <2>3, <3>4, <3>6
  <2>4. QED
    BY <1>3, <1>5, <2>2, <2>3
<1>6. CASE call.kind = "other"
  <2>1. attempts' = attempts
    BY <1>6 DEF TrackRetries
  <2>2. QED
    BY <1>1, <1>2, <1>3, <1>6, <2>1
<1>7. QED
  BY <1>4, <1>5, <1>6 DEF CallKinds

LEMMA RetryStart == Init => RetryInv
<1> SUFFICES ASSUME Init PROVE RetryInv
  OBVIOUS
<1>1. attempts = <<>> /\ log = <<>>
  BY RetryMaps DEF Init
<1>2. \A m : m = <<>> => MapOK(m) /\ Entries(m) = {} /\ Len(m) = 0
  BY EmptyIsMap
<1>3. AttemptsOK(attempts) /\ Len(attempts) = 0 /\ Entries(attempts) = {}
  BY <1>1, <1>2 DEF AttemptsOK
<1>4. Recent(attempts, ActionSeen)
  BY <1>3 DEF Recent
<1>5. Actions = {} /\ Len(log) = 0
  BY <1>1, <1>2 DEF Actions, LogIndices
<1>6. ASSUME NEW k PROVE Exact(k, 1, Retry!Attempt(attempts, k))
  <2>1. Retry!Attempt(attempts, k) = 0
    BY <1>3, AttemptIs
  <2>2. Opens(k, 1) = {}
    BY OpensAre
  <2>3. QED
    BY <2>1, <2>2, FS_EmptySet DEF Exact
<1>7. QED
  BY <1>4, <1>5, <1>6 DEF RetryInv

\* What is said of an index that was logged stays true.
LEMMA ExactStays ==
    ASSUME NEW n \in Nat, SameUpTo(n), NEW k, NEW c, Exact(k, n, c)
    PROVE  Exact(k, n, c)'
<1>1. Opens(k, n)' = Opens(k, n) /\ Opens(k, n) \subseteq 1..(n - 1)
  BY OpensStay, OpensAre
<1>2. CASE c = Cardinality(Opens(k, n))
  BY <1>1, <1>2 DEF Exact
<1>3. CASE c # Cardinality(Opens(k, n))
  <2>1. c < Cardinality(Opens(k, n)) /\ Forgotten(k, n)
    BY <1>3 DEF Exact
  <2>2. PICK i \in Opens(k, n), j \in Opens(k, n) \cup {n} :
           i < j /\ Opens(k, n) \cap (i + 1)..(j - 1) = {} /\ CrowdedOut(k, i, j)
    BY <2>1 DEF Forgotten
  <2>3. i \in Nat /\ j \in Int /\ j <= n
    BY <1>1
  <2>4. CrowdedOut(k, i, j)'
    BY <2>2, <2>3, CrowdStays
  <2>5. Forgotten(k, n)'
    BY <1>1, <2>2, <2>4 DEF Forgotten
  <2>6. QED
    BY <1>1, <2>1, <2>5 DEF Exact
<1>4. QED
  BY <1>2, <1>3

LEMMA RetryDispatch == PipeInv /\ RetryInv /\ Dispatch => RetryInv'
<1> SUFFICES ASSUME PipeInv, RetryInv, Dispatch PROVE RetryInv'
  OBVIOUS
<1>1. PICK n : n = Len(log) + 1
  OBVIOUS
<1>2. PICK call \in setup.calls, keep \in BOOLEAN :
         /\ TrackRetries(call)
         /\ log' = Append(log, [call |-> call, at |-> clock,
                                fate |-> ThroughChain(Record(call, n), keep).fate,
                                retry_count |-> Retry!Attempt(attempts, call.key)])
  BY <1>1 DEF Dispatch
<1> DEFINE e == [call |-> call, at |-> clock, fate |-> ThroughChain(Record(call, n), keep).fate,
                 retry_count |-> Retry!Attempt(attempts, call.key)]
<1>3. log' = Append(log, e) /\ e.call = call /\ e.retry_count = Retry!Attempt(attempts, call.key)
  BY <1>2
<1>4. call.kind \in CallKinds
  BY SetupIs DEF PipeInv
<1>5. AttemptsOK(attempts) /\ IsSeq(log)
  BY DEF PipeInv, LogOK
<1> HIDE DEF e
<1>6. /\ n \in Nat \ {0} /\ SameUpTo(n) /\ Made(call, n) /\ log'[n] = e
      /\ n + 1 = Len(log') + 1 /\ Actions \subseteq 1..(n - 1)
      /\ Actions' = IF call.kind = "action" THEN Actions \cup {n} ELSE Actions
  BY <1>1, <1>3, <1>5, LogGrows
<1>7. \A k : Exact(k, n, Retry!Attempt(attempts, k))
  BY <1>1 DEF RetryInv
<1>8. Recent(attempts', ActionSeen')
  BY <1>1, <1>2, <1>3, <1>4, AttemptsNext
<1>9. ASSUME NEW m \in Actions'
      PROVE  \A k, c : k = log'[m].call.key /\ c = log'[m].retry_count => Exact(k, m, c)'
  <2>1. CASE m \in Actions
    <3>1. m \in 1..(n - 1) /\ m \in Nat /\ log'[m] = log[m]
      BY <1>6, <2>1 DEF SameUpTo
    <3>2. SameUpTo(m)
      BY <1>6, <3>1 DEF SameUpTo
    <3>3. ASSUME NEW k, NEW c, k = log[m].call.key, c = log[m].retry_count
          PROVE  Exact(k, m, c)'
      <4>1. Exact(k, m, c)
        BY <2>1, <3>3 DEF RetryInv
      <4>2. QED
        BY <3>1, <3>2, <4>1, ExactStays
    <3>4. QED
      BY <3>1, <3>3
  <2>2. CASE m = n /\ call.kind = "action"
    <3>1. log'[m].call = call /\ log'[m].retry_count = Retry!Attempt(attempts, call.key)
      BY <1>3, <1>6, <2>2
    <3>2. ASSUME NEW k, NEW c, k = call.key, c = Retry!Attempt(attempts, call.key)
          PROVE  Exact(k, n, c)'
      <4>1. Exact(k, n, c)
        BY <1>7, <3>2
      <4>2. QED
        BY <1>6, <4>1, ExactStays
    <3>3. QED
      BY <2>2, <3>1, <3>2
  <2>3. QED
    BY <1>6, <2>1, <2>2
<1>10. ASSUME NEW k PROVE Exact(k, n + 1, Retry!Attempt(attempts, k))'
  <2>1. PICK c, d : c = Retry!Attempt(attempts, k) /\ d = Retry!Attempt(attempts', k)
    OBVIOUS
  <2>2. /\ c \in Nat
        /\ \/ call.kind = "observation" /\ call.key = k /\ d = 0
           \/ call.kind = "action" /\ call.key = k /\ d = c + 1
           \/ /\ call.key # k \/ call.kind = "other"
              /\ \/ d = c
                 \/ /\ d = 0 /\ c > 0
                    /\ \A i \in Opens(k, n) : CrowdedOut(k, i, n + 1)'
    BY <1>1, <1>2, <1>3, <1>4, <2>1, AttemptsNext
  <2>3. Exact(k, n, c)
    BY <1>7, <2>1
  <2>4. Exact(k, n + 1, d)'
    BY <1>6, <2>2, <2>3, ExactNext
  <2>5. QED
    BY <2>1, <2>4
<1>11. \A k, m : m = Len(log') + 1 => Exact(k, m, Retry!Attempt(attempts, k))'
  BY <1>6, <1>10
<1>12. QED
  BY <1>8, <1>9, <1>11 DEF RetryInv

LEMMA RetryStep == PipeInv /\ RetryInv /\ [Next]_vars => RetryInv'
<1> SUFFICES ASSUME PipeInv, RetryInv, [Next]_vars PROVE RetryInv'
  OBVIOUS
<1>1. CASE Dispatch
  BY <1>1, RetryDispatch
<1>2. CASE ~Dispatch
  <2>1. UNCHANGED <<attempts, log>>
    BY <1>2 DEF Next, WriteAndNotify, Tick, AlertTimer, CloseAlerting, vars
  <2>2. /\ Actions' = Actions /\ ActionSeen' = ActionSeen
        /\ \A k, n, c : Exact(k, n, c)' <=> Exact(k, n, c)
    <3>1. LogIndices' = LogIndices
      BY <2>1 DEF LogIndices
    <3>2. Actions' = Actions /\ ActionSeen' = ActionSeen
      BY <2>1, <3>1 DEF Actions, ActionSeen
    <3>3. \A k, n : Opens(k, n)' = Opens(k, n)
      BY <2>1 DEF Opens, OpensIn, Since
    <3>4. \A k, i, j : CrowdedOut(k, i, j)' <=> CrowdedOut(k, i, j)
      BY <2>1 DEF CrowdedOut
    <3>5. \A k, n : Forgotten(k, n)' <=> Forgotten(k, n)
      BY <3>3, <3>4 DEF Forgotten
    <3>6. QED
      BY <3>2, <3>3, <3>5 DEF Exact
  <2>3. QED
    BY <2>1, <2>2 DEF RetryInv
<1>3. QED
  BY <1>1, <1>2

\* The retry_count of a call is how often it was opened since it last succeeded, or
\* less, if RetryTracker evicted it: MaxEntries other calls were opened between two of
\* its attempts, or after the last.
THEOREM RetriesAreExact == Spec => []RetriesExact
<1>1. QED
  BY PipelineKept, RetryStart, RetryStep, RetriesAre, PTL DEF Spec

-----------------------------------------------------------------------------
(* What the alerts tell of, together. *)

\* f adds up what the first alerts of q tell of k.
SumsTo(f, q, m, k) ==
    f = [n \in 0..m |-> IF n = 0 THEN 0 ELSE f[n - 1] + Tells(q[n], k)]

LEMMA SumExists ==
    ASSUME NEW m \in Nat, NEW q, NEW k
    PROVE  \E f : SumsTo(f, q, m, k)
<1> DEFINE None == {n \in Nat : ~\E f : SumsTo(f, q, n, k)}
<1> SUFFICES ASSUME None # {} PROVE FALSE
  OBVIOUS
<1>1. PICK n \in None : \A l \in None : n <= l
  BY LeastNatural
<1>2. n # 0
  <2>1. SumsTo([l \in 0..0 |-> 0], q, 0, k)
    BY DEF SumsTo
  <2>2. QED
    BY <2>1
<1>3. PICK f : SumsTo(f, q, n - 1, k)
  <2>1. n - 1 \in Nat /\ n - 1 \notin None
    BY <1>1, <1>2
  <2>2. QED
    BY <2>1
<1> DEFINE g == [l \in 0..n |-> IF l = n THEN f[n - 1] + Tells(q[n], k) ELSE f[l]]
<1>4. SumsTo(g, q, n, k)
  <2>1. \A l \in 0..n : g[l] = IF l = 0 THEN 0 ELSE g[l - 1] + Tells(q[l], k)
    <3> SUFFICES ASSUME NEW l \in 0..n
                 PROVE  g[l] = IF l = 0 THEN 0 ELSE g[l - 1] + Tells(q[l], k)
      OBVIOUS
    <3>1. CASE l = n
      <4>1. n - 1 \in 0..n /\ n - 1 # n /\ n \in 0..n
        BY <1>2
      <4>2. g[n] = f[n - 1] + Tells(q[n], k) /\ g[n - 1] = f[n - 1]
        BY <4>1
      <4>3. QED
        BY <1>2, <3>1, <4>2
    <3>2. CASE l # n
      <4>1. /\ l \in 0..(n - 1) /\ f[l] = IF l = 0 THEN 0 ELSE f[l - 1] + Tells(q[l], k)
            /\ l # 0 => l - 1 \in 0..n /\ l - 1 # n
        BY <1>3, <3>2 DEF SumsTo
      <4>2. g[l] = f[l] /\ (l # 0 => g[l - 1] = f[l - 1])
        BY <3>2, <4>1
      <4>3. QED
        BY <4>1, <4>2
    <3>3. QED
      BY <3>1, <3>2
  <2> HIDE DEF g
  <2>2. \E d : g = [l \in 0..n |-> d[l]]
    <3>1. g = [l \in 0..n |-> g[l]]
      BY DEF g
    <3>2. QED
      BY <3>1
  <2>3. QED
    BY <2>1, <2>2 DEF SumsTo
<1>5. QED
  BY <1>1, <1>4

LEMMA ToldIs ==
    ASSUME NEW q, IsSeq(q), NEW k
    PROVE  \E f : SumsTo(f, q, Len(q), k) /\ Told(k, q) = f[Len(q)]
<1> DEFINE m == Len(q)
           f == CHOOSE g : g = [n \in 0..m |-> IF n = 0 THEN 0 ELSE g[n - 1] + Tells(q[n], k)]
<1>1. SumsTo(f, q, m, k)
  <2>1. \A g : SumsTo(g, q, m, k) <=>
           g = [n \in 0..m |-> IF n = 0 THEN 0 ELSE g[n - 1] + Tells(q[n], k)]
    BY DEF SumsTo
  <2>2. m \in Nat
    BY DEF IsSeq
  <2> HIDE DEF m
  <2>3. \E g : SumsTo(g, q, m, k)
    BY <2>2, SumExists
  <2>4. QED
    BY <2>1, <2>3
<1>2. Told(k, q) = f[m]
  BY Zenon DEF Told
<1>3. QED
  BY <1>1, <1>2

LEMMA ToldOfNothing ==
    ASSUME NEW q, q = <<>>, NEW k
    PROVE  Told(k, q) = 0
<1>1. IsSeq(q) /\ Len(q) = 0
  BY EmptyIsMap
<1>2. PICK f : SumsTo(f, q, 0, k) /\ Told(k, q) = f[0]
  BY <1>1, ToldIs
<1>3. QED
  BY <1>2 DEF SumsTo

\* One more alert tells of what it tells of.
LEMMA ToldAppended ==
    ASSUME NEW q, IsSeq(q), NEW e, NEW k
    PROVE  Told(k, Append(q, e)) = Told(k, q) + Tells(e, k)
<1> DEFINE p == Append(q, e)
           l == Len(q)
<1>1. /\ IsSeq(p) /\ Len(p) = l + 1 /\ p[l + 1] = e /\ l \in Nat
      /\ \A i \in 1..l : p[i] = q[i]
  BY Appended, SeqDomain
<1> HIDE DEF p
<1>2. PICK g : SumsTo(g, q, l, k) /\ Told(k, q) = g[l]
  BY ToldIs
<1>3. PICK f : SumsTo(f, p, l + 1, k) /\ Told(k, p) = f[l + 1]
  <2>1. \E f : SumsTo(f, p, Len(p), k) /\ Told(k, p) = f[Len(p)]
    BY <1>1, ToldIs
  <2>2. QED
    BY <1>1, <2>1
<1> HIDE DEF l
<1>4. /\ \A n \in 0..l : g[n] = IF n = 0 THEN 0 ELSE g[n - 1] + Tells(q[n], k)
      /\ \A n \in 0..(l + 1) : f[n] = IF n = 0 THEN 0 ELSE f[n - 1] + Tells(p[n], k)
  BY <1>2, <1>3 DEF SumsTo
<1> DEFINE Differ == {n \in 0..l : g[n] # f[n]}
<1>5. Differ = {}
  <2> SUFFICES ASSUME Differ # {} PROVE FALSE
    OBVIOUS
  <2>1. PICK n \in Differ : \A i \in Differ : n <= i
    <3>1. Differ \in SUBSET Nat
      BY <1>1
    <3>2. QED
      BY <3>1, LeastNatural
  <2>2. n \in 0..l /\ n \in 0..(l + 1) /\ g[n] # f[n]
    BY <1>1, <2>1
  <2>3. CASE n = 0
    BY <1>4, <2>2, <2>3
  <2>4. CASE n # 0
    <3>1. n - 1 \in 0..l /\ n \in 1..l /\ ~(n <= n - 1)
      BY <1>1, <2>2, <2>4
    <3>2. g[n - 1] = f[n - 1]
      <4>1. n - 1 \notin Differ
        BY <2>1, <3>1
      <4>2. QED
        BY <3>1, <4>1
    <3>3. QED
      BY <1>1, <1>4, <2>2, <2>4, <3>1, <3>2
  <2>5. QED
    BY <2>3, <2>4
<1>6. g[l] = f[l]
  <2>1. l \in 0..l /\ l \notin Differ
    BY <1>1, <1>5
  <2>2. QED
    BY <2>1
<1>7. f[l + 1] = f[l] + Tells(e, k)
  <2>1. l + 1 \in 0..(l + 1) /\ l + 1 # 0 /\ (l + 1) - 1 = l
    BY <1>1
  <2>2. f[l + 1] = IF l + 1 = 0 THEN 0 ELSE f[(l + 1) - 1] + Tells(p[l + 1], k)
    BY <1>4, <2>1
  <2>3. QED
    BY <1>1, <2>1, <2>2
<1>8. QED
  BY <1>2, <1>3, <1>6, <1>7 DEF p

-----------------------------------------------------------------------------
(* Every severe record that was written is told of, counted by an open window, *)
(* or one that there was no room for.                                          *)

UntoldIn(a, k) == IF k \in DOMAIN a.windows THEN a.windows[k].count - 1 ELSE 0
CountOf(q, k) == Cardinality({i \in DOMAIN q : q[i] = k})
NoRoomIn(a, k) == CountOf(a.untracked, k)
Account(a, k) == Told(k, a.sent) + UntoldIn(a, k) + NoRoomIn(a, k)

Tallied(a) == IsSeq(a.untracked) /\ \A k : Told(k, a.sent) \in Nat

LEMMA Tallies ==
    ASSUME NEW a, NEW now \in Nat, AlertShapes(a, now), Tallied(a), NEW k
    PROVE  Told(k, a.sent) \in Nat /\ UntoldIn(a, k) \in Nat /\ NoRoomIn(a, k) \in Nat
<1>1. Told(k, a.sent) \in Nat
  BY DEF Tallied
<1>2. UntoldIn(a, k) \in Nat
  <2>1. CASE k \in DOMAIN a.windows
    <3>1. a.windows[k].count \in Nat \ {0}
      BY <2>1 DEF AlertShapes, Window
    <3>2. QED
      BY <2>1, <3>1 DEF UntoldIn
  <2>2. CASE k \notin DOMAIN a.windows
    BY <2>2 DEF UntoldIn
  <2>3. QED
    BY <2>1, <2>2
<1>3. NoRoomIn(a, k) \in Nat
  <2>1. IsFiniteSet(DOMAIN a.untracked)
    <3>1. DOMAIN a.untracked = 1..Len(a.untracked) /\ Len(a.untracked) \in Nat
      BY SeqDomain DEF Tallied
    <3>2. \A n \in Nat : IsFiniteSet(1..n)
      BY FS_Interval
    <3>3. QED
      BY <3>1, <3>2
  <2>2. QED
    BY <2>1, FS_Subset, FS_CardinalityType DEF NoRoomIn, CountOf
<1>4. QED
  BY <1>1, <1>2, <1>3

LEMMA SentIsSeq == ASSUME NEW a, NEW now, AlertShapes(a, now) PROVE IsSeq(a.sent)
  BY LenProperties DEF AlertShapes, IsSeq

CountMore(q, p, key, k) == CountOf(p, k) = CountOf(q, k) + (IF k = key THEN 1 ELSE 0)
OneMore(q, p, key) == p = Append(q, key)

LEMMA CountAppended ==
    ASSUME NEW q, IsSeq(q), NEW key, NEW p, OneMore(q, p, key), NEW k
    PROVE  IsSeq(p) /\ CountOf(q, k) \in Nat /\ CountMore(q, p, key, k)
<1> DEFINE Q == {i \in DOMAIN q : q[i] = k}
           P == {i \in DOMAIN p : p[i] = k}
           l == Len(q)
<1>0. p = Append(q, key)
  BY DEF OneMore
<1>1. /\ IsSeq(p) /\ Len(p) = l + 1 /\ p[l + 1] = key /\ l \in Nat
      /\ \A i \in 1..l : p[i] = q[i]
  BY <1>0, Appended, SeqDomain
<1>2. DOMAIN q = 1..l /\ DOMAIN p = (1..l) \cup {l + 1} /\ l + 1 \notin 1..l
  <2>1. DOMAIN q = 1..l /\ DOMAIN p = 1..Len(p)
    BY <1>1, SeqDomain
  <2>2. QED
    BY <1>1, <2>1
<1>3. CountOf(q, k) = Cardinality(Q) /\ CountOf(p, k) = Cardinality(P)
  BY DEF CountOf
<1>4. P = IF k = key THEN Q \cup {l + 1} ELSE Q
  <2>1. \A i \in 1..l : i \in P <=> i \in Q
    BY <1>1, <1>2
  <2>2. l + 1 \in P <=> k = key
    BY <1>1, <1>2
  <2>3. P \subseteq (1..l) \cup {l + 1} /\ Q \subseteq 1..l
    BY <1>2
  <2> HIDE DEF P, Q
  <2>4. CASE k = key
    BY <2>1, <2>2, <2>3, <2>4
  <2>5. CASE k # key
    <3>1. \A i : i \in P <=> i \in Q
      BY <2>1, <2>2, <2>3, <2>5
    <3>2. P = Q
      BY <3>1, Zenon
    <3>3. QED
      BY <2>5, <3>2
  <2>6. QED
    BY <2>4, <2>5
<1>5. IsFiniteSet(Q) /\ Cardinality(Q) \in Nat /\ l + 1 \notin Q
  <2>1. IsFiniteSet(1..l) /\ Q \subseteq 1..l
    BY <1>2, FS_Interval
  <2>2. QED
    BY <1>2, <2>1, FS_Subset, FS_CardinalityType
<1> HIDE DEF P, Q
<1>6. CASE k = key
  <2>1. Cardinality(P) = Cardinality(Q) + 1
    BY <1>4, <1>5, <1>6, FS_AddElement
  <2>2. QED
    BY <1>1, <1>3, <1>5, <1>6, <2>1 DEF CountMore
<1>7. CASE k # key
  BY <1>1, <1>3, <1>4, <1>5, <1>7 DEF CountMore
<1>8. QED
  BY <1>6, <1>7

LEMMA NoticedTells ==
    ASSUME NEW a, NEW now \in Nat, AlertShapes(a, now), Tallied(a), NEW key
    PROVE  LET b == Alerting!Noticed(a, key, now)
           IN  /\ Tallied(b)
               /\ \A k : Account(b, k) = Account(a, k) + (IF k = key THEN 1 ELSE 0)
<1> DEFINE b == Alerting!Noticed(a, key, now)
           More(k) == Account(b, k) = Account(a, k) + (IF k = key THEN 1 ELSE 0)
<1>1. CASE key \in DOMAIN a.windows
  <2>1. /\ b.sent = a.sent /\ b.untracked = a.untracked
        /\ b.windows = [a.windows EXCEPT ![key].count = @ + 1]
    BY <1>1 DEF Alerting!Noticed, AlertShapes
  <2>2. /\ DOMAIN b.windows = DOMAIN a.windows
        /\ \A k \in DOMAIN a.windows : k # key => b.windows[k] = a.windows[k]
        /\ a.windows[key].count \in Nat
        /\ b.windows[key].count = a.windows[key].count + 1
    BY <1>1, <2>1 DEF AlertShapes, Window
  <2> HIDE DEF b
  <2>3. ASSUME NEW k PROVE More(k)
    <3>1. UntoldIn(b, k) = UntoldIn(a, k) + (IF k = key THEN 1 ELSE 0)
      <4>1. CASE k = key
        BY <1>1, <2>2, <4>1 DEF UntoldIn
      <4>2. CASE k # key
        <5>1. UntoldIn(b, k) = UntoldIn(a, k) /\ UntoldIn(a, k) \in Nat
          BY <2>2, <4>2, Tallies DEF UntoldIn
        <5>2. QED
          BY <4>2, <5>1
      <4>3. QED
        BY <4>1, <4>2
    <3>2. NoRoomIn(b, k) = NoRoomIn(a, k)
      BY <2>1 DEF NoRoomIn
    <3>3. Told(k, b.sent) = Told(k, a.sent)
      BY <2>1
    <3>4. QED
      BY <3>1, <3>2, <3>3, Tallies DEF Account
  <2>4. Tallied(b)
    BY <2>1 DEF Tallied
  <2>5. QED
    BY <2>3, <2>4 DEF b
<1>2. CASE key \notin DOMAIN a.windows /\ Cardinality(DOMAIN a.windows) >= MaxTrackedKeys
  <2>1. b.sent = a.sent /\ b.windows = a.windows /\ b.untracked = Append(a.untracked, key)
    <3>1. b = [a EXCEPT !.untracked = Append(@, key)]
      BY <1>2, AlertingCounts DEF Alerting!Noticed
    <3>2. a = [windows |-> a.windows, sent |-> a.sent, untracked |-> a.untracked]
      BY DEF AlertShapes
    <3> HIDE DEF b
    <3>3. QED
      BY <3>1, <3>2
  <2> HIDE DEF b
  <2>2. IsSeq(a.untracked)
    BY DEF Tallied
  <2>3. ASSUME NEW k PROVE More(k) /\ IsSeq(b.untracked)
    <3>1. UntoldIn(b, k) = UntoldIn(a, k)
      BY <2>1 DEF UntoldIn
    <3>2. IsSeq(b.untracked) /\ NoRoomIn(b, k) = NoRoomIn(a, k) + (IF k = key THEN 1 ELSE 0)
      <4>1. PICK q, p : q = a.untracked /\ p = b.untracked
        OBVIOUS
      <4>2. IsSeq(q) /\ OneMore(q, p, key)
        BY <2>1, <2>2, <4>1 DEF OneMore
      <4>3. IsSeq(p) /\ CountMore(q, p, key, k)
        BY <4>2, CountAppended
      <4>4. QED
        BY <4>1, <4>3 DEF NoRoomIn, CountMore
    <3>3. Told(k, b.sent) = Told(k, a.sent)
      BY <2>1
    <3>4. QED
      BY <3>1, <3>2, <3>3, Tallies DEF Account
  <2>4. Tallied(b)
    BY <2>1, <2>3 DEF Tallied
  <2>5. QED
    BY <2>3, <2>4 DEF b
<1>3. CASE key \notin DOMAIN a.windows /\ ~(Cardinality(DOMAIN a.windows) >= MaxTrackedKeys)
  <2> DEFINE e == [key |-> key, at |-> now, occurrences |-> 1]
             w == Alerting!Opened(a.windows, key, now)
  <2>1. b.sent = Append(a.sent, e) /\ b.windows = w /\ b.untracked = a.untracked
    <3>1. b = [[a EXCEPT !.windows = w] EXCEPT !.sent = Append(@, e)]
      BY <1>3, AlertingCounts DEF Alerting!Noticed, Alerting!Alerted
    <3>2. a = [windows |-> a.windows, sent |-> a.sent, untracked |-> a.untracked]
      BY DEF AlertShapes
    <3> HIDE DEF b, w, e
    <3>3. QED
      BY <3>1, <3>2
  <2>2. /\ DOMAIN w = DOMAIN a.windows \cup {key}
        /\ \A k \in DOMAIN a.windows : w[k] = a.windows[k]
        /\ w[key].count = 1
    BY <1>3 DEF Alerting!Opened
  <2>3. \A k : Tells(e, k) = IF k = key THEN 1 ELSE 0
    BY DEF Tells
  <2> HIDE DEF b, e, w
  <2>4. ASSUME NEW k PROVE More(k) /\ Told(k, b.sent) \in Nat
    <3>1. UntoldIn(b, k) = UntoldIn(a, k)
      BY <1>3, <2>1, <2>2 DEF UntoldIn
    <3>2. NoRoomIn(b, k) = NoRoomIn(a, k)
      BY <2>1 DEF NoRoomIn
    <3>3. Told(k, b.sent) = Told(k, a.sent) + (IF k = key THEN 1 ELSE 0)
      BY <2>1, <2>3, SentIsSeq, ToldAppended
    <3>4. Told(k, a.sent) \in Nat /\ UntoldIn(a, k) \in Nat /\ NoRoomIn(a, k) \in Nat
      BY Tallies
    <3>5. QED
      BY <3>1, <3>2, <3>3, <3>4 DEF Account
  <2>5. Tallied(b)
    BY <2>1, <2>4 DEF Tallied
  <2>6. QED
    BY <2>4, <2>5 DEF b
<1>4. QED
  BY <1>1, <1>2, <1>3

LEMMA ClosedTells ==
    ASSUME NEW a, NEW now \in Nat, AlertShapes(a, now), Tallied(a), NEW key,
           Alerting!WindowOver(a, key, now)
    PROVE  LET b == Alerting!WindowClosed(a, key, now)
           IN  Tallied(b) /\ \A k : Account(b, k) = Account(a, k)
<1> DEFINE b == Alerting!WindowClosed(a, key, now)
           w == Alerting!Restrict(a.windows, DOMAIN a.windows \ {key})
           c == a.windows[key].count
           e == [key |-> key, at |-> now, occurrences |-> c]
<1>1. key \in DOMAIN a.windows /\ c \in Nat \ {0}
  BY DEF Alerting!WindowOver, AlertShapes, Window
<1>2. /\ b.sent = IF c <= 1 THEN a.sent ELSE Append(a.sent, e)
      /\ b.untracked = a.untracked /\ b.windows = w
  BY DEF Alerting!WindowClosed, Alerting!Alerted, AlertShapes
<1>3. DOMAIN w = DOMAIN a.windows \ {key} /\ \A k \in DOMAIN w : w[k] = a.windows[k]
  BY DEF Alerting!Restrict, AlertShapes
<1>4. c > 1 => \A k : Tells(e, k) = IF k = key THEN c - 1 ELSE 0
  BY <1>1 DEF Tells
<1> HIDE DEF b, w, c, e
<1>5. ASSUME NEW k PROVE Account(b, k) = Account(a, k) /\ Told(k, b.sent) \in Nat
  <2>1. Told(k, a.sent) \in Nat /\ UntoldIn(a, k) \in Nat /\ NoRoomIn(a, k) \in Nat
    BY Tallies
  <2>2. NoRoomIn(b, k) = NoRoomIn(a, k)
    BY <1>2 DEF NoRoomIn
  <2>3. UntoldIn(b, k) = IF k = key THEN 0 ELSE UntoldIn(a, k)
    BY <1>2, <1>3 DEF UntoldIn
  <2>4. k = key => UntoldIn(a, k) = c - 1
    BY <1>1 DEF UntoldIn, c
  <2>5. Told(k, b.sent) = Told(k, a.sent) + (IF k = key THEN c - 1 ELSE 0)
    <3>1. CASE c <= 1
      <4>1. c = 1 /\ b.sent = a.sent
        BY <1>1, <1>2, <3>1
      <4>2. QED
        BY <2>1, <4>1
    <3>2. CASE ~(c <= 1)
      <4>1. Told(k, b.sent) = Told(k, a.sent) + Tells(e, k)
        BY <1>2, <3>2, SentIsSeq, ToldAppended
      <4>2. Tells(e, k) = IF k = key THEN c - 1 ELSE 0
        BY <1>1, <1>4, <3>2
      <4>3. QED
        BY <4>1, <4>2
    <3>3. QED
      BY <3>1, <3>2
  <2>6. QED
    BY <1>1, <2>1, <2>2, <2>3, <2>4, <2>5 DEF Account
<1>6. Tallied(b)
  BY <1>2, <1>5 DEF Tallied
<1>7. QED
  BY <1>5, <1>6 DEF b

LEMMA CancelledTallied ==
    ASSUME NEW a, NEW now, AlertShapes(a, now), Tallied(a)
    PROVE  Tallied(Alerting!Cancelled(a))
<1> DEFINE b == Alerting!Cancelled(a)
<1>1. b.sent = a.sent /\ b.untracked = a.untracked
  BY DEF Alerting!Cancelled, AlertShapes
<1> HIDE DEF b
<1>2. QED
  BY <1>1 DEF Tallied, b

\* The severe records of k that were written, or refused by the transport.
Severe(k) == {i \in Ids(sink) \cup rejected : log[i].call.key = k /\ log[i].call.severe}

ToldInv ==
    /\ Tallied(alerts)
    /\ \A i \in AllOf(plugins.sampling) : ~log[i].call.severe
    /\ ~cancelled /\ "alerting" \in Range(setup.chain) =>
          \A k : Cardinality(Severe(k)) = Account(alerts, k)

LEMMA ToldStart == Init => ToldInv
<1> SUFFICES ASSUME Init PROVE ToldInv
  OBVIOUS
<1>1. /\ alerts.windows = Alerting!NoWindows /\ alerts.sent = <<>> /\ alerts.untracked = <<>>
      /\ sink = <<>> /\ rejected = {}
  BY DEF Init, Alerting!NothingAlerted
<1>2. \A q : q = <<>> => IsSeq(q) /\ DOMAIN q = {} /\ Ids(q) = {}
  <2> SUFFICES ASSUME NEW q, q = <<>> PROVE IsSeq(q) /\ DOMAIN q = {} /\ Ids(q) = {}
    OBVIOUS
  <2>1. IsSeq(q) /\ Len(q) = 0
    BY EmptyIsMap
  <2>2. QED
    BY <2>1, SeqDomain DEF Ids
<1>3. \A k : Told(k, alerts.sent) = 0
  BY <1>1, ToldOfNothing
<1>4. \A k : UntoldIn(alerts, k) = 0
  BY <1>1 DEF UntoldIn, Alerting!NoWindows
<1>5. \A k : NoRoomIn(alerts, k) = 0
  <2>1. DOMAIN alerts.untracked = {}
    BY <1>1, <1>2
  <2>2. QED
    BY <2>1, FS_EmptySet DEF NoRoomIn, CountOf
<1>6. Tallied(alerts)
  BY <1>1, <1>2, <1>3 DEF Tallied
<1>7. \A k : Cardinality(Severe(k)) = Account(alerts, k)
  <2>1. \A k : Severe(k) = {}
    BY <1>1, <1>2 DEF Severe
  <2>2. QED
    BY <1>3, <1>4, <1>5, <2>1, FS_EmptySet DEF Account
<1>8. AllOf(plugins.sampling) = {}
  <2>1. Placed(Ids(queue), Ids(sink), AllOf(plugins.sampling), rejected, Dropped(log), 1..Len(log))
    BY PipelineStarts DEF PipeInv
  <2>2. log = <<>>
    BY DEF Init
  <2>3. 1..Len(log) = {}
    BY <2>2, EmptyIsMap
  <2>4. QED
    BY <2>1, <2>3 DEF Placed
<1>9. QED
  BY <1>6, <1>7, <1>8 DEF ToldInv

LEMMA ToldDispatch == PipeInv /\ ToldInv /\ Dispatch => ToldInv'
<1> SUFFICES ASSUME PipeInv, ToldInv, Dispatch PROVE ToldInv'
  OBVIOUS
<1>1. PICK call \in setup.calls, keep \in BOOLEAN :
         LET end == ThroughChain(Record(call, Len(log) + 1), keep)
         IN  /\ plugins' = end.plugins
             /\ sink' = sink \o end.wrote
             /\ log' = Append(log, [call |-> call, at |-> clock, fate |-> end.fate,
                                    retry_count |-> Retry!Attempt(attempts, call.key)])
  BY DEF Dispatch
<1> DEFINE end   == EndOf(call, keep)
           entry == [call |-> call, at |-> clock, fate |-> end.fate,
                     retry_count |-> Retry!Attempt(attempts, call.key)]
<1>2. plugins' = end.plugins /\ sink' = sink \o end.wrote /\ log' = LogAfter(entry)
  BY <1>1 DEF EndOf, LogAfter
<1>3. UNCHANGED <<setup, alerts, rejected, cancelled>>
  BY DEF Dispatch
<1>4. Entry(entry, call, end) /\ entry.call = call
  BY DEF Entry
<1> HIDE DEF end, entry
<1>5. /\ Ids(sink \o end.wrote) = Ids(sink) \cup Ids(end.wrote)
      /\ \A i \in AllOf(end.plugins.sampling) \cup Ids(end.wrote) :
            i \in AllOf(plugins.sampling) \/ (i = Len(log) + 1 /\ ~call.severe)
  <2>1. end = EndOf(call, keep)
    BY DEF end
  <2>2. QED
    BY <1>4, <2>1, DispatchKeeps
<1>6. /\ log'[Len(log) + 1].call = call /\ \A i \in 1..Len(log) : log'[i] = log[i]
      /\ \A i \in 1..Len(log) : i # Len(log) + 1
  <2>1. IsSeq(log) /\ Len(log) \in Nat
    BY SeqDomain DEF PipeInv, LogOK
  <2>2. QED
    BY <1>2, <1>4, <2>1, Appended DEF LogAfter
<1>7. Ids(sink) \cup rejected \cup AllOf(plugins.sampling) \subseteq 1..Len(log)
  BY DEF PipeInv, Placed
<1>8. \A i \in AllOf(plugins.sampling) : ~log'[i].call.severe
  BY <1>6, <1>7 DEF ToldInv
<1>9. \A i \in AllOf(plugins.sampling)' : ~log'[i].call.severe
  BY <1>2, <1>5, <1>6, <1>8
<1>10. \A k : Severe(k)' = Severe(k)
  <2> SUFFICES ASSUME NEW k PROVE Severe(k)' = Severe(k)
    OBVIOUS
  <2>1. ASSUME NEW i \in Ids(sink) \cup rejected
        PROVE  i \in Ids(sink') \cup rejected' /\ log'[i] = log[i]
    BY <1>2, <1>3, <1>5, <1>6, <1>7
  <2>2. ASSUME NEW i \in Ids(sink') \cup rejected', log'[i].call.severe
        PROVE  i \in Ids(sink) \cup rejected
    <3>1. i \in Ids(sink) \cup rejected \/ i \in Ids(end.wrote)
      BY <1>2, <1>3, <1>5
    <3>2. i \in Ids(end.wrote) => ~log'[i].call.severe
      BY <1>5, <1>6, <1>8
    <3>3. QED
      BY <2>2, <3>1, <3>2
  <2>3. Severe(k)' \subseteq Severe(k)
    BY <2>1, <2>2 DEF Severe
  <2>4. Severe(k) \subseteq Severe(k)'
    BY <2>1 DEF Severe
  <2>5. QED
    BY <2>3, <2>4
<1>11. QED
  BY <1>3, <1>9, <1>10 DEF ToldInv

LEMMA ToldWrite == PipeInv /\ AlertInv /\ ToldInv /\ WriteAndNotify => ToldInv'
<1> SUFFICES ASSUME PipeInv, AlertInv, ToldInv, WriteAndNotify PROVE ToldInv'
  OBVIOUS
<1> DEFINE r == Head(queue)
<1>1. /\ queue # <<>>
      /\ UNCHANGED <<setup, clock, plugins, log, cancelled>>
      /\ \/ rejected' = rejected \cup {r.id} /\ sink' = sink
         \/ sink' = Append(sink, r) /\ rejected' = rejected
      /\ alerts' = IF r.severe /\ "alerting" \in Range(setup.chain)
                   THEN Alerting!Noticed(alerts, r.key, clock) ELSE alerts
  BY DEF WriteAndNotify
<1>2. Known(r, Calls) /\ r.id \in Ids(queue)
  BY <1>1, IdsTail DEF PipeInv
<1> HIDE DEF r
<1>3. r.id \notin Ids(sink) \cup rejected /\ Ids(sink) \cup rejected \subseteq 1..Len(log)
  BY <1>2 DEF PipeInv, Placed
<1>4. Ids(sink') \cup rejected' = (Ids(sink) \cup rejected) \cup {r.id}
  <2>1. CASE rejected' = rejected \cup {r.id} /\ sink' = sink
    BY <2>1
  <2>2. CASE sink' = Append(sink, r) /\ rejected' = rejected
    <3>1. RecordsOK(sink, Calls)
      BY DEF PipeInv
    <3>2. Ids(Append(sink, r)) = Ids(sink) \cup {r.id}
      BY <1>2, <1>3, <3>1, IdsAppended
    <3>3. QED
      BY <2>2, <3>2
  <2>3. QED
    BY <1>1, <2>1, <2>2
<1>5. log[r.id].call.key = r.key /\ log[r.id].call.severe = r.severe
  BY <1>2 DEF Known, Calls, CallsOf
<1>6. \A k : Severe(k)' = IF r.severe /\ k = r.key THEN Severe(k) \cup {r.id} ELSE Severe(k)
  <2> SUFFICES ASSUME NEW k
               PROVE  Severe(k)' = IF r.severe /\ k = r.key THEN Severe(k) \cup {r.id} ELSE Severe(k)
    OBVIOUS
  <2>1. Severe(k)' = {i \in (Ids(sink) \cup rejected) \cup {r.id} :
                         log[i].call.key = k /\ log[i].call.severe}
    BY <1>1, <1>4 DEF Severe
  <2>2. QED
    BY <1>5, <2>1 DEF Severe
<1>7. \A k : IsFiniteSet(Severe(k)) /\ r.id \notin Severe(k) /\ Cardinality(Severe(k)) \in Nat
  <2>1. IsFiniteSet(1..Len(log))
    <3>1. Len(log) \in Nat
      BY SeqDomain DEF PipeInv, LogOK
    <3>2. QED
      BY <3>1, FS_Interval
  <2>2. \A k : Severe(k) \subseteq 1..Len(log) /\ r.id \notin Severe(k)
    BY <1>3 DEF Severe
  <2>3. QED
    BY <2>1, <2>2, FS_Subset, FS_CardinalityType
<1>8. \A k : Cardinality(Severe(k)') =
                Cardinality(Severe(k)) + (IF r.severe /\ k = r.key THEN 1 ELSE 0)
  <2> SUFFICES ASSUME NEW k
               PROVE  Cardinality(Severe(k)') =
                         Cardinality(Severe(k)) + (IF r.severe /\ k = r.key THEN 1 ELSE 0)
    OBVIOUS
  <2>1. CASE r.severe /\ k = r.key
    <3>1. Cardinality(Severe(k) \cup {r.id}) = Cardinality(Severe(k)) + 1
      BY <1>7, FS_AddElement
    <3>2. QED
      BY <1>6, <2>1, <3>1
  <2>2. CASE ~(r.severe /\ k = r.key)
    BY <1>6, <1>7, <2>2
  <2>3. QED
    BY <2>1, <2>2
<1>9. \A i \in AllOf(plugins.sampling)' : ~log'[i].call.severe
  BY <1>1 DEF ToldInv
<1>10. AlertShapes(alerts, clock) /\ clock \in Nat /\ Tallied(alerts)
  BY DEF AlertInv, ToldInv
<1>11. CASE r.severe /\ "alerting" \in Range(setup.chain)
  <2>1. alerts' = Alerting!Noticed(alerts, r.key, clock)
    BY <1>1, <1>11
  <2>2. /\ Tallied(alerts')
        /\ \A k : Account(alerts', k) = Account(alerts, k) + (IF k = r.key THEN 1 ELSE 0)
    BY <1>10, <2>1, NoticedTells
  <2>3. ASSUME ~cancelled, NEW k PROVE Cardinality(Severe(k)') = Account(alerts', k)
    <3>1. Cardinality(Severe(k)) = Account(alerts, k)
      BY <1>11, <2>3 DEF ToldInv
    <3>2. Cardinality(Severe(k)') = Cardinality(Severe(k)) + (IF k = r.key THEN 1 ELSE 0)
      BY <1>8, <1>11
    <3>3. QED
      BY <2>2, <3>1, <3>2
  <2>4. QED
    BY <1>1, <1>9, <2>2, <2>3 DEF ToldInv
<1>12. CASE ~r.severe \/ "alerting" \notin Range(setup.chain)
  <2>1. alerts' = alerts
    BY <1>1, <1>12
  <2>2. ASSUME ~cancelled, "alerting" \in Range(setup.chain), NEW k
        PROVE  Cardinality(Severe(k)') = Account(alerts, k)
    <3>1. Cardinality(Severe(k)) = Account(alerts, k)
      BY <2>2 DEF ToldInv
    <3>2. QED
      BY <1>7, <1>8, <1>12, <2>2, <3>1
  <2>3. QED
    BY <1>1, <1>9, <1>10, <2>1, <2>2 DEF ToldInv
<1>13. QED
  BY <1>11, <1>12

LEMMA ToldStep == PipeInv /\ AlertInv /\ ToldInv /\ [Next]_vars => ToldInv'
<1> SUFFICES ASSUME PipeInv, AlertInv, ToldInv, [Next]_vars PROVE ToldInv'
  OBVIOUS
<1>1. AlertShapes(alerts, clock) /\ clock \in Nat /\ Tallied(alerts)
  BY DEF AlertInv, ToldInv
<1>2. ASSUME UNCHANGED <<setup, plugins, sink, rejected, log>>
      PROVE  (\A k : Severe(k)' = Severe(k)) /\ \A i \in AllOf(plugins.sampling)' : ~log'[i].call.severe
  BY <1>2 DEF Severe, ToldInv
<1>3. CASE Dispatch
  BY <1>3, ToldDispatch
<1>4. CASE WriteAndNotify
  BY <1>4, ToldWrite
<1>5. CASE Tick \/ UNCHANGED vars
  <2>1. UNCHANGED <<setup, plugins, sink, rejected, log, alerts, cancelled>>
    BY <1>5 DEF Tick, vars
  <2>2. QED
    BY <1>2, <2>1 DEF ToldInv
<1>6. CASE AlertTimer
  <2>1. UNCHANGED <<setup, plugins, sink, rejected, log, cancelled>>
    BY <1>6 DEF AlertTimer
  <2>2. PICK key : /\ Alerting!WindowOver(alerts, key, clock)
                   /\ alerts' = Alerting!WindowClosed(alerts, key, clock)
    BY <1>6 DEF AlertTimer
  <2>3. Tallied(alerts') /\ \A k : Account(alerts', k) = Account(alerts, k)
    BY <1>1, <2>2, ClosedTells
  <2>4. QED
    BY <1>2, <2>1, <2>3 DEF ToldInv
<1>7. CASE CloseAlerting
  <2>1. UNCHANGED <<setup, plugins, sink, rejected, log>> /\ cancelled' = TRUE
        /\ alerts' = Alerting!Cancelled(alerts)
    BY <1>7 DEF CloseAlerting
  <2>2. Tallied(alerts')
    BY <1>1, <2>1, CancelledTallied
  <2>3. QED
    BY <1>2, <2>1, <2>2 DEF ToldInv
<1>8. QED
  BY <1>3, <1>4, <1>5, <1>6, <1>7 DEF Next

\* Until AlertingPlugin is closed, every severe record that was written is told of by
\* an alert, counted by the window open for its key, or one that found no room.
THEOREM AlertsAreAccounted == Spec => []AlertsAccounted
<1>1. PipeInv /\ ToldInv => AlertsAccounted
  <2> SUFFICES ASSUME PipeInv, ToldInv PROVE AlertsAccounted
    OBVIOUS
  <2>1. Sampling!Ids(sink) = Ids(sink)
    BY IdsAre DEF PipeInv, RecordsOK
  <2>2. \A k : Severe(k) = {i \in Sampling!Ids(sink) \cup rejected :
                               log[i].call.key = k /\ log[i].call.severe}
    BY <2>1 DEF Severe
  <2>3. \A k : Account(alerts, k) = Told(k, alerts.sent) + Untold(k) + NoRoom(k)
    BY DEF Account, UntoldIn, Untold, NoRoomIn, CountOf, NoRoom
  <2>4. QED
    BY <2>2, <2>3 DEF ToldInv, AlertsAccounted
<1>2. QED
  BY <1>1, PipelineKept, AlertsStart, AlertsStep, ToldStart, ToldStep, PTL DEF Spec
=============================================================================
