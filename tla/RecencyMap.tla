----------------------------- MODULE RecencyMap -----------------------------
(***************************************************************************)
(* A JavaScript Map as RateLimitPlugin, SamplingPlugin and RetryTracker    *)
(* use it: entries in order of insertion, deleted and set again when they  *)
(* are touched, so that the first is the least recently touched.           *)
(***************************************************************************)
EXTENDS Integers, SequencesExt

EmptyMap == <<>>
Keys(m) == {m[i].key : i \in DOMAIN m}
PlaceOf(m, k) == CHOOSE i \in DOMAIN m : m[i].key = k
At(m, k) == m[PlaceOf(m, k)].value

\* delete(k)
Without(m, k) == IF k \in Keys(m) THEN RemoveAt(m, PlaceOf(m, k)) ELSE m

\* delete(k) and set(k, v)
Touched(m, k, v) == Append(Without(m, k), [key |-> k, value |-> v])

\* delete(keys().next().value) while there are more than n entries.
Newest(m, n) == IF Len(m) > n THEN SubSeq(m, Len(m) - n + 1, Len(m)) ELSE m
=============================================================================
