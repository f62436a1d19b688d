------------------------- MODULE TamperEvidentPlugin -------------------------
(***************************************************************************)
(* src/plugins/tamper-evident-plugin.ts.  A digest is the pair of what it  *)
(* was computed from: a record, named by its id, and the digest before.    *)
(***************************************************************************)
EXTENDS Naturals, Sequences

GENESIS_HASH == <<>>
Unhashed == <<"none">>

Digest(r, prev) == <<r.id, prev>>

\* computeHash() throws on a record whose meta has a cycle.
CanHash(r) == ~r.cyclic

\* beforeLog()
Hashed(r, lastHash) == [r EXCEPT !.prev_hash = lastHash, !.hash = Digest(r, lastHash)]

\* verifyChain()
VerifyChain(records) ==
    \A i \in DOMAIN records :
        LET prev == IF i = 1 THEN GENESIS_HASH ELSE records[i - 1].hash
        IN  /\ records[i].hash # Unhashed
            /\ records[i].prev_hash = prev
            /\ records[i].hash = Digest(records[i], prev)
=============================================================================
