-------------------------- MODULE BatchingTransport --------------------------
(***************************************************************************)
(* One batching transport under its callers: writes, flushes and close()   *)
(* in any order, while earlier sends are still pending.                    *)
(***************************************************************************)
EXTENDS BatchBuffer, SequencesExt

CONSTANTS
    Sizes,          \* what toItem() and sizeOf() may make of a record
    MaxWrites       \* bound: write() calls

ASSUME WritesAssumption ==
    /\ Sizes \subseteq Nat \cup {ToItemThrows, SizeOfThrows}
    /\ MaxWrites \in Nat

VARIABLES
    transport,      \* the transport's state, as in BatchBuffer
    sizes           \* history: the size of each record written, in order

vars == <<transport, sizes>>

Records == 1..MaxWrites

Init == transport = EmptyTransport /\ sizes = <<>>

Write ==
    /\ Len(sizes) < MaxWrites
    /\ \E size \in Sizes :
          /\ sizes' = Append(sizes, size)
          /\ transport' \in Written(transport, Len(sizes) + 1, size)

\* flush(), and close(), which is a flush.
Flush == transport' \in Flushed(transport) /\ UNCHANGED sizes

SettleForgets ==            \* faulty: a rejection is swallowed and forgotten
    /\ \E batch \in transport.sending :
          transport' \in Settled(transport, batch)
                            \cup {[transport EXCEPT !.sending = @ \ {batch}]}
    /\ UNCHANGED sizes

Settle ==
    /\ \E batch \in transport.sending : transport' \in Settled(transport, batch)
    /\ UNCHANGED sizes

Next == Write \/ Flush \/ Settle

Spec == Init /\ [][Next]_vars

-----------------------------------------------------------------------------
(* Properties *)

TypeOK ==
    /\ sizes \in Seq(Sizes) /\ Len(sizes) <= MaxWrites
    /\ transport \in [buffer : Seq(Records), bytes : Nat,
                      sent : Seq(Seq(Records)), sending : SUBSET Seq(Records),
                      delivered : SUBSET Records, lost : SUBSET Records]
    /\ transport.sending \subseteq Elements(transport.sent)

\* Buffers items and flushes once either bound is reached, "so no batching
\* transport can grow its buffer unboundedly": between calls both are below.
BufferBounded ==
    Len(transport.buffer) < MaxRecords /\ transport.bytes < MaxBytes

\* bufferBytes is the size of what is in the buffer, after any mixture of
\* threshold flushes, explicit ones, throwing sends and throwing conversions.
SizeOf(r) == IF sizes[r] \in Nat THEN sizes[r] ELSE 0

BytesOf(records) ==
    LET bytes[n \in 0..Len(records)] ==
            IF n = 0 THEN 0 ELSE bytes[n - 1] + SizeOf(records[n])
    IN  bytes[Len(records)]

BytesMatch == transport.bytes = BytesOf(transport.buffer)

\* Every record the transport could convert leaves it once, in the order it was
\* written, and the batches and the buffer leave no gap between them, however
\* sends throw, reject or overtake each other.
Convertible(i) == sizes[i] # ToItemThrows

SentInOrder ==
    LET gone == FlattenSeq(transport.sent) \o transport.buffer
    IN  /\ Elements(gone) = {i \in DOMAIN sizes : Convertible(i)}
        /\ \A i, j \in DOMAIN gone : i < j => gone[i] < gone[j]

\* A record is in one place: buffered, in one pending batch, delivered or lost.
Pending == UNION {Elements(batch) : batch \in transport.sending}

OnePlace ==
    LET held  == Elements(transport.buffer)
        ended == transport.delivered \cup transport.lost
    IN  /\ DOMAIN sizes = held \cup Pending \cup ended
        /\ held \cap (Pending \cup ended) = {}
        /\ Pending \cap ended = {}
        /\ transport.delivered \cap transport.lost = {}
        /\ \A b, c \in transport.sending : b # c => Elements(b) \cap Elements(c) = {}
=============================================================================
