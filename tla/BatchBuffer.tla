----------------------------- MODULE BatchBuffer -----------------------------
(***************************************************************************)
(* What one batching transport (src/transports/batching-transport.ts, and  *)
(* the same code without the byte bound in http-transport.ts and           *)
(* beacon-transport.ts) does with the records it is given, as operations   *)
(* on its state.  sendBatch() belongs to the backend: it may deliver or    *)
(* throw at once, or return a promise that settles later, so an operation  *)
(* that sends has several outcomes and is written as the set of them.      *)
(***************************************************************************)
EXTENDS Integers, Sequences

CONSTANTS
    MaxRecords,     \* maxRecords
    MaxBytes        \* maxBytes

ASSUME BufferAssumption == MaxRecords \in Nat \ {0} /\ MaxBytes \in Nat \ {0}

\* What toItem() and sizeOf() make of a record: a size in bytes, or one of them
\* throws (JSON.stringify does, on a BigInt or a cycle).
ToItemThrows == -1
SizeOfThrows == -2

Elements(q) == {q[i] : i \in DOMAIN q}

EmptyTransport ==
    [buffer    |-> <<>>,  bytes |-> 0,
     sent      |-> <<>>,            \* history: the batches, in the order sent
     sending   |-> {},              \* those whose promise is pending
     delivered |-> {}, lost |-> {}] \* records: what became of them

\* sendBatch() returned a promise, had sent the batch already, or threw.
Sent(b, batch) ==
    LET handed == [b EXCEPT !.sent = Append(@, batch)]
    IN  { [handed EXCEPT !.sending = @ \cup {batch}],
          [handed EXCEPT !.delivered = @ \cup Elements(batch)],
          [handed EXCEPT !.lost = @ \cup Elements(batch)] }

FlushedSendFirst(b) ==      \* faulty: the buffer is emptied after a send that did not throw
    IF b.buffer = <<>> THEN {b}
    ELSE { IF s.lost = b.lost THEN [s EXCEPT !.buffer = <<>>, !.bytes = 0] ELSE s :
              s \in Sent(b, b.buffer) }

FlushedCarriesOver(b) ==    \* faulty: a batch is taken to be worth maxBytes
    IF b.buffer = <<>> THEN {b}
    ELSE Sent([b EXCEPT !.buffer = <<>>, !.bytes = @ - MaxBytes], b.buffer)

FlushedKeepsBytes(b) ==     \* faulty: bufferBytes is not reset
    IF b.buffer = <<>> THEN {b} ELSE Sent([b EXCEPT !.buffer = <<>>], b.buffer)

\* flush(): the buffer is emptied before sendBatch() is called.
Flushed(b) ==
    IF b.buffer = <<>> THEN {b}
    ELSE Sent([b EXCEPT !.buffer = <<>>, !.bytes = 0], b.buffer)

FullByRecords(b) == Len(b.buffer) >= MaxRecords     \* faulty: no byte bound
Full(b) == Len(b.buffer) >= MaxRecords \/ b.bytes >= MaxBytes

\* write(): the record is in the buffer by the time sizeOf() throws.
Written(b, r, size) ==
    LET pushed == [b EXCEPT !.buffer = Append(@, r)]
        sized  == [pushed EXCEPT !.bytes = @ + size]
    IN  CASE size = ToItemThrows -> {[b EXCEPT !.lost = @ \cup {r}]}
          [] size = SizeOfThrows -> {pushed}
          [] size \in Nat        -> IF Full(sized) THEN Flushed(sized) ELSE {sized}

\* The promise of a batch settles; nothing is sent again.
Settled(b, batch) ==
    LET over == [b EXCEPT !.sending = @ \ {batch}]
    IN  { [over EXCEPT !.delivered = @ \cup Elements(batch)],
          [over EXCEPT !.lost = @ \cup Elements(batch)] }
=============================================================================
