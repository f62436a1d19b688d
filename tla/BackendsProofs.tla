--------------------------- MODULE BackendsProofs ---------------------------
(***************************************************************************)
(* Proofs about Backends.  Every action moves one batch on, so that what   *)
(* holds of each batch is stated of a batch, and what the batches share    *)
(* (the client, the table, the pause) of the state.                        *)
(***************************************************************************)
EXTENDS Backends, FiniteSetTheorems, SequenceTheorems, TLAPS

Stages == {"importing", "opening", "acquired", "creating", "created", "sending", "resolved",
           "rejected", "skipped"}
Statuses == {"pending", "handed", "ok", "failed", "limited"}
Request == [first : Int, last : Int, status : Statuses]
Batch == [stage : Stages, purpose : {"table", "rows"}, through : Nat, sentAt : Nat,
          requests : UNION {[D -> Request] : D \in SUBSET Nat}]

\* What holds of batch n wherever it is: it is on its way with all its records, and
\* is there when all were taken.
BatchKept(s, n, b) ==
    /\ b.requests # <<>> => b.stage \in {"sending", "resolved", "rejected"}
    /\ b.stage \in {"sending", "resolved", "skipped"} => b.purpose = "rows"
    /\ b.stage \in {"creating", "created"} => b.purpose = "table"
    /\ b.stage \in {"sending", "resolved"} =>
          LET chunks == Chunks(s.batches[n].size, s.transport.limit)
          IN  /\ DOMAIN b.requests = DOMAIN chunks
              /\ \A k \in DOMAIN chunks :
                    b.requests[k].first = chunks[k].first /\ b.requests[k].last = chunks[k].last
    /\ b.stage = "resolved" =>
          \A k \in DOMAIN b.requests : b.requests[k].status \in {"ok", "handed", "limited"}
    /\ b.requests # <<>> => b.purpose = "rows"

Shapes ==
    /\ setup \in Setups /\ made \in Nat /\ client \in 0..made /\ early \in Nat /\ creates \in Nat
    /\ clock \in 0..MaxTicks /\ lastPause \in Nat /\ schemaEnsured \in BOOLEAN
    /\ pausedUntil \in Nat \cup {NotPaused} /\ tables \subseteq 0..made
    /\ batches \in Seq(Batch)
    /\ \A n \in Indices :
          /\ n \in DOMAIN setup.batches /\ batches[n].through <= made
          /\ BatchKept(setup, n, batches[n])

Imports == {n \in Indices : batches[n].stage = "importing"}

\* While a batch has a client there is one, and batches that find none make one each.
Clients ==
    /\ early > 0 => client # NoClient
    /\ setup.injected => client = Injected /\ made = 1
    /\ \A n \in Indices :
          /\ batches[n].stage \in {"importing", "opening"} => ~setup.injected
          /\ batches[n].stage \in {"opening", "acquired", "creating", "created"} =>
                batches[n].through # NoClient
          /\ batches[n].stage \in {"acquired", "creating", "created"} => client # NoClient
    /\ ClientsMade + Cardinality(Imports) <= (IF early = 0 THEN Len(batches) ELSE early)

\* The first batch creates the table, before its rows.
TableFirst ==
    /\ setup.ensureSchema => (schemaEnsured <=> Indices # {})
    /\ \A n \in Indices : batches[n].purpose = "table" => n = 1 /\ setup.ensureSchema
    /\ creates <= 1 /\ (Indices = {} => creates = 0)
    /\ \A n \in Indices : batches[n].purpose = "table" =>
          /\ batches[n].stage \in {"importing", "opening", "acquired"} => creates = 0
          /\ batches[n].stage = "created" => Database(batches[n].through) \in tables
    /\ setup.ensureSchema /\ 1 \in Indices /\ batches[1].purpose = "rows" =>
          tables # {} /\ batches[1].stage \in {"sending", "resolved", "rejected"}
    /\ setup.ensureSchema /\ 1 \in blind => Transport.private /\ ClientsMade > 1

\* The pause there is is that of the last 429, or it is over.
PauseKnown ==
    Transport.pauses =>
        /\ pausedUntil = NotPaused => clock >= lastPause
        /\ pausedUntil # NotPaused => pausedUntil = lastPause

BackendsInv == Shapes /\ Clients /\ TableFirst /\ PauseKnown

-----------------------------------------------------------------------------
(* Transports, requests and batches *)

LEMMA TransportFacts ==
    \A t \in Transports :
        /\ t.limit \in Nat \ {0} /\ t.answer \in {"later", "injected", "now", "none"}
        /\ t.converts \in {"first", "piecemeal", "never"}
        /\ t.sql => ~t.pauses /\ t.answer \in {"later", "now"}
<1>1. DYNAMO_BATCH_LIMIT \in Nat \ {0} /\ SQS_BATCH_LIMIT \in Nat \ {0} /\ Whole \in Nat \ {0}
  BY BackendsAssumption DEF BackendsAssumption, Whole
<1> USE DEF Fetching, Importing
<1> DEFINE Fine(t) ==
        /\ t.limit \in Nat \ {0} /\ t.answer \in {"later", "injected", "now", "none"}
        /\ t.converts \in {"first", "piecemeal", "never"}
        /\ t.sql => ~t.pauses /\ t.answer \in {"later", "now"}
<1>2. Fine(DatadogTransport) /\ Fine(ElasticsearchTransport) /\ Fine(NewRelicTransport)
  BY <1>1 DEF DatadogTransport, ElasticsearchTransport, NewRelicTransport
<1>3. Fine(CloudWatchTransport) /\ Fine(CloudLoggingTransport) /\ Fine(AppInsightsTransport)
  BY <1>1 DEF CloudWatchTransport, CloudLoggingTransport, AppInsightsTransport
<1>4. Fine(PostgresTransport) /\ Fine(MySQLTransport) /\ Fine(SQLiteTransport)
  BY <1>1 DEF PostgresTransport, MySQLTransport, SQLiteTransport
<1>5. Fine(MongoDBTransport) /\ Fine(DynamoDBTransport)
  BY <1>1 DEF MongoDBTransport, DynamoDBTransport
<1>6. Fine(RedisTransport) /\ Fine(KafkaTransport)
  BY <1>1 DEF RedisTransport, KafkaTransport
<1>7. Fine(PubSubTransport) /\ Fine(SQSTransport)
  BY <1>1 DEF PubSubTransport, SQSTransport
<1>8. Fine(RabbitMQTransport)
  BY <1>1 DEF RabbitMQTransport
<1> HIDE DEF Fine
<1>9. \A t \in Transports : Fine(t)
  BY <1>2, <1>3, <1>4, <1>5, <1>6, <1>7, <1>8 DEF Transports
<1>10. QED
  BY <1>9 DEF Fine

LEMMA SetupFacts ==
    ASSUME setup \in Setups
    PROVE  /\ Transport.limit \in Nat \ {0}
           /\ Answer \in {"later", "now", "none"}
           /\ Transport.sql => ~Transport.pauses /\ Answer \in {"later", "now"}
           /\ setup.ensureSchema => Transport.sql
           /\ setup.injected \in BOOLEAN /\ setup.ensureSchema \in BOOLEAN
           /\ Len(setup.batches) \in Nat /\ DOMAIN setup.batches = 1..Len(setup.batches)
           /\ \A n \in DOMAIN setup.batches : setup.batches[n].size \in Nat \ {0}
<1>1. /\ Transport \in Transports /\ setup.injected \in BOOLEAN /\ setup.ensureSchema \in BOOLEAN
      /\ setup.ensureSchema => Transport.sql
      /\ setup.batches \in Seq([size : Nat \ {0}, bad : Nat])
  BY BackendsAssumption DEF BackendsAssumption, Transport
<1>2. /\ Transport.limit \in Nat \ {0} /\ Transport.answer \in {"later", "injected", "now", "none"}
      /\ Transport.sql => ~Transport.pauses /\ Transport.answer \in {"later", "now"}
  BY <1>1, TransportFacts
<1>3. /\ Len(setup.batches) \in Nat /\ DOMAIN setup.batches = 1..Len(setup.batches)
      /\ \A n \in DOMAIN setup.batches : setup.batches[n] \in [size : Nat \ {0}, bad : Nat]
  <2> DEFINE T == [size : Nat \ {0}, bad : Nat]
             q == setup.batches
  <2>1. q \in Seq(T)
    BY <1>1
  <2> HIDE DEF T, q
  <2>2. Len(q) \in Nat /\ DOMAIN q = 1..Len(q) /\ \A n \in 1..Len(q) : q[n] \in T
    BY <2>1, LenProperties, ElementOfSeq
  <2>3. QED
    BY <2>2 DEF T, q
<1>4. QED
  BY <1>1, <1>2, <1>3 DEF Answer

LEMMA MinOfTwo ==
    ASSUME NEW a \in Int, NEW b \in Int
    PROVE  Min({a, b}) = IF a <= b THEN a ELSE b
<1> DEFINE m == IF a <= b THEN a ELSE b
<1>1. m \in {a, b} /\ \A y \in {a, b} : m <= y
  OBVIOUS
<1>2. \A x \in {a, b} : (\A y \in {a, b} : x <= y) => x = m
  OBVIOUS
<1>3. QED
  BY <1>1, <1>2 DEF Min

LEMMA ChunkFacts ==
    ASSUME NEW size \in Nat \ {0}, NEW limit \in Nat \ {0}
    PROVE  LET chunks == Chunks(size, limit)
               count  == (size + limit - 1) \div limit
           IN  /\ count \in Nat /\ DOMAIN chunks = 1..count
               /\ \A k \in 1..count :
                     /\ chunks[k].first = (k - 1) * limit + 1 /\ chunks[k].first \in Int
                     /\ chunks[k].last = (IF k * limit <= size THEN k * limit ELSE size)
                     /\ chunks[k].last \in Int
<1> DEFINE count == (size + limit - 1) \div limit
<1>1. count \in Nat
  BY SMT
<1>2. /\ DOMAIN Chunks(size, limit) = 1..count
      /\ \A k \in 1..count :
            Chunks(size, limit)[k] = [first |-> (k - 1) * limit + 1, last |-> Min({k * limit, size})]
  BY DEF Chunks
<1> HIDE DEF count
<1>3. ASSUME NEW k \in 1..count
      PROVE  /\ (k - 1) * limit + 1 \in Int /\ k * limit \in Int
             /\ Min({k * limit, size}) = (IF k * limit <= size THEN k * limit ELSE size)
  <2>1. k \in Int /\ k * limit \in Int /\ (k - 1) * limit + 1 \in Int
    BY <1>1
  <2>2. QED
    BY <2>1, MinOfTwo
<1>4. \A k \in 1..count :
         /\ Chunks(size, limit)[k].first = (k - 1) * limit + 1
         /\ Chunks(size, limit)[k].last = Min({k * limit, size})
  <2> TAKE k \in 1..count
  <2> DEFINE first == (k - 1) * limit + 1
             last == Min({k * limit, size})
  <2>1. Chunks(size, limit)[k] = [first |-> first, last |-> last]
    BY <1>2
  <2> HIDE DEF first, last
  <2>2. Chunks(size, limit)[k].first = first /\ Chunks(size, limit)[k].last = last
    BY <2>1
  <2>3. QED
    BY <2>2 DEF first, last
<1>5. ASSUME NEW k \in 1..count
      PROVE  /\ Chunks(size, limit)[k].first \in Int
             /\ Chunks(size, limit)[k].last = (IF k * limit <= size THEN k * limit ELSE size)
             /\ Chunks(size, limit)[k].last \in Int
  <2>1. Chunks(size, limit)[k].last = (IF k * limit <= size THEN k * limit ELSE size)
    BY <1>3, <1>4
  <2>2. (k - 1) * limit + 1 \in Int /\ k * limit \in Int
    BY <1>3
  <2>3. Chunks(size, limit)[k].first = (k - 1) * limit + 1
    BY <1>4
  <2> DEFINE chunk == Chunks(size, limit)[k]
             m == k * limit
             f == (k - 1) * limit + 1
  <2>4. m \in Int /\ f \in Int /\ size \in Int
    BY <2>2
  <2> HIDE DEF chunk, m, f
  <2>5. chunk.first = f /\ chunk.last = (IF m <= size THEN m ELSE size)
    BY <2>1, <2>3 DEF chunk, m, f
  <2>6. chunk.first \in Int /\ chunk.last \in Int
    BY <2>4, <2>5
  <2>7. QED
    BY <2>1, <2>6 DEF chunk
<1>6. QED
  BY <1>1, <1>2, <1>4, <1>5 DEF count

\* The requests of a batch that goes out as it is.
LEMMA StatusFacts ==
    ASSUME NEW D \in SUBSET Nat, NEW requests, DOMAIN requests = D, NEW status \in Statuses,
           \A k \in D : requests[k].first \in Int /\ requests[k].last \in Int
    PROVE  /\ Status(requests, status) \in UNION {[E -> Request] : E \in SUBSET Nat}
           /\ DOMAIN Status(requests, status) = D
           /\ \A k \in D : /\ Status(requests, status)[k].first = requests[k].first
                           /\ Status(requests, status)[k].last = requests[k].last
                           /\ Status(requests, status)[k].status = status
<1>1. Status(requests, status) \in [D -> Request]
  BY DEF Status, Request
<1>2. QED
  BY <1>1 DEF Status

LEMMA NoRequests == <<>> \in UNION {[D -> Request] : D \in SUBSET Nat}
<1>1. <<>> \in [{} -> Request]
  OBVIOUS
<1>2. QED
  BY <1>1

LEMMA IssuedFacts ==
    ASSUME setup \in Setups, clock \in Nat, NEW n \in DOMAIN setup.batches, NEW c \in Nat,
           NEW b \in Issued(n, c)
    PROVE  /\ b \in Batch /\ BatchKept(setup, n, b) /\ b.purpose = "rows" /\ b.through = c
           /\ b.stage \in {"sending", "resolved", "rejected"}
<1> DEFINE s == setup.batches[n]
           chunks == Chunks(s.size, Transport.limit)
           requests == Issuable(s.size, s.bad)
           record(status, stage) ==
             [stage |-> stage, purpose |-> "rows", through |-> c, sentAt |-> clock,
              requests |-> Status(requests, status)]
<1>1. /\ DOMAIN chunks \in SUBSET Nat
      /\ \A k \in DOMAIN chunks : chunks[k].first \in Int /\ chunks[k].last \in Int
  <2>1. s.size \in Nat \ {0} /\ Transport.limit \in Nat \ {0}
    BY SetupFacts
  <2> HIDE DEF s
  <2>2. DOMAIN chunks \in SUBSET Nat
    <3> DEFINE count == (s.size + Transport.limit - 1) \div Transport.limit
    <3>1. count \in Nat /\ DOMAIN chunks = 1..count
      BY <2>1, ChunkFacts
    <3> HIDE DEF count, chunks
    <3>2. QED
      BY <3>1
  <2>3. \A k \in DOMAIN chunks : chunks[k].first \in Int /\ chunks[k].last \in Int
    BY SMTT(60), <2>1, ChunkFacts
  <2>4. QED
    BY <2>2, <2>3
<1>2. /\ DOMAIN requests \in SUBSET (DOMAIN chunks)
      /\ \A k \in DOMAIN requests : requests[k] = chunks[k]
      /\ ~Throws(n) => requests = chunks
  BY DEF Issuable, Throws, Chunks
<1>3. \A status \in Statuses :
        /\ Status(requests, status) \in UNION {[D -> Request] : D \in SUBSET Nat}
        /\ DOMAIN Status(requests, status) = DOMAIN requests
        /\ \A k \in DOMAIN requests :
              /\ Status(requests, status)[k].first = chunks[k].first
              /\ Status(requests, status)[k].last = chunks[k].last
              /\ Status(requests, status)[k].status = status
  <2> HIDE DEF requests, chunks
  <2>1. /\ DOMAIN requests \in SUBSET Nat
        /\ \A k \in DOMAIN requests : requests[k].first \in Int /\ requests[k].last \in Int
    BY <1>1, <1>2
  <2>2. QED
    BY <1>2, <2>1, StatusFacts
<1>4. \E status \in {"pending", "handed", "ok", "failed"}, stage \in {"sending", "resolved", "rejected"} :
         /\ b = record(status, stage) /\ (Throws(n) => stage = "rejected")
         /\ stage = "resolved" => status \in {"ok", "handed"}
  <2>1. Answer \in {"later", "now", "none"}
    BY SetupFacts
  <2>2. CASE Answer = "later"
    <3>1. b = record("pending", IF Throws(n) THEN "rejected" ELSE "sending")
      BY <2>2 DEF Issued
    <3> HIDE DEF record
    <3>2. QED
      BY <3>1
  <2>3. CASE Answer = "none"
    <3>1. b = record("handed", IF Throws(n) THEN "rejected" ELSE "resolved")
      BY <2>3 DEF Issued
    <3> HIDE DEF record
    <3>2. QED
      BY <3>1
  <2>4. CASE Answer = "now"
    <3>1. \/ b = record("failed", IF Throws(n) THEN "rejected" ELSE "rejected")
          \/ b = record("ok", IF Throws(n) THEN "rejected" ELSE "resolved")
      BY <2>4 DEF Issued
    <3> HIDE DEF record
    <3>2. QED
      BY <3>1
  <2>5. QED
    BY <2>1, <2>2, <2>3, <2>4
<1>5. PICK status \in {"pending", "handed", "ok", "failed"}, stage \in {"sending", "resolved", "rejected"} :
         /\ b = record(status, stage) /\ (Throws(n) => stage = "rejected")
         /\ stage = "resolved" => status \in {"ok", "handed"}
  BY <1>4
<1> DEFINE sent == Status(requests, status)
<1>6. b = [stage |-> stage, purpose |-> "rows", through |-> c, sentAt |-> clock, requests |-> sent]
  BY <1>5
<1>7. /\ sent \in UNION {[D -> Request] : D \in SUBSET Nat}
      /\ ~Throws(n) => DOMAIN sent = DOMAIN chunks
      /\ \A k \in DOMAIN sent : /\ sent[k].first = chunks[k].first /\ sent[k].last = chunks[k].last
                                /\ sent[k].status = status
  <2> HIDE DEF requests, chunks
  <2>1. status \in Statuses
    BY DEF Statuses
  <2>2. QED
    BY <1>2, <1>3, <2>1
<1> HIDE DEF sent
<1>8. b \in Batch
  BY <1>6, <1>7 DEF Batch, Stages
<1>9. BatchKept(setup, n, b)
  BY <1>5, <1>6, <1>7 DEF BatchKept, Transport
<1>10. QED
  BY <1>6, <1>8, <1>9

-----------------------------------------------------------------------------
(* Batches that change *)

After(n, b) ==
    /\ batches' \in Seq(Batch) /\ Indices' = 1..Len(batches') /\ Len(batches') \in Nat
    /\ Len(batches') = IF n > Len(batches) THEN Len(batches) + 1 ELSE Len(batches)
    /\ Indices' = Indices \cup {n} /\ batches'[n] = b
    /\ \A m \in Indices : m # n => batches'[m] = batches[m]

LEMMA BatchesType ==
    ASSUME batches \in Seq(Batch)
    PROVE  /\ Len(batches) \in Nat /\ Indices = 1..Len(batches)
           /\ \A n \in Indices : batches[n] \in Batch
  BY LenProperties, ElementOfSeq DEF Indices

LEMMA Placed ==
    ASSUME batches \in Seq(Batch), NEW n \in 1..(Len(batches) + 1), NEW b \in Batch, Put(n, b)
    PROVE  After(n, b)
<1>1. Len(batches) \in Nat /\ Indices = 1..Len(batches)
  BY BatchesType
<1>2. CASE n > Len(batches)
  <2>1. n = Len(batches) + 1 /\ batches' = Append(batches, b)
    BY <1>1, <1>2 DEF Put
  <2>2. /\ batches' \in Seq(Batch) /\ Len(batches') = Len(batches) + 1 /\ batches'[n] = b
        /\ \A m \in 1..Len(batches) : batches'[m] = batches[m]
    BY <2>1, AppendProperties
  <2>3. Indices' = 1..Len(batches')
    BY <2>2, LenProperties DEF Indices
  <2>4. QED
    BY <1>1, <1>2, <2>1, <2>2, <2>3 DEF After
<1>3. CASE ~(n > Len(batches))
  <2>1. n \in 1..Len(batches) /\ batches' = [batches EXCEPT ![n] = b]
    BY <1>1, <1>3 DEF Put
  <2>2. /\ batches' \in Seq(Batch) /\ Len(batches') = Len(batches) /\ batches'[n] = b
        /\ \A m \in 1..Len(batches) : m # n => batches'[m] = batches[m]
    BY <2>1, ExceptSeq
  <2>3. Indices' = 1..Len(batches')
    BY <2>2, LenProperties DEF Indices
  <2>4. QED
    BY <1>1, <1>3, <2>1, <2>2, <2>3 DEF After
<1>4. QED
  BY <1>2, <1>3

LEMMA Replaced ==
    ASSUME batches \in Seq(Batch), NEW n \in Indices, NEW b \in Batch,
           batches' = [batches EXCEPT ![n] = b]
    PROVE  After(n, b)
<1>1. Len(batches) \in Nat /\ n \in 1..Len(batches)
  BY BatchesType
<1>2. n \in 1..(Len(batches) + 1) /\ Put(n, b)
  BY <1>1 DEF Put
<1>3. QED
  BY <1>2, Placed

LEMMA BatchFields ==
    ASSUME NEW b \in Batch
    PROVE  /\ b.stage \in Stages /\ b.purpose \in {"table", "rows"} /\ b.through \in Nat
           /\ b.sentAt \in Nat /\ \E D \in SUBSET Nat : b.requests \in [D -> Request]
  BY DEF Batch

LEMMA AtFacts ==
    ASSUME clock \in Nat, NEW stage \in {"importing", "creating", "created", "rejected", "skipped"},
           NEW purpose \in {"table", "rows"}, NEW c \in Nat, NEW n,
           stage \in {"creating", "created"} => purpose = "table",
           stage = "skipped" => purpose = "rows"
    PROVE  LET b == At(stage, purpose, c)
           IN  /\ b \in Batch /\ BatchKept(setup, n, b) /\ b.stage = stage /\ b.purpose = purpose
               /\ b.through = c /\ b.requests = <<>>
<1> DEFINE b == At(stage, purpose, c)
<1>1. /\ b.stage = stage /\ b.purpose = purpose /\ b.through = c /\ b.requests = <<>>
  BY DEF At
<1>2. b \in Batch
  BY NoRequests DEF At, Batch, Stages
<1> HIDE DEF b
<1>3. BatchKept(setup, n, b)
  BY <1>1 DEF BatchKept
<1>4. QED
  BY <1>1, <1>2, <1>3 DEF b

\* What a step does with one batch leaves the invariant as it is, if what the
\* batches share goes along with it.
LEMMA Turned ==
    ASSUME BackendsInv, NEW n \in DOMAIN setup.batches, NEW b \in Batch, After(n, b),
           BatchKept(setup, n, b), b.through <= made', setup' = setup,
           made' \in Nat, made' >= made, client' \in 0..made',
           client # NoClient => client' # NoClient,
           setup.injected => client' = client /\ made' = made,
           early' \in Nat, early' > 0 => client' # NoClient,
           clock' \in 0..MaxTicks, lastPause' \in Nat, schemaEnsured' \in BOOLEAN,
           pausedUntil' \in Nat \cup {NotPaused},
           b.stage \in {"importing", "opening"} => ~setup.injected,
           b.stage \in {"opening", "acquired", "creating", "created"} => b.through # NoClient,
           b.stage \in {"acquired", "creating", "created"} => client' # NoClient,
           ClientsMade' + Cardinality(Imports') <= (IF early' = 0 THEN Len(batches') ELSE early'),
           setup.ensureSchema => schemaEnsured' = TRUE,
           tables \subseteq tables', tables' \subseteq 0..made',
           creates' \in Nat, creates' <= 1, creates' = creates \/ n = 1,
           b.purpose = "table" =>
               /\ n = 1 /\ setup.ensureSchema
               /\ b.stage \in {"importing", "opening", "acquired"} => creates' = 0
               /\ b.stage = "created" => Database(b.through) \in tables',
           b.purpose = "rows" /\ n = 1 /\ setup.ensureSchema =>
               tables' # {} /\ b.stage \in {"sending", "resolved", "rejected"},
           setup.ensureSchema /\ 1 \in blind' => Transport.private /\ ClientsMade' > 1
    PROVE  Shapes' /\ Clients' /\ TableFirst'
<1>1. /\ batches \in Seq(Batch) /\ batches' \in Seq(Batch) /\ made \in Nat
      /\ Indices' = Indices \cup {n} /\ batches'[n] = b
      /\ \A m \in Indices : m # n => batches'[m] = batches[m]
      /\ Transport' = Transport
      /\ \A c \in Nat : Database(c)' = Database(c)
  BY DEF BackendsInv, Shapes, After, Transport, Database
<1>2. Shapes'
  <2>1. ASSUME NEW m \in Indices'
        PROVE  /\ m \in DOMAIN setup.batches /\ batches'[m].through <= made'
               /\ BatchKept(setup, m, batches'[m])
    <3>1. CASE m = n
      BY <1>1, <3>1
    <3>2. CASE m # n
      <4>1. m \in Indices /\ batches'[m] = batches[m] /\ batches[m].through \in Nat
        BY <1>1, <2>1, <3>2, BatchesType, BatchFields
      <4>2. /\ m \in DOMAIN setup.batches /\ batches[m].through <= made
            /\ BatchKept(setup, m, batches[m])
        BY <4>1 DEF BackendsInv, Shapes
      <4>3. batches[m].through <= made'
        BY <1>1, <4>1, <4>2
      <4>4. QED
        BY <4>1, <4>2, <4>3
    <3>3. QED
      BY <3>1, <3>2
  <2>2. setup' \in Setups
    BY DEF BackendsInv, Shapes
  <2>3. QED
    BY <1>1, <2>1, <2>2 DEF Shapes
<1>3. Clients'
  <2>1. setup.injected => client' = Injected /\ made' = 1
    BY DEF BackendsInv, Clients
  <2>2. ASSUME NEW m \in Indices'
        PROVE  /\ batches'[m].stage \in {"importing", "opening"} => ~setup.injected
               /\ batches'[m].stage \in {"opening", "acquired", "creating", "created"} =>
                     batches'[m].through # NoClient
               /\ batches'[m].stage \in {"acquired", "creating", "created"} => client' # NoClient
    <3>1. CASE m = n
      BY <1>1, <3>1
    <3>2. CASE m # n
      BY <1>1, <3>2 DEF BackendsInv, Clients
    <3>3. QED
      BY <3>1, <3>2
  <2>3. QED
    BY <2>1, <2>2 DEF Clients
<1>4. TableFirst'
  <2>1. \A m \in Indices : batches[m].purpose = "table" => m = 1 /\ setup.ensureSchema
    BY DEF BackendsInv, TableFirst
  <2>2. ASSUME NEW m \in Indices', batches'[m].purpose = "table"
        PROVE  /\ m = 1 /\ setup.ensureSchema
               /\ batches'[m].stage \in {"importing", "opening", "acquired"} => creates' = 0
               /\ batches'[m].stage = "created" => Database(batches'[m].through) \in tables'
    <3>1. CASE m = n
      BY <1>1, <2>2, <3>1
    <3>2. CASE m # n
      <4>1. m \in Indices /\ batches'[m] = batches[m]
        BY <1>1, <3>2
      <4>2. m = 1 /\ setup.ensureSchema /\ creates' = creates
        BY <2>1, <2>2, <3>2, <4>1
      <4>3. QED
        BY <2>2, <4>1, <4>2 DEF BackendsInv, TableFirst
    <3>3. QED
      BY <3>1, <3>2
  <2>3. ASSUME setup.ensureSchema, 1 \in Indices', batches'[1].purpose = "rows"
        PROVE  tables' # {} /\ batches'[1].stage \in {"sending", "resolved", "rejected"}
    <3>1. CASE n = 1
      BY <1>1, <2>3, <3>1
    <3>2. CASE n # 1
      <4>1. 1 \in Indices /\ batches'[1] = batches[1]
        BY <1>1, <2>3, <3>2
      <4>2. QED
        BY <2>3, <4>1 DEF BackendsInv, TableFirst
    <3>3. QED
      BY <3>1, <3>2
  <2>4. Indices' # {}
    BY <1>1
  <2>5. \A m \in Indices' : batches'[m].through \in Nat
    <3>1. Indices' = DOMAIN batches' /\ DOMAIN batches' = 1..Len(batches')
      BY <1>1, LenProperties DEF Indices
    <3>2. QED
      BY <1>1, <3>1, ElementOfSeq, BatchFields
  <2>6. QED
    BY <1>1, <2>2, <2>3, <2>4, <2>5 DEF TableFirst
<1>5. QED
  BY <1>2, <1>3, <1>4

LEMMA ImportsFinite ==
    ASSUME batches \in Seq(Batch)
    PROVE  IsFiniteSet(Imports) /\ Cardinality(Imports) \in Nat /\ Imports \subseteq Indices
<1>1. Imports \subseteq Indices /\ IsFiniteSet(Indices)
  BY BatchesType, FS_Interval DEF Imports
<1>2. QED
  BY <1>1, FS_Subset, FS_CardinalityType

LEMMA ImportsAfter ==
    ASSUME batches \in Seq(Batch), NEW n, NEW b, After(n, b)
    PROVE  /\ b.stage # "importing" => Imports' = Imports \ {n}
           /\ b.stage = "importing" => Imports' = Imports \cup {n}
  BY DEF After, Imports

\* A turn that gives the driver's client something to do.
LEMMA UseTurn ==
    ASSUME BackendsInv, NEW n \in DOMAIN setup.batches, n <= Len(batches) + 1,
           NEW c \in 1..made, NEW purpose \in {"table", "rows"}, Use(n, c, purpose),
           client # NoClient, setup' = setup, client' = client, made' = made, early' = early,
           clock' = clock, lastPause' = lastPause, schemaEnsured' \in BOOLEAN,
           pausedUntil' \in Nat \cup {NotPaused},
           n \notin Imports,
           setup.ensureSchema => schemaEnsured' = TRUE,
           purpose = "table" => n = 1 /\ setup.ensureSchema /\ creates = 0,
           purpose = "rows" /\ setup.ensureSchema /\ n = 1 =>
               tables # {} /\ (Tableless(c) => Transport.private /\ ClientsMade > 1)
    PROVE  Shapes' /\ Clients' /\ TableFirst'
<1>1. /\ batches \in Seq(Batch) /\ clock \in Nat /\ setup \in Setups /\ made \in Nat
      /\ tables \subseteq 0..made /\ creates \in Nat /\ Len(batches) \in Nat /\ early \in Nat
      /\ client \in 0..made /\ clock \in 0..MaxTicks /\ lastPause \in Nat /\ c \in Nat
  BY SMTT(60), LenProperties, BackendsAssumption DEF BackendsInv, Shapes, BackendsAssumption
<1>2. n \in 1..(Len(batches) + 1)
  BY <1>1, SetupFacts
<1>3. \E b \in Batch :
         /\ After(n, b) /\ BatchKept(setup, n, b) /\ b.purpose = purpose /\ b.through = c
         /\ b.stage \in {"creating", "created", "sending", "resolved", "rejected"}
         /\ b.stage = "created" => Database(c) \in tables'
         /\ purpose = "rows" => b.stage \in {"sending", "resolved", "rejected"}
         /\ tables \subseteq tables' /\ tables' \subseteq tables \cup {Database(c)}
         /\ creates' = (IF purpose = "table" THEN creates + 1 ELSE creates)
         /\ purpose = "table" => blind' = blind
         /\ purpose = "rows" => blind' = IF Tableless(c) THEN blind \cup {n} ELSE blind
  <2>1. CASE purpose = "table"
    <3>1. /\ creates' = creates + 1 /\ blind' = blind
          /\ \/ Put(n, At("creating", "table", c)) /\ tables' = tables
             \/ Put(n, At("created", "table", c)) /\ tables' = tables \cup {Database(c)}
             \/ Put(n, At("rejected", "table", c)) /\ tables' = tables
      <4>1. Answer \in {"later", "now"}
        BY <1>1, <2>1, SetupFacts
      <4>2. CASE Answer = "later"
        BY <2>1, <4>2 DEF Use, CreateTable
      <4>3. CASE Answer = "now"
        BY <2>1, <4>3 DEF Use, CreateTable
      <4>4. QED
        BY <4>1, <4>2, <4>3
    <3>2. PICK stage \in {"creating", "created", "rejected"} :
             /\ Put(n, At(stage, "table", c))
             /\ tables' = IF stage = "created" THEN tables \cup {Database(c)} ELSE tables
      BY <3>1
    <3> DEFINE b == At(stage, "table", c)
    <3>3. /\ b \in Batch /\ BatchKept(setup, n, b) /\ b.stage = stage /\ b.purpose = "table"
          /\ b.through = c
      BY <1>1, AtFacts
    <3> HIDE DEF b
    <3>4. After(n, b)
      BY <1>1, <1>2, <3>2, <3>3, Placed DEF b
    <3>5. QED
      BY <2>1, <3>1, <3>2, <3>3, <3>4
  <2>2. CASE purpose = "rows"
    <3>1. /\ tables' = tables /\ creates' = creates
          /\ blind' = IF Tableless(c) THEN blind \cup {n} ELSE blind
          /\ \E b \in Issued(n, c) : Put(n, b)
      BY <2>2 DEF Use, SendRows
    <3>2. PICK b \in Issued(n, c) : Put(n, b)
      BY <3>1
    <3>3. /\ b \in Batch /\ BatchKept(setup, n, b) /\ b.purpose = "rows" /\ b.through = c
          /\ b.stage \in {"sending", "resolved", "rejected"}
      BY <1>1, IssuedFacts
    <3>4. After(n, b)
      BY <1>1, <1>2, <3>2, <3>3, Placed
    <3>5. QED
      BY <2>2, <3>1, <3>3, <3>4
  <2>3. QED
    BY <2>1, <2>2
<1>4. PICK b \in Batch :
         /\ After(n, b) /\ BatchKept(setup, n, b) /\ b.purpose = purpose /\ b.through = c
         /\ b.stage \in {"creating", "created", "sending", "resolved", "rejected"}
         /\ b.stage = "created" => Database(c) \in tables'
         /\ purpose = "rows" => b.stage \in {"sending", "resolved", "rejected"}
         /\ tables \subseteq tables' /\ tables' \subseteq tables \cup {Database(c)}
         /\ creates' = (IF purpose = "table" THEN creates + 1 ELSE creates)
         /\ purpose = "table" => blind' = blind
         /\ purpose = "rows" => blind' = IF Tableless(c) THEN blind \cup {n} ELSE blind
  BY <1>3
<1>5. Imports' = Imports /\ Len(batches') >= Len(batches) /\ ClientsMade' = ClientsMade
  <2>1. Imports' = Imports \ {n}
    BY <1>1, <1>4, ImportsAfter
  <2>2. Len(batches') >= Len(batches)
    BY <1>1, <1>4 DEF After
  <2>3. QED
    BY <2>1, <2>2 DEF ClientsMade
<1>6. ClientsMade' + Cardinality(Imports') <= (IF early' = 0 THEN Len(batches') ELSE early')
  <2>1. /\ Cardinality(Imports) \in Nat /\ ClientsMade \in Int /\ Len(batches') \in Nat
        /\ ClientsMade + Cardinality(Imports) <= (IF early = 0 THEN Len(batches) ELSE early)
    BY <1>1, <1>4, ImportsFinite, SetupFacts
       DEF BackendsInv, Clients, ClientsMade, After, Injected, NoClient
  <2> DEFINE k == Cardinality(Imports)
             made0 == ClientsMade
  <2> HIDE DEF k, made0
  <2>2. made0 + k <= (IF early = 0 THEN Len(batches') ELSE early)
    BY <1>1, <1>5, <2>1 DEF k, made0
  <2>3. QED
    BY <1>5, <2>2 DEF k, made0
<1>7. Database(c) \in 0..made
  BY <1>1 DEF Database, NoClient
<1>8. creates' \in Nat /\ creates' <= 1
  BY <1>1, <1>4 DEF BackendsInv, TableFirst
<1>9. setup.ensureSchema /\ 1 \in blind' => Transport.private /\ ClientsMade' > 1
  BY <1>4, <1>5 DEF BackendsInv, TableFirst
<1>10. /\ early' > 0 => client' # NoClient
       /\ client' \in 0..made' /\ clock' \in 0..MaxTicks /\ lastPause' \in Nat
  BY <1>1
<1>11. /\ b.through <= made' /\ made' \in Nat /\ made' >= made /\ early' \in Nat
       /\ tables' \subseteq 0..made' /\ b.through # NoClient
  BY <1>1, <1>4, <1>7 DEF NoClient
<1>12. /\ b.purpose = "table" =>
              /\ n = 1 /\ setup.ensureSchema
              /\ b.stage \in {"importing", "opening", "acquired"} => creates' = 0
              /\ b.stage = "created" => Database(b.through) \in tables'
       /\ b.purpose = "rows" /\ n = 1 /\ setup.ensureSchema =>
              tables' # {} /\ b.stage \in {"sending", "resolved", "rejected"}
       /\ creates' = creates \/ n = 1
  BY <1>4
<1>13. QED
  BY <1>4, <1>6, <1>8, <1>9, <1>10, <1>11, <1>12, Turned

\* A turn that looks for a client first, and imports one if there is none.
LEMMA AcquireTurn ==
    ASSUME BackendsInv, NEW n \in DOMAIN setup.batches, n <= Len(batches) + 1,
           NEW purpose \in {"table", "rows"}, Acquire(n, purpose),
           client = NoClient => n = Len(batches) + 1,
           setup' = setup, client' = client, made' = made, early' = early,
           clock' = clock, lastPause' = lastPause, schemaEnsured' \in BOOLEAN,
           pausedUntil' \in Nat \cup {NotPaused},
           n \notin Imports,
           setup.ensureSchema => schemaEnsured' = TRUE,
           purpose = "table" => n = 1 /\ setup.ensureSchema /\ creates = 0,
           purpose = "rows" /\ setup.ensureSchema /\ n = 1 =>
               /\ client # NoClient /\ tables # {}
               /\ Tableless(client) => Transport.private /\ ClientsMade > 1
    PROVE  Shapes' /\ Clients' /\ TableFirst'
<1>1. /\ batches \in Seq(Batch) /\ clock \in Nat /\ setup \in Setups /\ made \in Nat
      /\ tables \subseteq 0..made /\ creates \in Nat /\ Len(batches) \in Nat /\ early \in Nat
      /\ client \in 0..made /\ clock \in 0..MaxTicks /\ lastPause \in Nat
  BY LenProperties, BackendsAssumption DEF BackendsInv, Shapes, BackendsAssumption
<1>2. CASE client # NoClient
  <2>1. client \in 1..made /\ Use(n, client, purpose)
    BY <1>1, <1>2 DEF Acquire, NoClient
  <2>2. QED
    BY <1>2, <2>1, UseTurn
<1>3. CASE client = NoClient
  <2> DEFINE b == At("importing", purpose, NoClient)
  <2>1. /\ Put(n, b) /\ tables' = tables /\ creates' = creates /\ blind' = blind
        /\ n = Len(batches) + 1
    <3>1. Put(n, b) /\ UNCHANGED <<tables, creates, blind>>
      BY <1>3, Zenon DEF Acquire
    <3>2. QED
      BY <1>3, <3>1
  <2>2. /\ b \in Batch /\ BatchKept(setup, n, b) /\ b.stage = "importing" /\ b.purpose = purpose
        /\ b.through = 0
    BY <1>1, AtFacts DEF NoClient
  <2> HIDE DEF b
  <2>3. /\ After(n, b) /\ Len(batches') = Len(batches) + 1 /\ n \notin Indices
    BY <1>1, <2>1, <2>2, Placed, BatchesType DEF After
  <2>4. ~setup.injected /\ early = 0
    BY <1>1, <1>3 DEF BackendsInv, Clients, Injected, NoClient
  <2>5. ClientsMade' + Cardinality(Imports') <= (IF early' = 0 THEN Len(batches') ELSE early')
    <3>1. Imports' = Imports \cup {n}
      BY <1>1, <2>2, <2>3, ImportsAfter
    <3>2. /\ Cardinality(Imports') = Cardinality(Imports) + 1 /\ Cardinality(Imports) \in Nat
      BY <1>1, <3>1, ImportsFinite, FS_AddElement
    <3>3. ClientsMade' = ClientsMade /\ ClientsMade = made
      BY <1>1, <2>4 DEF ClientsMade, NoClient
    <3>4. ClientsMade + Cardinality(Imports) <= Len(batches)
      BY <2>4 DEF BackendsInv, Clients
    <3>5. QED
      BY <1>1, <2>3, <2>4, <3>2, <3>3, <3>4
  <2>6. creates <= 1 /\ ClientsMade' = ClientsMade
    BY DEF BackendsInv, TableFirst, ClientsMade
  <2>7. setup.ensureSchema /\ 1 \in blind' => Transport.private /\ ClientsMade' > 1
    BY <2>1, <2>6 DEF BackendsInv, TableFirst
  <2>8. /\ b.purpose = "table" =>
              /\ n = 1 /\ setup.ensureSchema
              /\ b.stage \in {"importing", "opening", "acquired"} => creates' = 0
              /\ b.stage = "created" => Database(b.through) \in tables'
        /\ b.purpose = "rows" /\ n = 1 /\ setup.ensureSchema =>
              tables' # {} /\ b.stage \in {"sending", "resolved", "rejected"}
    BY <1>3, <2>1, <2>2
  <2>9. /\ b.through <= made' /\ early' \in Nat /\ (early' > 0 => client' # NoClient)
        /\ made' \in Nat /\ made' >= made /\ client' \in 0..made' /\ creates' \in Nat
        /\ creates' <= 1 /\ creates' = creates
        /\ tables \subseteq tables' /\ tables' \subseteq 0..made'
        /\ clock' \in 0..MaxTicks /\ lastPause' \in Nat
        /\ b.stage \in {"importing", "opening"} => ~setup.injected
        /\ b.stage \notin {"opening", "acquired", "creating", "created"}
    BY <1>1, <2>1, <2>2, <2>4, <2>6
  <2>10. QED
    BY <1>3, <2>2, <2>3, <2>4, <2>5, <2>7, <2>8, <2>9, Turned
<1>4. QED
  BY <1>2, <1>3

\* The client the batch was to make is there, or an await of its turn failed:
\* batch n goes to another stage, and nothing happens to the table.
LEMMA StageTurn ==
    ASSUME BackendsInv, NEW n \in Indices, NEW stage \in {"rejected", "opening", "acquired"},
           NEW through \in Nat, through <= made',
           batches' = [batches EXCEPT ![n] = [batches[n] EXCEPT !.stage = stage, !.through = through]],
           batches[n].stage \in {"importing", "opening", "creating"},
           stage # "rejected" => batches[n].stage # "creating" /\ through # NoClient,
           stage = "opening" => batches[n].stage = "importing",
           stage = "acquired" => client' # NoClient,
           setup' = setup, made' = made \/ (made' = made + 1 /\ batches[n].stage = "importing"),
           client' = client \/ (stage # "rejected" /\ client' = through /\ through # NoClient),
           early' = early \/ (early' = Len(batches) /\ early = 0 /\ client' # NoClient),
           clock' = clock, lastPause' = lastPause, schemaEnsured' = schemaEnsured,
           pausedUntil' = pausedUntil, tables' = tables, creates' = creates, blind' = blind
    PROVE  Shapes' /\ Clients' /\ TableFirst'
<1> DEFINE b == [batches[n] EXCEPT !.stage = stage, !.through = through]
<1>1. /\ batches \in Seq(Batch) /\ clock \in Nat /\ setup \in Setups /\ made \in Nat
      /\ tables \subseteq 0..made /\ creates \in Nat /\ Len(batches) \in Nat /\ early \in Nat
      /\ client \in 0..made /\ clock \in 0..MaxTicks /\ lastPause \in Nat
      /\ schemaEnsured \in BOOLEAN /\ pausedUntil \in Nat \cup {NotPaused}
      /\ n \in DOMAIN setup.batches /\ n \in 1..Len(batches) /\ batches[n] \in Batch
      /\ BatchKept(setup, n, batches[n])
  BY LenProperties, BackendsAssumption, BatchesType DEF BackendsInv, Shapes, BackendsAssumption
<1>2. /\ b \in Batch /\ b.stage = stage /\ b.through = through /\ b.purpose = batches[n].purpose
      /\ b.requests = batches[n].requests
  <2> DEFINE old == batches[n]
  <2>1. stage \in Stages /\ old \in Batch
    BY <1>1 DEF Stages
  <2> HIDE DEF old
  <2>2. LET m == [old EXCEPT !.stage = stage, !.through = through]
        IN  /\ m \in Batch /\ m.stage = stage /\ m.through = through
            /\ m.purpose = old.purpose /\ m.requests = old.requests
    BY <2>1 DEF Batch
  <2>3. QED
    BY <2>2 DEF old
<1>3. After(n, b)
  BY <1>1, <1>2, Replaced
<1> HIDE DEF b
<1>4. BatchKept(setup, n, b)
  BY <1>1, <1>2 DEF BatchKept
<1>5. batches[n].stage \in {"importing", "opening"} => ~setup.injected
  BY DEF BackendsInv, Clients
<1>6. batches[n].stage = "importing" => n \in Imports
  BY DEF Imports
<1>7. /\ made' \in Nat /\ made' >= made /\ client' \in 0..made' /\ early' \in Nat
      /\ client # NoClient => client' # NoClient
      /\ setup.injected => client' = client /\ made' = made
      /\ early' > 0 => client' # NoClient
      /\ Len(batches') = Len(batches)
  <2>1. batches[n].stage = "creating" => stage = "rejected" /\ made' = made /\ client' = client
    OBVIOUS
  <2>2. setup.injected => batches[n].stage = "creating"
    BY <1>5
  <2>3. early > 0 => client # NoClient
    BY DEF BackendsInv, Clients
  <2>4. Len(batches') = Len(batches)
    BY <1>1, <1>3 DEF After
  <2>5. QED
    BY <1>1, <2>1, <2>2, <2>3, <2>4
<1>8. ClientsMade' + Cardinality(Imports') <= (IF early' = 0 THEN Len(batches') ELSE early')
  <2> DEFINE k == Cardinality(Imports)
             l == Cardinality(Imports')
             c == ClientsMade
  <2>1. k \in Nat /\ c \in Int /\ c + k <= (IF early = 0 THEN Len(batches) ELSE early)
    BY <1>1, ImportsFinite DEF BackendsInv, Clients, ClientsMade, NoClient, Injected
  <2>2. Imports' = Imports \ {n}
    BY <1>1, <1>2, <1>3, ImportsAfter
  <2>3. l = IF batches[n].stage = "importing" THEN k - 1 ELSE k
    <3>1. CASE batches[n].stage = "importing"
      BY <1>1, <1>6, <2>2, <3>1, ImportsFinite, FS_RemoveElement
    <3>2. CASE batches[n].stage # "importing"
      <4>1. Imports' = Imports
        BY <2>2, <3>2 DEF Imports
      <4>2. QED
        BY <3>2, <4>1
    <3>3. QED
      BY <3>1, <3>2
  <2>4. ClientsMade' = c + (made' - made)
    BY <1>1, <1>7 DEF ClientsMade, NoClient, Injected
  <2> HIDE DEF k, l, c
  <2>5. ClientsMade' + l <= c + k
    BY SMTT(60), <1>1, <2>1, <2>3, <2>4
  <2>6. ClientsMade' \in Int /\ l \in Int
    <3>1. made' \in Int /\ made \in Int
      BY <1>1, <1>7
    <3>2. QED
      BY <2>1, <2>3, <2>4, <3>1
  <2>7. c + k <= (IF early' = 0 THEN Len(batches') ELSE early')
    <3>1. CASE early' = early
      BY <1>7, <2>1, <3>1
    <3>2. CASE early' = Len(batches) /\ early = 0
      BY <1>7, <2>1, <3>2
    <3>3. QED
      BY <3>1, <3>2
  <2>8. ClientsMade' + l <= (IF early' = 0 THEN Len(batches') ELSE early')
    BY SMTT(60), <1>1, <1>7, <2>1, <2>5, <2>6, <2>7
  <2>9. QED
    BY <2>8 DEF l
<1>9. setup.ensureSchema => schemaEnsured' = TRUE
  BY DEF BackendsInv, TableFirst
<1>10. creates' \in Nat /\ creates' <= 1 /\ tables \subseteq tables' /\ tables' \subseteq 0..made'
  BY <1>1, <1>7 DEF BackendsInv, TableFirst
<1>11. /\ b.purpose = "table" =>
              /\ n = 1 /\ setup.ensureSchema
              /\ b.stage \in {"importing", "opening", "acquired"} => creates' = 0
              /\ b.stage = "created" => Database(b.through) \in tables'
       /\ b.purpose = "rows" /\ n = 1 /\ setup.ensureSchema =>
              tables' # {} /\ b.stage \in {"sending", "resolved", "rejected"}
  BY <1>1, <1>2 DEF BackendsInv, TableFirst
<1>12. setup.ensureSchema /\ 1 \in blind' => Transport.private /\ ClientsMade' > 1
  <2>1. setup.ensureSchema /\ 1 \in blind => Transport.private /\ ClientsMade > 1
    BY DEF BackendsInv, TableFirst
  <2>2. ClientsMade' >= ClientsMade /\ ClientsMade' \in Int /\ ClientsMade \in Int
    <3> DEFINE own == IF setup.injected THEN Injected ELSE NoClient
    <3>1. ClientsMade' = made' - own /\ ClientsMade = made - own /\ own \in Int
      BY DEF ClientsMade, NoClient, Injected
    <3> HIDE DEF own
    <3>2. made' \in Int /\ made \in Int /\ made' >= made
      BY <1>1, <1>7
    <3>3. QED
      BY <3>1, <3>2
  <2>3. QED
    BY <2>1, <2>2
<1>13. /\ b.through <= made'
       /\ b.stage \in {"importing", "opening"} => ~setup.injected
       /\ b.stage \in {"opening", "acquired", "creating", "created"} => b.through # NoClient
       /\ b.stage \in {"acquired", "creating", "created"} => client' # NoClient
  BY <1>2, <1>5
<1>14. QED
  BY <1>1, <1>2, <1>3, <1>4, <1>7, <1>8, <1>9, <1>10, <1>11, <1>12, <1>13, Turned

-----------------------------------------------------------------------------
(* Steps *)

LEMMA SendBatchStep == BackendsInv /\ SendBatch => BackendsInv'
<1> SUFFICES ASSUME BackendsInv, SendBatch PROVE BackendsInv'
  OBVIOUS
<1> DEFINE n == Len(batches) + 1
<1>1. /\ batches \in Seq(Batch) /\ clock \in Nat /\ setup \in Setups /\ made \in Nat
      /\ tables \subseteq 0..made /\ creates \in Nat /\ Len(batches) \in Nat /\ early \in Nat
      /\ client \in 0..made /\ clock \in 0..MaxTicks /\ lastPause \in Nat
      /\ schemaEnsured \in BOOLEAN /\ pausedUntil \in Nat \cup {NotPaused}
      /\ Indices = 1..Len(batches)
  BY LenProperties, BackendsAssumption, BatchesType DEF BackendsInv, Shapes, BackendsAssumption
<1>2. /\ n \in DOMAIN setup.batches /\ n \notin Imports /\ n \notin Indices
      /\ n \in 1..(Len(batches) + 1)
  BY <1>1, SetupFacts DEF SendBatch, Imports
<1>3. /\ setup' = setup /\ client' = client /\ made' = made /\ early' = early /\ clock' = clock
      /\ lastPause' = lastPause /\ Transport' = Transport
  BY DEF SendBatch, Transport
<1>4. CASE Paused
  <2> DEFINE b == At("skipped", "rows", client)
  <2>1. /\ Put(n, b) /\ tables' = tables /\ creates' = creates /\ blind' = blind
        /\ pausedUntil' = pausedUntil /\ schemaEnsured' = schemaEnsured
    BY <1>4 DEF SendBatch, Skip
  <2>2. /\ b \in Batch /\ BatchKept(setup, n, b) /\ b.stage = "skipped" /\ b.purpose = "rows"
        /\ b.through = client
    <3>1. client \in Nat
      BY <1>1
    <3>2. QED
      BY <1>1, <3>1, AtFacts
  <2>3. ~setup.ensureSchema
    BY <1>1, <1>4, SetupFacts DEF Paused
  <2> HIDE DEF b
  <2>4. After(n, b) /\ Len(batches') = Len(batches) + 1
    BY <1>1, <1>2, <2>1, <2>2, Placed DEF After
  <2>5. ClientsMade' + Cardinality(Imports') <= (IF early' = 0 THEN Len(batches') ELSE early')
    <3>1. Imports' = Imports /\ ClientsMade' = ClientsMade
      <4>1. Imports' = Imports \ {n}
        BY <1>1, <2>2, <2>4, ImportsAfter
      <4>2. QED
        BY <1>2, <1>3, <4>1 DEF ClientsMade
    <3> DEFINE k == ClientsMade + Cardinality(Imports)
    <3>2. k \in Int /\ k <= (IF early = 0 THEN Len(batches) ELSE early)
      BY <1>1, ImportsFinite DEF BackendsInv, Clients, ClientsMade, NoClient, Injected
    <3>3. ClientsMade' + Cardinality(Imports') = k
      BY <3>1
    <3> HIDE DEF k
    <3>4. QED
      BY <1>1, <1>3, <2>4, <3>2, <3>3
  <2>6. /\ b.through <= made' /\ early' \in Nat /\ (early' > 0 => client' # NoClient)
        /\ made' \in Nat /\ made' >= made /\ client' \in 0..made' /\ creates' \in Nat
        /\ creates' <= 1 /\ creates' = creates
        /\ tables \subseteq tables' /\ tables' \subseteq 0..made'
        /\ clock' \in 0..MaxTicks /\ lastPause' \in Nat
    BY <1>1, <1>3, <2>1, <2>2 DEF BackendsInv, TableFirst, Clients
  <2>7. Shapes' /\ Clients' /\ TableFirst'
    BY <1>1, <1>2, <1>3, <2>1, <2>2, <2>3, <2>4, <2>5, <2>6, Turned
  <2>8. PauseKnown'
    BY <1>3, <2>1 DEF BackendsInv, PauseKnown
  <2>9. QED
    BY <2>7, <2>8 DEF BackendsInv
<1>5. CASE ~Paused
  <2>1. EnsureFirst(n) /\ pausedUntil' = NotPaused
    BY <1>5 DEF SendBatch
  <2>2. setup.ensureSchema => (schemaEnsured <=> Indices # {})
    BY DEF BackendsInv, TableFirst
  <2>3. Shapes' /\ Clients' /\ TableFirst'
    <3>1. CASE setup.ensureSchema /\ ~schemaEnsured
      <4>1. n = 1 /\ creates = 0
        BY <1>1, <2>2, <3>1 DEF BackendsInv, TableFirst
      <4>2. schemaEnsured' = TRUE /\ Acquire(n, "table")
        BY <2>1, <3>1 DEF EnsureFirst
      <4> HIDE DEF n
      <4>3. QED
        BY <1>1, <1>2, <1>3, <2>1, <3>1, <4>1, <4>2, AcquireTurn DEF n
    <3>2. CASE ~(setup.ensureSchema /\ ~schemaEnsured)
      <4>1. schemaEnsured' = schemaEnsured /\ Acquire(n, "rows")
        BY <2>1, <3>2 DEF EnsureFirst
      <4>2. /\ setup.ensureSchema => schemaEnsured' = TRUE /\ n # 1
            /\ schemaEnsured' \in BOOLEAN /\ pausedUntil' \in Nat \cup {NotPaused}
            /\ n <= Len(batches) + 1 /\ (client = NoClient => n = Len(batches) + 1)
        BY <1>1, <2>1, <2>2, <3>2, <4>1
      <4> HIDE DEF n
      <4>3. QED
        BY <1>2, <1>3, <4>1, <4>2, AcquireTurn
    <3>3. QED
      BY <3>1, <3>2
  <2>4. PauseKnown'
    BY <1>1, <1>3, <1>5, <2>1 DEF BackendsInv, PauseKnown, Paused
  <2>5. QED
    BY <2>3, <2>4 DEF BackendsInv
<1>6. QED
  BY <1>4, <1>5

\* Where nothing is said about the pause.
LEMMA PauseStays ==
    ASSUME PauseKnown, setup' = setup, pausedUntil' = pausedUntil, lastPause' = lastPause,
           clock' = clock
    PROVE  PauseKnown'
  BY DEF PauseKnown, Transport

LEMMA AcquiredStep ==
    ASSUME BackendsInv, NEW n \in DOMAIN setup.batches, Acquired(n)
    PROVE  BackendsInv'
<1>1. /\ n \in Indices /\ batches[n].stage = "acquired" /\ Use(n, batches[n].through, batches[n].purpose)
      /\ setup' = setup /\ client' = client /\ schemaEnsured' = schemaEnsured
      /\ pausedUntil' = pausedUntil /\ clock' = clock /\ made' = made /\ early' = early
      /\ lastPause' = lastPause
  BY DEF Acquired, InStage
<1>2. /\ batches \in Seq(Batch) /\ made \in Nat /\ Len(batches) \in Nat /\ Indices = 1..Len(batches)
      /\ schemaEnsured \in BOOLEAN /\ pausedUntil \in Nat \cup {NotPaused}
      /\ batches[n] \in Batch /\ batches[n].through <= made
  BY <1>1, BatchesType DEF BackendsInv, Shapes
<1>3. batches[n].through # NoClient /\ client # NoClient
  BY <1>1 DEF BackendsInv, Clients
<1>4. batches[n].through \in 1..made /\ batches[n].purpose \in {"table", "rows"}
  BY <1>2, <1>3, BatchFields DEF NoClient
<1>5. /\ batches[n].purpose = "table" => n = 1 /\ setup.ensureSchema /\ creates = 0
      /\ ~(setup.ensureSchema /\ n = 1 /\ batches[n].purpose = "rows")
      /\ setup.ensureSchema => schemaEnsured' = TRUE
      /\ n \notin Imports
  BY <1>1, <1>2 DEF BackendsInv, TableFirst, Imports
<1>6. Shapes' /\ Clients' /\ TableFirst'
  <2> DEFINE c == batches[n].through
             purpose == batches[n].purpose
  <2>1. /\ c \in 1..made /\ purpose \in {"table", "rows"} /\ Use(n, c, purpose)
        /\ purpose = "table" => n = 1 /\ setup.ensureSchema /\ creates = 0
        /\ ~(setup.ensureSchema /\ n = 1 /\ purpose = "rows")
    BY <1>1, <1>4, <1>5
  <2> HIDE DEF c, purpose
  <2>2. n <= Len(batches) + 1
    BY <1>1, <1>2
  <2>3. QED
    BY <1>1, <1>2, <1>3, <1>5, <2>1, <2>2, UseTurn
<1>7. QED
  BY <1>1, <1>6, PauseStays DEF BackendsInv

LEMMA TableThereStep ==
    ASSUME BackendsInv, NEW n \in DOMAIN setup.batches, TableThere(n)
    PROVE  BackendsInv'
<1>1. /\ n \in Indices /\ batches[n].stage = "created" /\ Acquire(n, "rows")
      /\ setup' = setup /\ client' = client /\ schemaEnsured' = schemaEnsured
      /\ pausedUntil' = pausedUntil /\ clock' = clock /\ made' = made /\ early' = early
      /\ lastPause' = lastPause
  BY DEF TableThere, InStage
<1>2. /\ batches \in Seq(Batch) /\ made \in Nat /\ Len(batches) \in Nat /\ Indices = 1..Len(batches)
      /\ schemaEnsured \in BOOLEAN /\ pausedUntil \in Nat \cup {NotPaused}
      /\ batches[n] \in Batch /\ batches[n].through <= made /\ client \in 0..made
      /\ BatchKept(setup, n, batches[n]) /\ setup \in Setups
  BY <1>1, BatchesType DEF BackendsInv, Shapes
<1>3. /\ batches[n].through # NoClient /\ client # NoClient
      /\ setup.injected => made = 1
  BY <1>1 DEF BackendsInv, Clients
<1>4. batches[n].purpose = "table" /\ batches[n].through \in Nat
  BY <1>1, <1>2, BatchFields DEF BatchKept
<1>5. /\ n = 1 /\ setup.ensureSchema /\ Database(batches[n].through) \in tables
      /\ schemaEnsured' = TRUE /\ n \notin Imports
  BY <1>1, <1>2, <1>4 DEF BackendsInv, TableFirst, Imports
<1>6. Tableless(client) => Transport.private /\ ClientsMade > 1
  <2> SUFFICES ASSUME Database(client) \notin tables PROVE Transport.private /\ ClientsMade > 1
    BY DEF Tableless
  <2>1. Transport.private /\ client # batches[n].through
    BY <1>5 DEF Database
  <2>2. made > 1 /\ ~setup.injected
    BY <1>2, <1>3, <1>4, <2>1 DEF NoClient
  <2>3. QED
    BY <1>2, <2>1, <2>2 DEF ClientsMade, NoClient
<1>7. Shapes' /\ Clients' /\ TableFirst'
  <2>1. n <= Len(batches) + 1 /\ tables # {}
    BY <1>1, <1>2, <1>5
  <2>2. QED
    BY <1>1, <1>2, <1>3, <1>5, <1>6, <2>1, AcquireTurn
<1>8. QED
  BY <1>1, <1>7, PauseStays DEF BackendsInv

LEMMA StageOnly ==
    ASSUME NEW b \in Batch, NEW stage
    PROVE  [b EXCEPT !.stage = stage] = [b EXCEPT !.stage = stage, !.through = b.through]
  BY DEF Batch

LEMMA RejectTurn ==
    ASSUME BackendsInv, NEW n \in Indices, Reject(n),
           batches[n].stage \in {"importing", "opening", "creating"},
           setup' = setup, clock' = clock, lastPause' = lastPause, schemaEnsured' = schemaEnsured,
           pausedUntil' = pausedUntil, tables' = tables, creates' = creates, blind' = blind
    PROVE  BackendsInv'
<1>1. /\ batches[n] \in Batch /\ batches[n].through \in Nat /\ batches[n].through <= made
      /\ made' = made /\ client' = client /\ early' = early
  BY BatchesType, BatchFields DEF BackendsInv, Shapes, Reject
<1> DEFINE old == batches[n]
<1>2. batches' = [batches EXCEPT ![n] = [old EXCEPT !.stage = "rejected", !.through = old.through]]
  <2>1. batches' = [batches EXCEPT ![n] = [old EXCEPT !.stage = "rejected"]]
    BY DEF Reject
  <2> HIDE DEF old
  <2>2. QED
    BY <1>1, <2>1, StageOnly DEF old
<1>3. Shapes' /\ Clients' /\ TableFirst'
  <2> DEFINE through == batches[n].through
  <2>1. /\ through \in Nat /\ through <= made'
        /\ batches' = [batches EXCEPT ![n] = [batches[n] EXCEPT !.stage = "rejected",
                                                                !.through = through]]
    BY <1>1, <1>2
  <2> HIDE DEF through
  <2>2. QED
    BY <1>1, <2>1, StageTurn
<1>4. QED
  BY <1>3, PauseStays DEF BackendsInv

LEMMA ImportedStep ==
    ASSUME BackendsInv, NEW n \in DOMAIN setup.batches, Imported(n)
    PROVE  BackendsInv'
<1>1. /\ n \in Indices /\ batches[n].stage = "importing"
      /\ setup' = setup /\ schemaEnsured' = schemaEnsured /\ pausedUntil' = pausedUntil
      /\ clock' = clock /\ lastPause' = lastPause
      /\ tables' = tables /\ creates' = creates /\ blind' = blind
  BY DEF Imported, InStage
<1>2. made \in Nat /\ early \in Nat
  BY DEF BackendsInv, Shapes
<1>3. CASE Reject(n)
  BY <1>1, <1>3, RejectTurn
<1>4. CASE ~Reject(n)
  <2>1. PICK stage \in {"opening", "acquired"} :
           /\ batches' = [batches EXCEPT ![n].stage = stage, ![n].through = made']
           /\ made' = made + 1
           /\ stage = "opening" => client' = client /\ early' = early
           /\ stage = "acquired" => /\ client' = made'
                                    /\ early' = IF early = 0 THEN Len(batches) ELSE early
    BY <1>4 DEF Imported, Keep, FirstKept
  <2>2. batches' = [batches EXCEPT ![n] = [batches[n] EXCEPT !.stage = stage, !.through = made']]
    BY <2>1
  <2> DEFINE through == made'
  <2>3. /\ through \in Nat /\ through <= made' /\ through # NoClient
        /\ batches' = [batches EXCEPT ![n] = [batches[n] EXCEPT !.stage = stage, !.through = through]]
        /\ stage = "acquired" => client' # NoClient
        /\ client' = client \/ (client' = through /\ through # NoClient)
        /\ early' = early \/ (early' = Len(batches) /\ early = 0 /\ client' # NoClient)
        /\ made' = made + 1
    <3>1. made' = made + 1 /\ made' \in Nat /\ made' > 0
      BY <1>2, <2>1
    <3>2. /\ stage = "opening" => client' = client /\ early' = early
          /\ stage = "acquired" => /\ client' = made'
                                   /\ early' = IF early = 0 THEN Len(batches) ELSE early
      BY <2>1
    <3>3. /\ client' = client \/ client' = made'
          /\ stage = "acquired" => client' = made'
          /\ early' = early \/ (early' = Len(batches) /\ early = 0 /\ client' = made')
      BY <3>2
    <3>4. QED
      BY <2>2, <3>1, <3>3 DEF NoClient
  <2> HIDE DEF through
  <2>4. Shapes' /\ Clients' /\ TableFirst'
    BY <1>1, <2>3, StageTurn
  <2>5. QED
    BY <1>1, <2>4, PauseStays DEF BackendsInv
<1>5. QED
  BY <1>3, <1>4

LEMMA OpenedStep ==
    ASSUME BackendsInv, NEW n \in DOMAIN setup.batches, Opened(n)
    PROVE  BackendsInv'
<1>1. /\ n \in Indices /\ batches[n].stage = "opening"
      /\ setup' = setup /\ schemaEnsured' = schemaEnsured /\ pausedUntil' = pausedUntil
      /\ clock' = clock /\ lastPause' = lastPause
      /\ tables' = tables /\ creates' = creates /\ blind' = blind
  BY DEF Opened, InStage
<1>2. CASE Reject(n)
  BY <1>1, <1>2, RejectTurn
<1>3. CASE ~Reject(n)
  <2> DEFINE through == batches[n].through
  <2>1. /\ batches' = [batches EXCEPT ![n].stage = "acquired", ![n].through = through]
        /\ made' = made /\ client' = through
        /\ early' = IF early = 0 THEN Len(batches) ELSE early
    BY <1>3 DEF Opened, Keep, FirstKept
  <2>2. /\ through \in Nat /\ through <= made' /\ through # NoClient
    BY <1>1, <2>1, BatchesType, BatchFields DEF BackendsInv, Shapes, Clients
  <2> HIDE DEF through
  <2>3. batches' = [batches EXCEPT ![n] = [batches[n] EXCEPT !.stage = "acquired", !.through = through]]
    BY <2>1
  <2>4. /\ client' # NoClient /\ early \in Nat
        /\ early' = early \/ (early' = Len(batches) /\ early = 0 /\ client' # NoClient)
    BY <2>1, <2>2 DEF BackendsInv, Shapes
  <2>5. Shapes' /\ Clients' /\ TableFirst'
    BY <1>1, <2>1, <2>2, <2>3, <2>4, StageTurn
  <2>6. QED
    BY <1>1, <2>5, PauseStays DEF BackendsInv
<1>4. QED
  BY <1>2, <1>3

\* A batch that waits for an answer comes by it, and the clients stay as they are.
LEMMA AnswerTurn ==
    ASSUME BackendsInv, NEW n \in Indices, NEW b \in Batch, After(n, b), BatchKept(setup, n, b),
           b.through = batches[n].through, b.purpose = batches[n].purpose,
           batches[n].stage \in {"creating", "sending", "resolved", "rejected"},
           b.stage \in {"created", "sending", "resolved", "rejected"},
           b.stage = "created" => batches[n].stage = "creating" /\ Database(b.through) \in tables',
           setup' = setup, made' = made, client' = client, early' = early,
           clock' = clock, lastPause' \in Nat, schemaEnsured' = schemaEnsured,
           pausedUntil' \in Nat \cup {NotPaused}, creates' = creates, blind' = blind,
           tables \subseteq tables', tables' \subseteq 0..made
    PROVE  Shapes' /\ Clients' /\ TableFirst'
<1>1. /\ batches \in Seq(Batch) /\ setup \in Setups /\ made \in Nat
      /\ creates \in Nat /\ Len(batches) \in Nat /\ early \in Nat
      /\ client \in 0..made /\ clock \in 0..MaxTicks /\ schemaEnsured \in BOOLEAN
      /\ n \in DOMAIN setup.batches /\ n \in 1..Len(batches) /\ batches[n] \in Batch
      /\ batches[n].through <= made
      /\ BatchKept(setup, n, batches[n])
  BY LenProperties, BatchesType DEF BackendsInv, Shapes
<1>2. ClientsMade' + Cardinality(Imports') <= (IF early' = 0 THEN Len(batches') ELSE early')
  <2>1. n \notin Imports /\ Imports' = Imports \ {n}
    BY <1>1, ImportsAfter DEF Imports
  <2>2. Imports' = Imports /\ ClientsMade' = ClientsMade
    BY <2>1 DEF ClientsMade
  <2>3. Len(batches') = Len(batches)
    BY <1>1 DEF After
  <2>4. QED
    BY <2>2, <2>3 DEF BackendsInv, Clients
<1>3. /\ setup.ensureSchema => schemaEnsured' = TRUE
      /\ creates' \in Nat /\ creates' <= 1
  BY <1>1 DEF BackendsInv, TableFirst
<1>4. /\ b.purpose = "table" =>
              /\ n = 1 /\ setup.ensureSchema
              /\ b.stage \in {"importing", "opening", "acquired"} => creates' = 0
              /\ b.stage = "created" => Database(b.through) \in tables'
      /\ b.purpose = "rows" /\ n = 1 /\ setup.ensureSchema =>
              tables' # {} /\ b.stage \in {"sending", "resolved", "rejected"}
  <2>1. b.stage = "created" => b.purpose = "table"
    BY DEF BatchKept
  <2>2. QED
    BY <1>1, <2>1 DEF BackendsInv, TableFirst
<1>5. setup.ensureSchema /\ 1 \in blind' => Transport.private /\ ClientsMade' > 1
  BY DEF BackendsInv, TableFirst, ClientsMade
<1>6. /\ b.stage \in {"opening", "acquired", "creating", "created"} => b.through # NoClient
      /\ b.stage \in {"acquired", "creating", "created"} => client' # NoClient
      /\ early' > 0 => client' # NoClient
  BY DEF BackendsInv, Clients
<1>7. /\ b.through <= made' /\ made' \in Nat /\ made' >= made /\ client' \in 0..made'
      /\ early' \in Nat /\ clock' \in 0..MaxTicks /\ schemaEnsured' \in BOOLEAN
      /\ tables' \subseteq 0..made' /\ b.stage \notin {"importing", "opening"}
  BY <1>1
<1>8. QED
  BY <1>1, <1>2, <1>3, <1>4, <1>5, <1>6, <1>7, Turned

LEMMA TableAnsweredStep ==
    ASSUME BackendsInv, NEW n \in DOMAIN setup.batches, TableAnswered(n)
    PROVE  BackendsInv'
<1>1. /\ n \in Indices /\ batches[n].stage = "creating"
      /\ setup' = setup /\ schemaEnsured' = schemaEnsured /\ pausedUntil' = pausedUntil
      /\ clock' = clock /\ lastPause' = lastPause /\ creates' = creates /\ blind' = blind
  BY DEF TableAnswered, InStage
<1>2. CASE Reject(n) /\ UNCHANGED tables
  BY <1>1, <1>2, RejectTurn
<1>3. CASE ~(Reject(n) /\ UNCHANGED tables)
  <2> DEFINE old == batches[n]
             b == [old EXCEPT !.stage = "created"]
  <2>1. /\ batches' = [batches EXCEPT ![n] = b] /\ tables' = tables \cup {Database(old.through)}
        /\ client' = client /\ made' = made /\ early' = early
    BY <1>3 DEF TableAnswered
  <2>2. /\ batches \in Seq(Batch) /\ old \in Batch /\ BatchKept(setup, n, old) /\ made \in Nat
        /\ old.through <= made /\ tables \subseteq 0..made /\ old.stage = "creating"
        /\ old.through \in Nat /\ pausedUntil \in Nat \cup {NotPaused} /\ lastPause \in Nat
    BY <1>1, BatchesType, BatchFields DEF BackendsInv, Shapes
  <2> HIDE DEF old
  <2>3. /\ b \in Batch /\ b.stage = "created" /\ b.through = old.through
        /\ b.purpose = old.purpose /\ b.requests = old.requests
    BY <2>2 DEF Batch, Stages
  <2> HIDE DEF b
  <2>4. After(n, b)
    BY <1>1, <2>1, <2>2, <2>3, Replaced
  <2>5. BatchKept(setup, n, b)
    BY <2>2, <2>3 DEF BatchKept
  <2>6. tables' \subseteq 0..made /\ tables \subseteq tables' /\ Database(b.through) \in tables'
    <3>1. Database(b.through) \in {0, b.through} /\ Database(old.through) = Database(b.through)
      BY <2>3 DEF Database, NoClient
    <3>2. b.through \in 0..made /\ 0 \in 0..made
      BY <2>2, <2>3
    <3> HIDE DEF Indices
    <3>3. QED
      BY <2>1, <2>2, <3>1, <3>2
  <2>7. Shapes' /\ Clients' /\ TableFirst'
    <3>1. b.through = batches[n].through /\ b.purpose = batches[n].purpose
      BY <2>3 DEF old
    <3>2. QED
      BY <1>1, <2>1, <2>2, <2>3, <2>4, <2>5, <2>6, <3>1, AnswerTurn
  <2>8. QED
    BY <1>1, <2>7, PauseStays DEF BackendsInv
<1>4. QED
  BY <1>2, <1>3

\* One request of a batch is answered.
LEMMA AnsweredFacts ==
    ASSUME BackendsInv, NEW n \in Indices, NEW k \in DOMAIN batches[n].requests,
           batches[n].requests[k].status = "pending",
           NEW status \in {"ok", "failed", "limited"}, Answered(n, k, status)
    PROVE  \E b \in Batch :
              /\ After(n, b) /\ BatchKept(setup, n, b)
              /\ b.through = batches[n].through /\ b.purpose = batches[n].purpose
              /\ batches[n].stage \in {"sending", "rejected"}
              /\ b.stage \in {"sending", "resolved", "rejected"}
<1> DEFINE old == batches[n]
           requests == [old.requests EXCEPT ![k].status = status]
           stage == Combined(n, requests)
           b == [old EXCEPT !.requests = requests, !.stage = stage]
<1>1. /\ batches \in Seq(Batch) /\ old \in Batch /\ BatchKept(setup, n, old)
  BY BatchesType DEF BackendsInv, Shapes
<1>2. batches' = [batches EXCEPT ![n] = b]
  BY DEF Answered
<1>3. PICK D \in SUBSET Nat : old.requests \in [D -> Request]
  BY <1>1, BatchFields
<1>4. k \in D /\ DOMAIN old.requests = D /\ old.requests # <<>> /\ old.requests[k].status = "pending"
  <2>1. k \in D /\ DOMAIN old.requests = D
    BY <1>3
  <2>2. DOMAIN <<>> = {}
    OBVIOUS
  <2>3. QED
    BY <2>1, <2>2
<1>5. /\ old.stage \in {"sending", "rejected"} /\ old.purpose = "rows"
  <2>1. old.stage # "resolved"
    BY <1>1, <1>4 DEF BatchKept
  <2>2. QED
    BY <1>1, <1>4, <2>1 DEF BatchKept
<1> HIDE DEF old
<1>6. /\ requests \in [D -> Request]
      /\ \A j \in D : /\ requests[j].first = old.requests[j].first
                      /\ requests[j].last = old.requests[j].last
                      /\ requests[j].status \in Statuses
                      /\ requests[j].status = (IF j = k THEN status ELSE old.requests[j].status)
  <2>1. \A r \in Request :
          /\ [r EXCEPT !.status = status] \in Request
          /\ [r EXCEPT !.status = status].first = r.first
          /\ [r EXCEPT !.status = status].last = r.last
          /\ [r EXCEPT !.status = status].status = status
          /\ r.status \in Statuses
    BY DEF Request, Statuses
  <2> DEFINE r == [old.requests[k] EXCEPT !.status = status]
  <2>2. /\ requests = [old.requests EXCEPT ![k] = r] /\ r \in Request /\ old.requests[k] \in Request
        /\ r.first = old.requests[k].first /\ r.last = old.requests[k].last /\ r.status = status
    BY <1>3, <1>4, <2>1
  <2> HIDE DEF r
  <2>3. /\ requests \in [D -> Request] /\ requests[k] = r
        /\ \A j \in D : j # k => requests[j] = old.requests[j]
    BY <1>3, <1>4, <2>2
  <2> HIDE DEF requests
  <2>4. QED
    BY <1>3, <2>1, <2>2, <2>3
<1> HIDE DEF requests
<1>7. /\ stage \in {"sending", "resolved", "rejected"}
      /\ stage = "resolved" =>
            \A j \in D : requests[j].status \in {"ok", "handed", "limited"}
      /\ stage \in {"sending", "resolved"} => old.stage = "sending"
  <2>1. DOMAIN requests = D /\ batches[n].stage = old.stage
    BY <1>6 DEF old
  <2>2. QED
    BY <1>5, <1>6, <2>1 DEF Combined, Statuses
<1> HIDE DEF stage
<1>8. /\ b \in Batch /\ b.requests = requests /\ b.stage = stage /\ b.through = old.through
      /\ b.purpose = old.purpose
  BY <1>1, <1>6, <1>7 DEF Batch, Stages
<1> HIDE DEF b
<1>9. After(n, b)
  BY <1>1, <1>2, <1>8, Replaced
<1>10. BatchKept(setup, n, b)
  <2>1. DOMAIN requests = D
    BY <1>6
  <2>2. QED
    BY <1>1, <1>4, <1>5, <1>6, <1>7, <1>8, <2>1 DEF BatchKept
<1>11. QED
  BY <1>5, <1>7, <1>8, <1>9, <1>10 DEF old

LEMMA RequestAnsweredStep ==
    ASSUME BackendsInv, NEW n \in DOMAIN setup.batches, RequestAnswered(n)
    PROVE  BackendsInv'
<1>1. /\ n \in Indices /\ setup' = setup /\ client' = client /\ schemaEnsured' = schemaEnsured
      /\ clock' = clock /\ made' = made /\ early' = early /\ tables' = tables
      /\ creates' = creates /\ blind' = blind
  BY DEF RequestAnswered
<1>2. PICK k \in DOMAIN batches[n].requests, status \in {"ok", "failed", "limited"} :
         /\ batches[n].requests[k].status = "pending" /\ Answered(n, k, status)
         /\ \/ pausedUntil' = pausedUntil /\ lastPause' = lastPause
            \/ \E resume \in Resumes(batches[n].sentAt) : pausedUntil' = resume /\ lastPause' = resume
  BY DEF RequestAnswered, NotLimited
<1>3. /\ batches[n].sentAt \in Nat /\ pausedUntil \in Nat \cup {NotPaused} /\ lastPause \in Nat
      /\ tables \subseteq 0..made
  BY <1>1, BatchesType, BatchFields DEF BackendsInv, Shapes
<1>4. Resumes(batches[n].sentAt) \subseteq Nat
  BY <1>3, BackendsAssumption DEF Resumes, BackendsAssumption
<1>5. PICK b \in Batch :
              /\ After(n, b) /\ BatchKept(setup, n, b)
              /\ b.through = batches[n].through /\ b.purpose = batches[n].purpose
              /\ batches[n].stage \in {"sending", "rejected"}
              /\ b.stage \in {"sending", "resolved", "rejected"}
  BY <1>1, <1>2, AnsweredFacts
<1>6. lastPause' \in Nat /\ pausedUntil' \in Nat \cup {NotPaused}
  BY <1>2, <1>3, <1>4
<1>7. Shapes' /\ Clients' /\ TableFirst'
  BY <1>1, <1>3, <1>5, <1>6, AnswerTurn
<1>8. PauseKnown'
  BY <1>1, <1>2, <1>4 DEF BackendsInv, PauseKnown, Transport, NotPaused
<1>9. QED
  BY <1>7, <1>8 DEF BackendsInv

LEMMA TickStep ==
    ASSUME BackendsInv, Tick
    PROVE  BackendsInv'
<1>1. /\ setup' = setup /\ client' = client /\ schemaEnsured' = schemaEnsured
      /\ pausedUntil' = pausedUntil /\ batches' = batches /\ made' = made /\ early' = early
      /\ tables' = tables /\ creates' = creates /\ blind' = blind /\ lastPause' = lastPause
      /\ clock' = clock + 1 /\ clock < MaxTicks /\ Transport' = Transport
      /\ Indices' = Indices /\ Imports' = Imports /\ ClientsMade' = ClientsMade
      /\ \A c : Database(c)' = Database(c)
  BY DEF Tick, historyVars, Transport, Indices, Imports, ClientsMade, Database
<1>2. clock \in 0..MaxTicks /\ MaxTicks \in Nat /\ clock' \in 0..MaxTicks /\ lastPause \in Nat
  <2>1. MaxTicks \in Nat
    BY BackendsAssumption DEF BackendsAssumption
  <2>2. QED
    BY <1>1, <2>1 DEF BackendsInv, Shapes
<1>3. Shapes'
  BY <1>1, <1>2 DEF BackendsInv, Shapes
<1>4. Clients'
  BY <1>1 DEF BackendsInv, Clients
<1>5. TableFirst'
  BY <1>1 DEF BackendsInv, TableFirst
<1>6. PauseKnown'
  BY <1>1, <1>2 DEF BackendsInv, PauseKnown
<1>7. QED
  BY <1>3, <1>4, <1>5, <1>6 DEF BackendsInv

LEMMA BackendsStutter ==
    ASSUME BackendsInv, UNCHANGED vars
    PROVE  BackendsInv'
<1>1. /\ setup' = setup /\ client' = client /\ schemaEnsured' = schemaEnsured
      /\ pausedUntil' = pausedUntil /\ batches' = batches /\ made' = made /\ early' = early
      /\ tables' = tables /\ creates' = creates /\ blind' = blind /\ lastPause' = lastPause
      /\ clock' = clock /\ Transport' = Transport
      /\ Indices' = Indices /\ Imports' = Imports /\ ClientsMade' = ClientsMade
      /\ \A c : Database(c)' = Database(c)
  BY DEF vars, sendVars, historyVars, Transport, Indices, Imports, ClientsMade, Database
<1>2. Shapes'
  BY <1>1 DEF BackendsInv, Shapes
<1>3. Clients'
  BY <1>1 DEF BackendsInv, Clients
<1>4. TableFirst'
  BY <1>1 DEF BackendsInv, TableFirst
<1>5. PauseKnown'
  BY <1>1 DEF BackendsInv, PauseKnown
<1>6. QED
  BY <1>2, <1>3, <1>4, <1>5 DEF BackendsInv

LEMMA BackendsStep == BackendsInv /\ [Next]_vars => BackendsInv'
<1> SUFFICES ASSUME BackendsInv, [Next]_vars PROVE BackendsInv'
  OBVIOUS
<1>1. CASE Next
  BY <1>1, SendBatchStep, TickStep, ImportedStep, OpenedStep, AcquiredStep, TableAnsweredStep,
     TableThereStep, RequestAnsweredStep DEF Next
<1>2. CASE UNCHANGED vars
  BY <1>2, BackendsStutter
<1>3. QED
  BY <1>1, <1>2

LEMMA BackendsInit == Init => BackendsInv
<1> SUFFICES ASSUME Init PROVE BackendsInv
  OBVIOUS
<1> USE DEF NoClient, Injected, NotPaused
<1>1. /\ batches = <<>> /\ batches \in Seq(Batch) /\ Indices = {} /\ Len(batches) = 0
  BY EmptySeq DEF Init, Indices
<1>2. /\ setup \in Setups /\ setup.injected \in BOOLEAN /\ MaxTicks \in Nat
      /\ client = (IF setup.injected THEN 1 ELSE 0) /\ made = client /\ early = 0
      /\ creates = 0 /\ blind = {} /\ lastPause = 0 /\ clock = 0 /\ schemaEnsured = FALSE
      /\ pausedUntil = -1
  BY SetupFacts, BackendsAssumption DEF Init, BackendsAssumption
<1>3. tables \subseteq 0..made
  BY <1>2 DEF Init, Database
<1>4. Imports = {} /\ Cardinality(Imports) = 0 /\ ClientsMade = 0
  BY <1>1, <1>2, FS_EmptySet DEF Imports, ClientsMade
<1>5. Shapes
  <2>1. made \in Nat /\ client \in 0..made /\ clock \in 0..MaxTicks /\ early \in Nat
        /\ creates \in Nat /\ lastPause \in Nat
    BY <1>2
  <2>2. schemaEnsured \in BOOLEAN /\ pausedUntil \in Nat \cup {NotPaused}
    BY <1>2
  <2>3. QED
    BY <1>1, <1>2, <1>3, <2>1, <2>2 DEF Shapes
<1>6. Clients
  BY <1>1, <1>2, <1>4 DEF Clients
<1>7. TableFirst
  BY <1>1, <1>2 DEF TableFirst
<1>8. PauseKnown
  BY <1>2 DEF PauseKnown
<1>9. QED
  BY <1>5, <1>6, <1>7, <1>8 DEF BackendsInv

-----------------------------------------------------------------------------
(* What the invariant means *)

LEMMA DivFacts ==
    ASSUME NEW a \in Nat, NEW b \in Nat \ {0}
    PROVE  a \div b \in Nat /\ (a \div b) * b <= a /\ a < (a \div b + 1) * b
  BY SMT

LEMMA TimesMonotone ==
    ASSUME NEW a \in Int, NEW b \in Int, NEW c \in Nat, a <= b
    PROVE  a * c <= b * c
  BY SMT

\* Every record of a batch is in exactly one of its chunks, and none is over the limit.
LEMMA ChunksCover ==
    ASSUME NEW size \in Nat \ {0}, NEW limit \in Nat \ {0}, NEW i \in 1..size
    PROVE  LET chunks == Chunks(size, limit)
           IN  \E k \in DOMAIN chunks :
                  /\ chunks[k].last - chunks[k].first < limit
                  /\ \A j \in DOMAIN chunks : Covers(chunks[j], i) <=> j = k
<1> DEFINE chunks == Chunks(size, limit)
           count == (size + limit - 1) \div limit
           k == (i - 1) \div limit + 1
<1>1. /\ count \in Nat /\ DOMAIN chunks = 1..count
      /\ \A j \in 1..count : /\ chunks[j].first = (j - 1) * limit + 1
                             /\ chunks[j].last = (IF j * limit <= size THEN j * limit ELSE size)
  BY ChunkFacts
<1>2. size + limit - 1 < (count + 1) * limit
  <2>1. size + limit - 1 \in Nat
    OBVIOUS
  <2> DEFINE a == size + limit - 1
  <2> HIDE DEF a
  <2>2. a < (a \div limit + 1) * limit
    BY <2>1, DivFacts DEF a
  <2>3. QED
    BY <2>2 DEF a
<1>3. /\ k \in Nat /\ k >= 1 /\ (k - 1) * limit <= i - 1 /\ i - 1 < k * limit
  <2> DEFINE a == i - 1
  <2>1. a \in Nat
    OBVIOUS
  <2> HIDE DEF a
  <2>2. a \div limit \in Nat /\ (a \div limit) * limit <= a /\ a < (a \div limit + 1) * limit
    BY <2>1, DivFacts
  <2>3. k = a \div limit + 1
    BY DEF a
  <2> HIDE DEF k
  <2>4. k \in Nat /\ k >= 1 /\ k - 1 = a \div limit
    BY <2>2, <2>3
  <2>5. (k - 1) * limit <= a /\ a < k * limit
    BY <2>2, <2>3, <2>4
  <2>6. QED
    BY <2>4, <2>5 DEF a
<1> HIDE DEF chunks, count, k
<1>4. \A j \in Nat : j * limit \in Int /\ (j - 1) * limit \in Int /\ j * limit = (j - 1) * limit + limit
  BY SMT
<1>5. k \in 1..count
  <2>1. CASE k > count
    <3>1. count * limit <= (k - 1) * limit
      BY <1>1, <1>3, <2>1, TimesMonotone
    <3>2. (count + 1) * limit = count * limit + limit /\ count * limit \in Int
      BY <1>1, <1>4
    <3>3. QED
      BY <1>2, <1>3, <1>4, <3>1, <3>2
  <2>2. QED
    BY <1>1, <1>3, <2>1
<1>6. \A j \in 1..count : Covers(chunks[j], i) <=> (j - 1) * limit + 1 <= i /\ i <= j * limit
  BY <1>1, <1>4 DEF Covers
<1>7. ASSUME NEW j \in 1..count
      PROVE  Covers(chunks[j], i) <=> j = k
  <2>1. CASE j < k
    <3>1. j * limit <= (k - 1) * limit
      BY <1>1, <1>3, <2>1, TimesMonotone
    <3>2. QED
      BY <1>3, <1>4, <1>6, <2>1, <3>1
  <2>2. CASE j > k
    <3>1. k * limit <= (j - 1) * limit
      BY <1>1, <1>3, <2>2, TimesMonotone
    <3>2. QED
      BY <1>3, <1>4, <1>6, <2>2, <3>1
  <2>3. CASE j = k
    BY <1>3, <1>4, <1>6, <2>3
  <2>4. QED
    BY <1>1, <1>3, <2>1, <2>2, <2>3
<1>8. chunks[k].last - chunks[k].first < limit
  BY <1>1, <1>3, <1>4, <1>5
<1>9. QED
  BY <1>1, <1>5, <1>7, <1>8 DEF chunks

LEMMA SentWhenResolved == BackendsInv => ResolvedMeansSent
<1> SUFFICES ASSUME BackendsInv, NEW n \in Indices, InStage(n, "resolved"),
                    NEW i \in 1..setup.batches[n].size
             PROVE  \E k \in DOMAIN batches[n].requests :
                        /\ batches[n].requests[k].status \in {"ok", "handed", "limited"}
                        /\ batches[n].requests[k].last - batches[n].requests[k].first < Transport.limit
                        /\ \A j \in DOMAIN batches[n].requests :
                              Covers(batches[n].requests[j], i) <=> j = k
  BY DEF ResolvedMeansSent
<1> DEFINE size == setup.batches[n].size
           requests == batches[n].requests
           chunks == Chunks(size, Transport.limit)
<1>1. /\ size \in Nat \ {0} /\ Transport.limit \in Nat \ {0} /\ i \in 1..size
  BY SetupFacts DEF BackendsInv, Shapes
<1>2. /\ DOMAIN requests = DOMAIN chunks
      /\ \A k \in DOMAIN chunks : /\ requests[k].first = chunks[k].first
                                  /\ requests[k].last = chunks[k].last
                                  /\ requests[k].status \in {"ok", "handed", "limited"}
  BY DEF BackendsInv, Shapes, BatchKept, InStage, Transport
<1> HIDE DEF size, requests
<1>3. \E k \in DOMAIN chunks : /\ chunks[k].last - chunks[k].first < Transport.limit
                               /\ \A j \in DOMAIN chunks : Covers(chunks[j], i) <=> j = k
  BY <1>1, ChunksCover
<1> HIDE DEF chunks
<1>4. \E k \in DOMAIN requests :
         /\ requests[k].status \in {"ok", "handed", "limited"}
         /\ requests[k].last - requests[k].first < Transport.limit
         /\ \A j \in DOMAIN requests : Covers(requests[j], i) <=> j = k
  BY <1>2, <1>3 DEF Covers
<1>5. QED
  BY <1>4 DEF requests

LEMMA BackendsKeep ==
    BackendsInv => BackendsTypeOK /\ CreatedOnce /\ OnlyEarlyBatchesImport
<1> SUFFICES ASSUME BackendsInv PROVE BackendsTypeOK /\ CreatedOnce /\ OnlyEarlyBatchesImport
  OBVIOUS
<1>1. /\ made \in Nat /\ early \in Nat /\ batches \in Seq(Batch) /\ setup \in Setups
  BY DEF BackendsInv, Shapes
<1>2. ASSUME NEW n \in Indices
      PROVE  /\ batches[n].stage \in Stages /\ batches[n].purpose \in {"table", "rows"}
             /\ batches[n].through \in 0..made
             /\ \A k \in DOMAIN batches[n].requests : batches[n].requests[k].status \in Statuses
             /\ batches[n].requests # <<>> => batches[n].stage \in {"sending", "resolved", "rejected"}
             /\ batches[n].stage = "resolved" =>
                   \A k \in DOMAIN batches[n].requests : batches[n].requests[k].status # "pending"
  <2>1. /\ batches[n] \in Batch /\ BatchKept(setup, n, batches[n]) /\ batches[n].through <= made
    BY <1>1, BatchesType DEF BackendsInv, Shapes
  <2>2. PICK D \in SUBSET Nat : batches[n].requests \in [D -> Request]
    BY <2>1, BatchFields
  <2>3. \A k \in DOMAIN batches[n].requests : batches[n].requests[k].status \in Statuses
    BY <2>2 DEF Request
  <2>4. /\ batches[n].stage \in Stages /\ batches[n].purpose \in {"table", "rows"}
        /\ batches[n].through \in Nat
    BY <2>1, BatchFields
  <2>5. /\ batches[n].requests # <<>> => batches[n].stage \in {"sending", "resolved", "rejected"}
        /\ batches[n].stage = "resolved" =>
              \A k \in DOMAIN batches[n].requests : batches[n].requests[k].status # "pending"
    BY <2>1 DEF BatchKept
  <2>6. batches[n].through \in 0..made
    BY <1>1, <2>1, <2>4
  <2>7. QED
    BY <2>3, <2>4, <2>5, <2>6
<1>3. BackendsTypeOK
  BY <1>1, <1>2 DEF BackendsTypeOK, BackendsInv, Shapes, Stages, Statuses
<1>4. CreatedOnce
  <2>1. creates <= 1 /\ (setup.ensureSchema /\ 1 \in blind => Transport.private /\ ClientsMade > 1)
    BY DEF BackendsInv, TableFirst
  <2>2. ASSUME setup.ensureSchema, 1 \in Indices, batches[1].requests # <<>> PROVE tables # {}
    BY <2>2 DEF BackendsInv, Shapes, BatchKept, TableFirst
  <2>3. QED
    BY <2>1, <2>2 DEF CreatedOnce
<1>5. OnlyEarlyBatchesImport
  <2>1. ASSUME early > 0 PROVE ClientsMade <= early
    <3>1. Cardinality(Imports) \in Nat /\ ClientsMade \in Int
      BY <1>1, ImportsFinite, SetupFacts DEF ClientsMade, NoClient, Injected
    <3>2. ClientsMade + Cardinality(Imports) <= early
      BY <1>1, <2>1 DEF BackendsInv, Clients
    <3>3. QED
      BY <1>1, <3>1, <3>2
  <2>2. QED
    BY <2>1 DEF OnlyEarlyBatchesImport
<1>6. QED
  BY <1>3, <1>4, <1>5

\* A batch that was not there before and has requests was handed over in this step,
\* when there was no pause.
LEMMA PauseKeptStep ==
    ASSUME BackendsInv, [Next]_vars
    PROVE  \A n \in DOMAIN batches' :
              Transport.pauses /\ n \notin Indices /\ batches'[n].requests # <<>> =>
                  clock >= lastPause
<1> SUFFICES ASSUME NEW n \in DOMAIN batches', Transport.pauses, n \notin Indices,
                    batches'[n].requests # <<>>
             PROVE  clock >= lastPause
  OBVIOUS
<1>1. batches \in Seq(Batch) /\ clock \in Nat /\ lastPause \in Nat
  BY BackendsAssumption DEF BackendsInv, Shapes, BackendsAssumption
<1>2. SendBatch
  <2>1. ASSUME NEW m \in DOMAIN setup.batches,
               Imported(m) \/ Opened(m) \/ TableAnswered(m) \/ RequestAnswered(m)
        PROVE  DOMAIN batches' = DOMAIN batches
    BY <2>1 DEF Imported, Opened, TableAnswered, RequestAnswered, Reject, Keep, Answered
  <2>2. ASSUME NEW m \in Indices, NEW b, Put(m, b) PROVE DOMAIN batches' = DOMAIN batches
    BY <1>1, <2>2, BatchesType DEF Put
  <2>3. ASSUME NEW m \in DOMAIN setup.batches, Acquired(m) \/ TableThere(m)
        PROVE  DOMAIN batches' = DOMAIN batches
    <3>1. m \in Indices /\ \E b : Put(m, b)
      <4>1. m \in Indices
        BY <2>3 DEF Acquired, TableThere, InStage
      <4>2. CASE Acquired(m)
        <5>1. Use(m, batches[m].through, batches[m].purpose)
          BY <4>2 DEF Acquired
        <5>2. CASE batches[m].purpose # "table"
          BY <4>1, <5>1, <5>2 DEF Use, SendRows
        <5>3. CASE batches[m].purpose = "table"
          <6>1. Answer = "later" \/ Answer = "now"
            BY <4>1, <5>3, SetupFacts DEF BackendsInv, Shapes, TableFirst
          <6>2. CreateTable(m, batches[m].through)
            BY <5>1, <5>3 DEF Use
          <6>3. CASE Answer = "later"
            BY <4>1, <6>2, <6>3 DEF CreateTable
          <6>4. CASE Answer = "now"
            BY <4>1, <6>2, <6>4 DEF CreateTable
          <6>5. QED
            BY <6>1, <6>3, <6>4
        <5>4. QED
          BY <5>2, <5>3
      <4>3. CASE TableThere(m)
        BY <4>1, <4>3 DEF TableThere, Acquire, Use, SendRows
      <4>4. QED
        BY <2>3, <4>2, <4>3
    <3>2. QED
      BY <2>2, <3>1
  <2>4. DOMAIN batches' # DOMAIN batches
    BY DEF Indices
  <2>5. ~Tick /\ ~UNCHANGED vars
    BY <2>4 DEF Tick, vars, sendVars
  <2>6. QED
    BY <2>1, <2>3, <2>4, <2>5 DEF Next
<1>3. ~Paused
  <2> SUFFICES ASSUME Paused PROVE FALSE
    OBVIOUS
  <2>1. Put(Len(batches) + 1, At("skipped", "rows", client))
    BY <1>2 DEF SendBatch, Skip
  <2> DEFINE b == At("skipped", "rows", client)
  <2>2. b.requests = <<>>
    BY DEF At
  <2> HIDE DEF b
  <2>3. batches' = Append(batches, b) /\ Len(batches) \in Nat /\ Indices = 1..Len(batches)
    BY <1>1, <2>1, BatchesType DEF Put, b
  <2>4. DOMAIN batches' = 1..(Len(batches) + 1) /\ batches'[Len(batches) + 1] = b
    BY <2>3
  <2>5. QED
    BY <2>2, <2>3, <2>4
<1>4. QED
  BY <1>1, <1>3 DEF Paused, BackendsInv, PauseKnown

-----------------------------------------------------------------------------
\* Nothing in a transport's state, or in that of a batch on its way, is other than
\* sendBatch() and the answers make it.
THEOREM BackendsTypeCorrect == Spec => []BackendsTypeOK
  BY BackendsInit, BackendsStep, BackendsKeep, PTL DEF Spec

\* When the promise of sendBatch() resolves, each record of the batch was in exactly
\* one request, within the backend's limit, that was answered or needs no answer.
THEOREM BackendsSendWhatTheyResolve == Spec => []ResolvedMeansSent
  BY BackendsInit, BackendsStep, SentWhenResolved, PTL DEF Spec

\* ensureTable() creates the table once, by the first batch, whose rows go to a
\* database that has it.
THEOREM BackendsCreateOnce == Spec => []CreatedOnce
  BY BackendsInit, BackendsStep, BackendsKeep, PTL DEF Spec

\* Once importClient() has kept a client, no batch handed over later makes another.
THEOREM BackendsImportEarly == Spec => []OnlyEarlyBatchesImport
  BY BackendsInit, BackendsStep, BackendsKeep, PTL DEF Spec

\* After a 429 NewRelicTransport sends nothing until the time it gave, whatever
\* answers to earlier requests come in meanwhile.
THEOREM BackendsKeepThePause == Spec => PauseKept
<1>1. BackendsInv /\ [Next]_vars =>
        [\A n \in DOMAIN batches' :
            Transport.pauses /\ n \notin Indices /\ batches'[n].requests # <<>> =>
                clock >= lastPause]_vars
  BY PauseKeptStep
<1>2. QED
  BY BackendsInit, BackendsStep, <1>1, PTL DEF Spec, PauseKept
=============================================================================
