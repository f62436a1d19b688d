------------------------------- MODULE Backends -------------------------------
(***************************************************************************)
(* What sendBatch() does with a batch in the transports built on           *)
(* BatchingTransport: it may import and open the driver's client, create   *)
(* the table, split the batch into requests, and wait for the answers.     *)
(* Batches are handed over while earlier ones are still at any of these    *)
(* awaits (BatchingTransport says when), so each is a little process.      *)
(* An await that settles is an action of its own.                          *)
(***************************************************************************)
EXTENDS Integers, Sequences, FiniteSetsExt

CONSTANTS
    Setups,             \* transports as configured, and the batches they are handed
    DYNAMO_BATCH_LIMIT, SQS_BATCH_LIMIT,
    PauseFloor,         \* 60 s, in clock ticks
    RetrySeconds,       \* what a Retry-After may say: a delay,
    RetryDates,         \* or a date
    MaxTicks            \* bound: the clock

Whole == 1000000        \* no limit: the batch is one request

-----------------------------------------------------------------------------
(* The transports: whether the client is imported by the first batch that    *)
(* finds none, and opened before it is kept; how many records a request      *)
(* takes; when records are turned into what is sent ("never": toItem() did); *)
(* when the answer comes; whether rows need a table; whether 429s pause it.  *)

Fetching == [lazy |-> FALSE, opens |-> FALSE, limit |-> Whole, converts |-> "first",
             answer |-> "later", sql |-> FALSE, private |-> FALSE, pauses |-> FALSE]
Importing == [Fetching EXCEPT !.lazy = TRUE]

DatadogTransport       == Fetching
ElasticsearchTransport == Fetching
NewRelicTransport      == [Fetching EXCEPT !.pauses = TRUE]

CloudWatchTransport    == Importing
CloudLoggingTransport  == Importing
\* The SDK's trackTrace() and flush() are not awaited; an injected client is.
AppInsightsTransport   == [Importing EXCEPT !.answer = "injected"]

PostgresTransport == [Importing EXCEPT !.converts = "never", !.sql = TRUE]
MySQLTransport    == [Importing EXCEPT !.converts = "never", !.sql = TRUE]
\* The driver is synchronous, and each client of ":memory:" has its own tables.
SQLiteTransport   == [Importing EXCEPT !.converts = "never", !.sql = TRUE,
                                       !.answer = "now", !.private = TRUE]

MongoDBTransport  == [Importing EXCEPT !.converts = "never", !.opens = TRUE]
DynamoDBTransport == [Importing EXCEPT !.limit = DYNAMO_BATCH_LIMIT, !.converts = "never"]
RedisTransport    == [Importing EXCEPT !.limit = 1, !.converts = "piecemeal", !.opens = TRUE]

KafkaTransport    == [Importing EXCEPT !.opens = TRUE]
PubSubTransport   == [Importing EXCEPT !.limit = 1, !.converts = "piecemeal"]
SQSTransport      == [Importing EXCEPT !.limit = SQS_BATCH_LIMIT, !.converts = "piecemeal"]
\* sendToQueue() writes to the channel, and nothing awaits it.
RabbitMQTransport == [Importing EXCEPT !.limit = 1, !.converts = "piecemeal", !.opens = TRUE,
                                       !.answer = "none"]

Transports ==
    {DatadogTransport, ElasticsearchTransport, NewRelicTransport, CloudWatchTransport,
     CloudLoggingTransport, AppInsightsTransport, PostgresTransport, MySQLTransport,
     SQLiteTransport, MongoDBTransport, DynamoDBTransport, RedisTransport, KafkaTransport,
     PubSubTransport, SQSTransport, RabbitMQTransport}

ASSUME BackendsAssumption ==
    /\ {DYNAMO_BATCH_LIMIT, SQS_BATCH_LIMIT, PauseFloor} \subseteq Nat \ {0}
    /\ RetrySeconds \cup RetryDates \cup {MaxTicks} \subseteq Nat
    /\ \A s \in Setups :
          /\ s.transport \in Transports
          /\ {s.injected, s.ensureSchema} \subseteq BOOLEAN
          /\ s.injected \/ s.transport.lazy
          /\ s.ensureSchema => s.transport.sql
          \* the size of each batch, and a record of it JSON.stringify refuses (0: none)
          /\ s.batches \in Seq([size : Nat \ {0}, bad : Nat])

NoClient == 0
Injected == 1
NotPaused == -1

VARIABLES
    setup,
    client,             \* this.client, or the injected one
    schemaEnsured,
    pausedUntil,
    batches,            \* for each batch handed over, how far its sendBatch() is
    clock,
    made,               \* history: clients made,
    early,              \* batches handed over before the first was kept,
    tables,             \* the databases that have the table,
    creates,            \* how often it was created,
    blind,              \* the batches whose rows met no table,
    lastPause           \* and when the pause of the last 429 is over

sendVars == <<setup, client, schemaEnsured, pausedUntil, batches, clock>>
historyVars == <<made, early, tables, creates, blind, lastPause>>
vars == <<sendVars, historyVars>>

Transport == setup.transport
Answer == IF Transport.answer # "injected" THEN Transport.answer
          ELSE IF setup.injected THEN "later" ELSE "none"
Database(c) == IF Transport.private THEN c ELSE NoClient

Init ==
    /\ setup \in Setups
    /\ client = IF setup.injected THEN Injected ELSE NoClient
    /\ schemaEnsured = FALSE /\ pausedUntil = NotPaused
    /\ batches = <<>> /\ clock = 0
    /\ made = client /\ early = 0 /\ creates = 0 /\ blind = {} /\ lastPause = 0
    /\ tables = IF setup.ensureSchema \/ ~Transport.sql THEN {} ELSE {Database(client)}

-----------------------------------------------------------------------------
(* Requests *)

ChunksShort(size, limit) ==         \* faulty: the last chunk is rounded away
    [k \in 1..(IF size < limit THEN 1 ELSE size \div limit) |->
        [first |-> (k - 1) * limit + 1, last |-> Min({k * limit, size})]]

\* The records of a batch in slices of limit.
Chunks(size, limit) ==
    [k \in 1..((size + limit - 1) \div limit) |->
        [first |-> (k - 1) * limit + 1, last |-> Min({k * limit, size})]]

Covers(request, i) == request.first <= i /\ i <= request.last

\* The requests that are issued, when record bad of the batch cannot be sent.
Issuable(size, bad) ==
    LET chunks       == Chunks(size, Transport.limit)
        converted(k) == \/ bad = 0 \/ Transport.converts = "never"
                        \/ Transport.converts = "piecemeal" /\ chunks[k].last < bad
    IN  [k \in {k \in DOMAIN chunks : converted(k)} |-> chunks[k]]

Status(requests, status) ==
    [k \in DOMAIN requests |-> [first |-> requests[k].first, last |-> requests[k].last,
                                status |-> status]]

Throws(n) == setup.batches[n].bad # 0 /\ Transport.converts # "never"
Tableless(c) == Transport.sql /\ Database(c) \notin tables

\* What batch n may be once its requests have gone out through client c.
Issued(n, c) ==
    LET s         == setup.batches[n]
        requests  == Issuable(s.size, s.bad)
        with(status, stage) ==
            [stage |-> IF Throws(n) THEN "rejected" ELSE stage, purpose |-> "rows",
             through |-> c, sentAt |-> clock, requests |-> Status(requests, status)]
    IN  CASE Answer = "later" -> {with("pending", "sending")}
          [] Answer = "none"  -> {with("handed", "resolved")}
          [] Answer = "now"   ->
                {with("failed", "rejected")}
                   \cup (IF Tableless(c) THEN {} ELSE {with("ok", "resolved")})

Put(n, batch) ==
    batches' = IF n > Len(batches) THEN Append(batches, batch)
                                   ELSE [batches EXCEPT ![n] = batch]

At(stage, purpose, c) ==
    [stage |-> stage, purpose |-> purpose, through |-> c, sentAt |-> clock, requests |-> <<>>]

-----------------------------------------------------------------------------
(* A batch on its way.  Each operator is what one turn does with batch n. *)

\* insertRows(), publishBatch() and the like, with their client in hand.
SendRows(n, c) ==
    /\ \E batch \in Issued(n, c) : Put(n, batch)
    /\ blind' = IF Tableless(c) THEN blind \cup {n} ELSE blind
    /\ UNCHANGED <<tables, creates>>

\* ensureTable(), with its client in hand.
CreateTable(n, c) ==
    /\ creates' = creates + 1
    /\ CASE Answer = "later" -> Put(n, At("creating", "table", c)) /\ UNCHANGED tables
         [] Answer = "now"   ->
               \/ Put(n, At("created", "table", c)) /\ tables' = tables \cup {Database(c)}
               \/ Put(n, At("rejected", "table", c)) /\ UNCHANGED tables
    /\ UNCHANGED blind

Use(n, c, purpose) == IF purpose = "table" THEN CreateTable(n, c) ELSE SendRows(n, c)

\* resolvedClient() ?? (await importClient())
Acquire(n, purpose) ==
    IF client # NoClient
    THEN Use(n, client, purpose)
    ELSE Put(n, At("importing", purpose, NoClient)) /\ UNCHANGED <<tables, creates, blind>>

\* NewRelicTransport.sendBatch() looks at the pause of the last 429.
Paused == Transport.pauses /\ pausedUntil # NotPaused /\ clock < pausedUntil

Skip(n) ==
    /\ Put(n, At("skipped", "rows", client))
    /\ UNCHANGED <<pausedUntil, schemaEnsured, tables, creates, blind>>

EnsureAfterwards(n) ==              \* faulty: the flag is set when the table is there
    /\ Acquire(n, IF setup.ensureSchema /\ tables = {} THEN "table" ELSE "rows")
    /\ schemaEnsured' = schemaEnsured

\* BaseSQLTransport.sendBatch(): the flag is set before the table is there.
EnsureFirst(n) ==
    IF setup.ensureSchema /\ ~schemaEnsured
    THEN schemaEnsured' = TRUE /\ Acquire(n, "table")
    ELSE UNCHANGED schemaEnsured /\ Acquire(n, "rows")

\* sendBatch() is called with the next batch, and runs to its first await.
SendBatch ==
    LET n == Len(batches) + 1
    IN  /\ n <= Len(setup.batches)
        /\ IF Paused THEN Skip(n)
           ELSE EnsureFirst(n) /\ pausedUntil' = NotPaused
        /\ UNCHANGED <<setup, client, clock, made, early, lastPause>>

Indices == DOMAIN batches
InStage(n, stage) == n \in Indices /\ batches[n].stage = stage

Reject(n) ==
    /\ batches' = [batches EXCEPT ![n].stage = "rejected"]
    /\ UNCHANGED <<client, made, early>>

FirstKept == early' = IF early = 0 THEN Len(batches) ELSE early

KeepNot(n, c) ==                    \* faulty: importClient() returns it only
    /\ batches' = [batches EXCEPT ![n].stage = "acquired", ![n].through = c]
    /\ FirstKept /\ UNCHANGED client

\* A client is kept in this.client, and importClient() returns it.
Keep(n, c) ==
    /\ client' = c
    /\ batches' = [batches EXCEPT ![n].stage = "acquired", ![n].through = c]
    /\ FirstKept

\* The import settles, and makes a client.
Imported(n) ==
    /\ InStage(n, "importing")
    /\ \/ Reject(n)
       \/ /\ made' = made + 1
          /\ IF Transport.opens
             THEN /\ batches' = [batches EXCEPT ![n].stage = "opening", ![n].through = made']
                  /\ UNCHANGED <<client, early>>
             ELSE Keep(n, made')
    /\ UNCHANGED <<setup, schemaEnsured, pausedUntil, clock, tables, creates, blind, lastPause>>

\* The client is connected (and its channel opened), and only now kept.
Opened(n) ==
    /\ InStage(n, "opening")
    /\ \/ Reject(n)
       \/ Keep(n, batches[n].through) /\ UNCHANGED made
    /\ UNCHANGED <<setup, schemaEnsured, pausedUntil, clock, tables, creates, blind, lastPause>>

\* What awaited importClient() goes on with the client this one made, in a turn
\* of its own.
Acquired(n) ==
    /\ InStage(n, "acquired")
    /\ Use(n, batches[n].through, batches[n].purpose)
    /\ UNCHANGED <<setup, client, schemaEnsured, pausedUntil, clock, made, early, lastPause>>

\* The table was created, or not: then the batch is lost.
TableAnswered(n) ==
    /\ InStage(n, "creating")
    /\ \/ Reject(n) /\ UNCHANGED tables
       \/ /\ batches' = [batches EXCEPT ![n].stage = "created"]
          /\ tables' = tables \cup {Database(batches[n].through)}
          /\ UNCHANGED <<client, made, early>>
    /\ UNCHANGED <<setup, schemaEnsured, pausedUntil, clock, creates, blind, lastPause>>

\* After ensureTable() come the rows, with the client there is by now.
TableThere(n) ==
    /\ InStage(n, "created")
    /\ Acquire(n, "rows")
    /\ UNCHANGED <<setup, client, schemaEnsured, pausedUntil, clock, made, early, lastPause>>

-----------------------------------------------------------------------------
(* Answers *)

FirstAnswerWins(n, requests) ==     \* faulty: race(), not all()
    IF batches[n].stage # "sending" THEN batches[n].stage
    ELSE IF \E k \in DOMAIN requests : requests[k].status = "failed" THEN "rejected"
    ELSE IF \A k \in DOMAIN requests : requests[k].status = "pending" THEN "sending"
    ELSE "resolved"

\* Promise.all: it rejects with the first that fails, and the others go on.
Combined(n, requests) ==
    IF batches[n].stage # "sending" THEN batches[n].stage
    ELSE IF \E k \in DOMAIN requests : requests[k].status = "failed" THEN "rejected"
    ELSE IF \E k \in DOMAIN requests : requests[k].status = "pending" THEN "sending"
    ELSE "resolved"

Answered(n, k, status) ==
    LET requests == [batches[n].requests EXCEPT ![k].status = status]
    IN  batches' = [batches EXCEPT ![n].requests = requests, ![n].stage = Combined(n, requests)]

\* resumeTimestamp(): from when the request was sent, or a date.
Resumes(sentAt) ==
    {sentAt + PauseFloor} \cup {sentAt + s : s \in RetrySeconds} \cup RetryDates

LiftedByAnswer(status) ==           \* faulty: a success lifts the pause
    pausedUntil' = IF status = "ok" THEN NotPaused ELSE pausedUntil

\* An answer that is not a 429 says nothing about the pause.
NotLimited(status) == UNCHANGED pausedUntil

RequestAnswered(n) ==
    /\ n \in Indices
    /\ \E k \in DOMAIN batches[n].requests :
          /\ batches[n].requests[k].status = "pending"
          /\ \/ \E status \in {"ok", "failed"} :
                   /\ status = "ok" => n \notin blind \/ Database(batches[n].through) \in tables
                   /\ Answered(n, k, status) /\ NotLimited(status)
                   /\ UNCHANGED lastPause
             \/ /\ Transport.pauses
                /\ Answered(n, k, "limited")
                /\ \E resume \in Resumes(batches[n].sentAt) :
                      pausedUntil' = resume /\ lastPause' = resume
    /\ UNCHANGED <<setup, client, schemaEnsured, clock, made, early, tables, creates, blind>>

\* Only NewRelicTransport looks at the clock.
Tick ==
    /\ Transport.pauses /\ clock < MaxTicks
    /\ clock' = clock + 1
    /\ UNCHANGED <<setup, client, schemaEnsured, pausedUntil, batches, historyVars>>

Next ==
    \/ SendBatch \/ Tick
    \/ \E n \in DOMAIN setup.batches :
          \/ Imported(n) \/ Opened(n) \/ Acquired(n)
          \/ TableAnswered(n) \/ TableThere(n) \/ RequestAnswered(n)

Spec == Init /\ [][Next]_vars

-----------------------------------------------------------------------------
(* Properties *)

BackendsTypeOK ==
    /\ client \in 0..made /\ {made, early} \subseteq Nat /\ creates \in Nat /\ clock \in 0..MaxTicks
    /\ schemaEnsured \in BOOLEAN /\ pausedUntil \in Nat \cup {NotPaused}
    /\ \A n \in Indices :
          /\ batches[n].stage \in {"importing", "opening", "acquired", "creating", "created",
                                   "sending", "resolved", "rejected", "skipped"}
          /\ batches[n].purpose \in {"table", "rows"}
          /\ batches[n].through \in 0..made
          /\ \A k \in DOMAIN batches[n].requests :
                batches[n].requests[k].status \in {"pending", "handed", "ok", "failed", "limited"}
          /\ batches[n].requests # <<>> => batches[n].stage \in {"sending", "resolved", "rejected"}
          /\ batches[n].stage = "resolved" =>
                \A k \in DOMAIN batches[n].requests : batches[n].requests[k].status # "pending"
    /\ tables \subseteq 0..made

\* The promise of a batch resolves only if each of its records was in exactly
\* one request, within the backend's limit, that was answered or needs no
\* answer; and it has not settled while it waits for an answer it needs.
ResolvedMeansSent ==
    \A n \in Indices :
        LET requests == batches[n].requests
        IN  InStage(n, "resolved") =>
                \A i \in 1..setup.batches[n].size :
                    \E k \in DOMAIN requests :
                        /\ requests[k].status \in {"ok", "handed", "limited"}
                        /\ requests[k].last - requests[k].first < Transport.limit
                        /\ \A j \in DOMAIN requests : Covers(requests[j], i) <=> j = k

ClientsMade == made - (IF setup.injected THEN Injected ELSE NoClient)

\* "a synchronous second flush must not re-trigger ensureTable() while the
\* first call is in flight": the table is created at most once, and the batch
\* that creates it sends its rows only when it is there, and to a database that
\* has it, unless another client came between with a database of its own.
CreatedOnce ==
    /\ creates <= 1
    /\ setup.ensureSchema /\ 1 \in Indices /\ batches[1].requests # <<>> => tables # {}
    /\ setup.ensureSchema /\ 1 \in blind => Transport.private /\ ClientsMade > 1

\* Batches that find no client each make one, and that comes to an end: once a
\* client is kept, no batch handed over after it makes another, through failed
\* imports and connections, and for the table as for the rows.
OnlyEarlyBatchesImport == early > 0 => ClientsMade <= early

\* "run `createTableSQL()` before the first insert"
TableBeforeRows == setup.ensureSchema => blind = {}

\* After a 429 no request goes out until the time it gave, whatever answers to
\* earlier requests come in meanwhile (a later 429 gives a time of its own).
PauseKept ==
    [][\A n \in DOMAIN batches' :
          Transport.pauses /\ n \notin Indices /\ batches'[n].requests # <<>> =>
              clock >= lastPause]_vars
=============================================================================
