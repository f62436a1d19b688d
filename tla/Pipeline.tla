------------------------------ MODULE Pipeline ------------------------------
(***************************************************************************)
(* Logger.dispatch() (src/core/logger.ts): the retry counter, the chain of *)
(* beforeLog hooks, the queue, and writeAndNotify() with the afterLog      *)
(* hooks, over one transport.  The queue is first in, first out and never  *)
(* full here: DispatchQueue says what it does when it is.  A call that the *)
(* level or the toggles refuse changes nothing, and is no step.            *)
(***************************************************************************)
EXTENDS Integers, FiniteSets, SequencesExt

CONSTANTS
    Setups,     \* programs: the plugins in order, the calls made, and two bounds
    NoTrace,
    MaxPerWindow, PerSeconds, MaxKeys,
    MaxTraces, MaxBufferedRecords,
    DedupeWindow, MaxTrackedKeys,
    MaxEntries

Rate     == INSTANCE RateLimitPlugin
Sampling == INSTANCE SamplingPlugin
Tamper   == INSTANCE TamperEvidentPlugin
Alerting == INSTANCE AlertingPlugin
Retry    == INSTANCE RetryTracker

CallKinds == {"action", "observation", "other"}

ASSUME PipelineAssumption ==
    \A s \in Setups :
        /\ s.chain \in Seq({"rateLimit", "sampling", "tamperEvident", "alerting"})
        /\ \A i, j \in DOMAIN s.chain : s.chain[i] = s.chain[j] => i = j   \* `plugins` has one state for each
        /\ \A c \in s.calls :
              /\ DOMAIN c = {"kind", "key", "trace", "severe", "refused", "cyclic"}
              /\ c.kind \in CallKinds
              /\ {c.severe, c.refused, c.cyclic} \subseteq BOOLEAN
        /\ {s.records, s.ticks} \subseteq Nat       \* bounds: calls, and the clock

\* What the constructors of RateLimitPlugin and RetryTracker insist on, and
\* sizes and durations elsewhere.
ASSUME LimitsAssumption ==
    /\ {MaxPerWindow, PerSeconds, MaxEntries, DedupeWindow} \subseteq Nat \ {0}
    /\ {MaxKeys, MaxTraces, MaxBufferedRecords, MaxTrackedKeys} \subseteq Nat

VARIABLES
    setup,
    clock,
    attempts,       \* Logger.retries
    plugins,        \* the state of the beforeLog plugins: windows, sampling, lastHash
    alerts,         \* the state of an AlertingPlugin
    queue,          \* the records dispatched and not yet written
    sink,           \* history: the records written, in order,
    rejected,       \* the ids of those the transport threw on,
    log,            \* the calls, when each was made and what became of it,
    cancelled       \* and whether the AlertingPlugin was closed

vars == <<setup, clock, attempts, plugins, alerts, queue, sink, rejected, log, cancelled>>

Init ==
    /\ setup \in Setups
    /\ clock = 0
    /\ attempts = Retry!EmptyMap
    /\ plugins = [windows  |-> Rate!EmptyMap, sampling |-> Sampling!NothingSampled,
                  lastHash |-> Tamper!GENESIS_HASH]
    /\ alerts = Alerting!NothingAlerted
    /\ queue = <<>> /\ sink = <<>> /\ rejected = {} /\ log = <<>> /\ cancelled = FALSE

-----------------------------------------------------------------------------
(* dispatch *)

\* createRecord(): id stands for what the record says.
Record(call, id) ==
    [id |-> id, key |-> call.key, trace |-> call.trace, severe |-> call.severe,
     refused |-> call.refused, cyclic |-> call.cyclic,
     prev_hash |-> Tamper!Unhashed, hash |-> Tamper!Unhashed]

\* trackRetries()
TrackRetries(call) ==
    attempts' = CASE call.kind = "action"      -> Retry!Opened(attempts, call.key)
                  [] call.kind = "observation" -> Retry!Succeeded(attempts, call.key)
                  [] call.kind = "other"       -> attempts

\* What a beforeLog hook makes of p: the plugins' state, the record on its way,
\* what was written meanwhile, and the fate of the record.
Limited(p) ==
    LET verdict == Rate!RateLimited(p.plugins.windows, p.record.key, clock)
    IN  [p EXCEPT !.plugins.windows = verdict.windows,
                  !.fate = IF verdict.pass THEN @ ELSE "limited"]

SampledOut(p, keep) ==
    LET verdict == Sampling!Sampled(p.plugins.sampling, p.record, keep)
    IN  [p EXCEPT !.plugins.sampling = verdict.sampling,
                  !.wrote = @ \o verdict.wrote,
                  !.fate = IF verdict.pass THEN @ ELSE "sampled"]

ChainedAnyway(p) ==             \* faulty: the chain moves on although computeHash() threw
    [p EXCEPT !.record = IF Tamper!CanHash(@) THEN Tamper!Hashed(@, p.plugins.lastHash) ELSE @,
              !.plugins.lastHash = Tamper!Digest(p.record, @)]

\* A hook that throws is skipped: the record goes on as it was.
Chained(p) ==
    IF Tamper!CanHash(p.record)
    THEN [p EXCEPT !.record = Tamper!Hashed(@, p.plugins.lastHash),
                   !.plugins.lastHash = Tamper!Digest(p.record, @)]
    ELSE p

Through(p, plugin, keep) ==
    CASE plugin = "rateLimit"     -> Limited(p)
      [] plugin = "sampling"      -> SampledOut(p, keep)
      [] plugin = "tamperEvident" -> Chained(p)
      [] plugin = "alerting"      -> p          \* it has no beforeLog

\* The loop over the plugins, which the first to return null ends.
ThroughChain(r, keep) ==
    LET after[n \in 0..Len(setup.chain)] ==
            IF n = 0
            THEN [plugins |-> plugins, record |-> r, wrote |-> <<>>, fate |-> "queued"]
            ELSE IF after[n - 1].fate = "queued"
                 THEN Through(after[n - 1], setup.chain[n], keep) ELSE after[n - 1]
    IN  after[Len(setup.chain)]

Dispatch ==
    /\ Len(log) < setup.records
    /\ \E call \in setup.calls, keep \in BOOLEAN :
          LET end == ThroughChain(Record(call, Len(log) + 1), keep)
          IN  /\ plugins' = end.plugins
              /\ sink' = sink \o end.wrote
              /\ queue' = IF end.fate = "queued" THEN Append(queue, end.record) ELSE queue
              /\ TrackRetries(call)
              /\ log' = Append(log, [call |-> call, at |-> clock, fate |-> end.fate,
                                     retry_count |-> Retry!Attempt(attempts, call.key)])
    /\ UNCHANGED <<setup, clock, alerts, rejected, cancelled>>

-----------------------------------------------------------------------------
(* The queue's task, and time *)

\* writeAndNotify(): afterLog runs even if the transport threw.
WriteAndNotify ==
    /\ queue # <<>>
    /\ queue' = Tail(queue)
    /\ LET r == Head(queue)
       IN  /\ IF r.refused
              THEN rejected' = rejected \cup {r.id} /\ UNCHANGED sink
              ELSE sink' = Append(sink, r) /\ UNCHANGED rejected
           /\ alerts' = IF r.severe /\ "alerting" \in Range(setup.chain)
                        THEN Alerting!Noticed(alerts, r.key, clock) ELSE alerts
    /\ UNCHANGED <<setup, clock, attempts, plugins, log, cancelled>>

Tick ==
    /\ clock < setup.ticks
    /\ clock' = clock + 1
    /\ UNCHANGED <<setup, attempts, plugins, alerts, queue, sink, rejected, log, cancelled>>

AlertTimer ==
    /\ \E key \in DOMAIN alerts.windows :
          /\ Alerting!WindowOver(alerts, key, clock)
          /\ alerts' = Alerting!WindowClosed(alerts, key, clock)
    /\ UNCHANGED <<setup, clock, attempts, plugins, queue, sink, rejected, log, cancelled>>

CloseAlerting ==
    /\ ~cancelled /\ "alerting" \in Range(setup.chain)
    /\ alerts' = Alerting!Cancelled(alerts)
    /\ cancelled' = TRUE
    /\ UNCHANGED <<setup, clock, attempts, plugins, queue, sink, rejected, log>>

Next == Dispatch \/ WriteAndNotify \/ Tick \/ AlertTimer \/ CloseAlerting

Spec == Init /\ [][Next]_vars

-----------------------------------------------------------------------------
(* Properties *)

LogIndices == DOMAIN log

\* The buffer's records by their places: which trace it is, and which of its records.
PlacesIn(buffer) == UNION {{n} \X DOMAIN buffer[n].value : n \in DOMAIN buffer}
Buffered == PlacesIn(plugins.sampling.buffer)
BufferedAt(p) == plugins.sampling.buffer[p[1]].value[p[2]]
Elevated == plugins.sampling.elevated

PipelineTypeOK ==
    /\ clock \in 0..setup.ticks
    /\ \A i \in LogIndices :
          /\ log[i].call \in setup.calls /\ log[i].at \in 0..clock
          /\ log[i].fate \in {"queued", "limited", "sampled"} /\ log[i].retry_count \in Nat
    /\ plugins.sampling.bufferedCount \in Nat
    /\ Sampling!Ids(queue \o sink) \cup {BufferedAt(p).id : p \in Buffered} \cup rejected
          \cup plugins.sampling.evicted \cup plugins.sampling.lost \subseteq LogIndices
    /\ \A i \in DOMAIN attempts : attempts[i].value \in Nat
    /\ \A k \in DOMAIN alerts.windows : alerts.windows[k].count \in Nat \ {0}

\* Every record dispatched is in one place, once: in the queue, written, in a
\* trace's buffer, refused by the transport, or dropped for a reason.
Times(i, records) == Cardinality({j \in DOMAIN records : records[j].id = i})
One(condition) == IF condition THEN 1 ELSE 0

RecordsAccounted ==
    \A i \in LogIndices :
        1 = Times(i, queue) + Times(i, sink)
            + Cardinality({p \in Buffered : BufferedAt(p).id = i})
            + One(i \in rejected) + One(i \in plugins.sampling.evicted)
            + One(i \in plugins.sampling.lost) + One(log[i].fate = "limited")
            + One(log[i].fate = "sampled" /\ log[i].call.trace = NoTrace)

\* "every buffered record for that trace id is flushed straight to `transports`,
\* and every subsequent record ships unconditionally": once a trace is elevated,
\* it misses only what was evicted before, what a plugin ahead limited, and
\* what follows a record the transport refuses.
TraceComplete ==
    \A i \in LogIndices :
        log[i].call.trace \in Elevated /\ log[i].fate # "limited" =>
            \/ i \in Sampling!Ids(queue \o sink) \cup rejected \cup plugins.sampling.evicted
            \/ \E j \in 1..i : /\ {i, j} \subseteq plugins.sampling.lost
                               /\ log[j].call.trace = log[i].call.trace
                               /\ log[j].call.refused

\* Both bounds hold for what is really buffered, and nothing is kept for a
\* trace that has been elevated.
SamplingBounded ==
    /\ plugins.sampling.bufferedCount = Cardinality(Buffered)
    /\ Cardinality(Buffered) <= MaxBufferedRecords
    /\ Len(plugins.sampling.buffer) <= MaxTraces
    /\ Sampling!Keys(plugins.sampling.buffer) \cap Elevated = {}

\* What the rate limit let through of one key in the PerSeconds from t on, when
\* too few other keys were about for a window to be evicted.  Records that a
\* SamplingPlugin ahead of it keeps back do not reach it.
Ahead(a, b) == \E i, j \in DOMAIN setup.chain : i < j /\ setup.chain[i] = a /\ setup.chain[j] = b
Reached == {i \in LogIndices : /\ "rateLimit" \in Range(setup.chain)
                               /\ log[i].fate = "sampled" => ~Ahead("sampling", "rateLimit")}
InSpan(i, t) == log[i].at \in t..(t + PerSeconds - 1)
Passed(k, t) == {i \in Reached : log[i].call.key = k /\ log[i].fate # "limited" /\ InSpan(i, t)}
Others(k, t) == {log[i].call.key : i \in {j \in Reached : InSpan(j, t)}} \ {k}
Undisturbed(k, t) == Cardinality(Others(k, t)) < MaxKeys
RateKeys == {log[i].call.key : i \in Reached}

\* A window starts with a record, so any PerSeconds meet two windows at most,
\* and not the first record of the earlier one.
WindowBound ==
    \A k \in RateKeys, t \in 0..clock :
        Undisturbed(k, t) => Cardinality(Passed(k, t)) <= 2 * MaxPerWindow - 1

\* "only the first 5 in any 60s window ship"
AtMostMaxInAnyWindow ==
    \A k \in RateKeys, t \in 0..clock :
        Undisturbed(k, t) => Cardinality(Passed(k, t)) <= MaxPerWindow

\* With the hash chain last among the plugins, what is written and queued
\* verifies, once the records it could not hash are set aside.
WasHashed(r) == r.hash # Tamper!Unhashed
OnlyHashed(records) ==
    LET kept[n \in 0..Len(records)] ==
            IF n = 0 THEN <<>>
            ELSE IF WasHashed(records[n]) THEN Append(kept[n - 1], records[n]) ELSE kept[n - 1]
    IN  kept[Len(records)]

ChainVerifies ==
    /\ setup.chain # <<>> /\ Last(setup.chain) = "tamperEvident"
    /\ "sampling" \notin Range(setup.chain)
    /\ \A i \in rejected : log[i].call.cyclic
    => Tamper!VerifyChain(OnlyHashed(sink \o queue))

\* A key fires two alerts at most in the span of one dedupe window, however
\* late its timer, as long as close() does not reset it, and the windows open
\* together are bounded.
AlertsOf(k) == {i \in DOMAIN alerts.sent : alerts.sent[i].key = k}

AlertsBounded ==
    /\ Cardinality(DOMAIN alerts.windows) <= MaxTrackedKeys
    /\ ~cancelled =>
        \A i, j, k \in DOMAIN alerts.sent :
            i < j /\ j < k /\ {i, j, k} \subseteq AlertsOf(alerts.sent[i].key) =>
                alerts.sent[k].at >= alerts.sent[i].at + DedupeWindow

\* And tells of every record: the alerts of a key add up to the records of it
\* that were written, less those its open window still counts and those that
\* found no room.  The alert that opens a window tells of one record, and the one
\* that closes it of the others.
Tells(alert, k) ==
    IF alert.key # k THEN 0
    ELSE IF alert.occurrences > 1 THEN alert.occurrences - 1 ELSE 1
Told(k, sent) ==
    LET sum[n \in 0..Len(sent)] == IF n = 0 THEN 0 ELSE sum[n - 1] + Tells(sent[n], k)
    IN  sum[Len(sent)]
NoRoom(k) == Cardinality({i \in DOMAIN alerts.untracked : alerts.untracked[i] = k})
Untold(k) == IF k \in DOMAIN alerts.windows THEN alerts.windows[k].count - 1 ELSE 0

AlertsAccounted ==
    ~cancelled /\ "alerting" \in Range(setup.chain) =>
        \A k \in {call.key : call \in setup.calls} :
            Cardinality({i \in Sampling!Ids(sink) \cup rejected :
                            log[i].call.key = k /\ log[i].call.severe})
              = Told(k, alerts.sent) + Untold(k) + NoRoom(k)

\* retry_count is how often the call was opened since it last succeeded, unless
\* MaxEntries other calls were opened between two of its attempts.
OpensIn(k, span) == {i \in span : log[i].call.kind = "action" /\ log[i].call.key = k}
SinceSuccess(n) ==
    {i \in 1..(n - 1) : \A j \in i..(n - 1) :
        ~(log[j].call.kind = "observation" /\ log[j].call.key = log[n].call.key)}
CrowdedOut(k, i, j) ==
    MaxEntries <= Cardinality({log[m].call.key : m \in
                                  {l \in (i + 1)..(j - 1) : log[l].call.kind = "action"}} \ {k})

RetriesExact ==
    \A n \in LogIndices : log[n].call.kind = "action" =>
        LET k     == log[n].call.key
            opens == OpensIn(k, SinceSuccess(n))
        IN  \/ log[n].retry_count = Cardinality(opens)
            \/ /\ log[n].retry_count < Cardinality(opens)
               /\ \E i \in opens, j \in opens \cup {n} :
                     /\ i < j /\ opens \cap (i + 1)..(j - 1) = {}
                     /\ CrowdedOut(k, i, j)
=============================================================================
