--------------------------- MODULE AlertingPlugin ---------------------------
(***************************************************************************)
(* src/plugins/alerting-plugin.ts: an alert when a dedupe window opens,    *)
(* and one more when it closes if other records of its key came meanwhile. *)
(* sendAlert() is not awaited, so an alert is an entry of a history.       *)
(***************************************************************************)
EXTENDS Integers, Sequences, FiniteSets, Functions

CONSTANTS
    DedupeWindow,   \* dedupeWindowMs, in clock ticks
    MaxTrackedKeys  \* maxTrackedKeys

NoWindows == [k \in {} |-> 0]

NothingAlerted ==
    [windows   |-> NoWindows,   \* key -> records counted, and when the first came
     sent      |-> <<>>,        \* history: the alerts,
     untracked |-> <<>>]        \* and the keys of records there was no room for

Alerted(a, key, now, occurrences) ==
    [a EXCEPT !.sent = Append(@, [key |-> key, at |-> now, occurrences |-> occurrences])]

Opened(windows, key, now) ==
    [k \in DOMAIN windows \cup {key} |->
        IF k = key THEN [count |-> 1, opened |-> now] ELSE windows[k]]

\* afterLog(), of a record at the threshold or above.
Noticed(a, key, now) ==
    IF key \in DOMAIN a.windows
    THEN [a EXCEPT !.windows[key].count = @ + 1]
    ELSE IF Cardinality(DOMAIN a.windows) >= MaxTrackedKeys
    THEN [a EXCEPT !.untracked = Append(@, key)]
    ELSE Alerted([a EXCEPT !.windows = Opened(@, key, now)], key, now, 1)

\* A timer may be late, never early.
WindowOver(a, key, now) ==
    key \in DOMAIN a.windows /\ now >= a.windows[key].opened + DedupeWindow

WindowClosedOnce(a, key, now) ==    \* faulty: the follow-up leaves the window open
    LET window == a.windows[key]
    IN  IF window.count <= 1
        THEN [a EXCEPT !.windows = Restrict(@, DOMAIN @ \ {key})]
        ELSE Alerted([a EXCEPT !.windows[key].count = 1], key, now, window.count)

WindowClosedShort(a, key, now) ==   \* faulty: the follow-up counts the duplicates only
    LET window == a.windows[key]
        closed == [a EXCEPT !.windows = Restrict(@, DOMAIN @ \ {key})]
    IN  IF window.count <= 1 THEN closed ELSE Alerted(closed, key, now, window.count - 1)

\* flush(), from the timer of a window.
WindowClosed(a, key, now) ==
    LET window == a.windows[key]
        closed == [a EXCEPT !.windows = Restrict(@, DOMAIN @ \ {key})]
    IN  IF window.count <= 1 THEN closed ELSE Alerted(closed, key, now, window.count)

\* close(): the timers are cancelled, and what they counted is told to nobody.
Cancelled(a) == [a EXCEPT !.windows = NoWindows]
=============================================================================
