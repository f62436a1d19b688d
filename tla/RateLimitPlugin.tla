--------------------------- MODULE RateLimitPlugin ---------------------------
(***************************************************************************)
(* src/plugins/rate-limit-plugin.ts: a window of PerSeconds for each key,  *)
(* opened by a record of that key.  An operation takes the windows and     *)
(* returns them with the verdict.                                          *)
(***************************************************************************)
EXTENDS RecencyMap

CONSTANTS
    MaxPerWindow,   \* maxRecords
    PerSeconds,     \* perSeconds, in clock ticks
    MaxKeys         \* maxKeys

OpenedEmpty(windows, key, now) ==   \* faulty: the record that opens it is not counted
    [pass |-> TRUE,
     windows |-> Newest(Touched(windows, key, [start |-> now, count |-> 0]), MaxKeys)]

\* There is no window, or it is over: one opens, and the oldest may go.
Opened(windows, key, now) ==
    [pass |-> TRUE,
     windows |-> Newest(Touched(windows, key, [start |-> now, count |-> 1]), MaxKeys)]

\* The window is open: the record counts against it.
Counted(windows, key) ==
    LET window == At(windows, key)
        room   == window.count < MaxPerWindow
    IN  [pass |-> room,
         windows |-> Touched(windows, key,
                             IF room THEN [window EXCEPT !.count = @ + 1] ELSE window)]

\* beforeLog()
RateLimited(windows, key, now) ==
    IF key \in Keys(windows) /\ now - At(windows, key).start < PerSeconds
    THEN Counted(windows, key)
    ELSE Opened(windows, key, now)
=============================================================================
