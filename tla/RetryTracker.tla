---------------------------- MODULE RetryTracker ----------------------------
(***************************************************************************)
(* src/core/retry.ts: how many times each tool call was opened again       *)
(* before it succeeded.  A call is named by its key (span, tool, call id). *)
(***************************************************************************)
EXTENDS RecencyMap

CONSTANT MaxEntries

Attempt(attempts, call) ==
    IF call \in Keys(attempts) THEN At(attempts, call) + 1 ELSE 0

OpenedInPlace(attempts, call) ==    \* faulty: an entry set again keeps its place
    IF call \in Keys(attempts)
    THEN [i \in DOMAIN attempts |-> IF attempts[i].key = call
                                    THEN [attempts[i] EXCEPT !.value = @ + 1]
                                    ELSE attempts[i]]
    ELSE Newest(Touched(attempts, call, 0), MaxEntries)

\* opened(); the count it returns is Attempt(attempts, call).
Opened(attempts, call) ==
    Newest(Touched(attempts, call, Attempt(attempts, call)), MaxEntries)

\* succeeded()
Succeeded(attempts, call) == Without(attempts, call)
=============================================================================
