-------------------------- MODULE DeliveryContract --------------------------
(***************************************************************************)
(* What a caller of the logger's dispatch queue may rely on, with no queue *)
(* in sight: every task handed over moves once through its life (waiting,  *)
(* running, settled) or is dropped before it runs, and a flush resolves    *)
(* only when every task it was called after has come to its end.           *)
(* DispatchQueue implements it.                                            *)
(***************************************************************************)
EXTENDS Naturals

CONSTANTS MaxTasks,   \* how many tasks are ever handed over
          Flushes     \* the calls of flush()

VARIABLES fate,       \* where each task is in its life
          owed,       \* the tasks each flush call has to wait for
          called,     \* the flush calls made
          resolved    \* those whose promise is resolved

contractVars == <<fate, owed, called, resolved>>

TaskIds == 1..MaxTasks

Ended(t) == fate[t] \in {"settled", "dropped"}

ContractInit ==
    /\ fate = [t \in TaskIds |-> "new"]
    /\ owed = [f \in Flushes |-> {}]
    /\ called = {}
    /\ resolved = {}

\* A new task is taken, or run on the caller's stack, or refused; making room
\* for it may cost one task that has not started (s = t: it costs none).
HandOver(t, s) ==
    /\ fate[t] = "new"
    /\ s = t \/ fate[s] = "waiting"
    /\ \E first \in {"waiting", "running", "dropped"} :
          fate' = [fate EXCEPT ![s] = "dropped", ![t] = first]
    /\ UNCHANGED <<owed, called, resolved>>

Start(t) ==
    /\ fate[t] = "waiting"
    /\ fate' = [fate EXCEPT ![t] = "running"]
    /\ UNCHANGED <<owed, called, resolved>>

Settle(t) ==
    /\ fate[t] = "running"
    /\ fate' = [fate EXCEPT ![t] = "settled"]
    /\ UNCHANGED <<owed, called, resolved>>

\* A flush owes at least what waits when it is called (a task running on its
\* caller's stack was never queued, and need not be owed).
CallFlush(f) ==
    /\ f \notin called
    /\ \E some \in SUBSET {t \in TaskIds : fate[t] # "new"} :
          /\ \A t \in TaskIds : fate[t] = "waiting" => t \in some
          /\ owed' = [owed EXCEPT ![f] = some]
          /\ resolved' = IF some = {} THEN resolved \cup {f} ELSE resolved
    /\ called' = called \cup {f}
    /\ UNCHANGED fate

\* Any set of calls whose debts have all ended may resolve together.
Resolve(fs) ==
    /\ fs \subseteq called \ resolved
    /\ \A f \in fs : \A t \in owed[f] : Ended(t)
    /\ resolved' = resolved \cup fs
    /\ UNCHANGED <<fate, owed, called>>

ContractNext ==
    \/ \E t, s \in TaskIds : HandOver(t, s)
    \/ \E t \in TaskIds : Start(t) \/ Settle(t)
    \/ \E f \in Flushes : CallFlush(f)
    \/ \E fs \in SUBSET Flushes : Resolve(fs)

ContractSpec == ContractInit /\ [][ContractNext]_contractVars
=============================================================================
