------------------------------- MODULE Scopes -------------------------------
(***************************************************************************)
(* span() and bindContext() blocks, open in several async call chains at   *)
(* once. On Node.js AsyncLocalStorage gives each chain the blocks it is    *)
(* in. A browser has one stack of span ids and one of merged contexts,     *)
(* which all chains push to and pop from.                                  *)
(***************************************************************************)
EXTENDS Integers, SequencesExt

CONSTANTS
    Chains,             \* async call chains: a request handler, a callback
    Keys,               \* the keys bindContext() binds
    Loggers,
    None,
    MaxBlocks           \* bound: blocks opened

ASSUME ScopesAssumption ==
    /\ MaxBlocks \in Nat /\ None \notin Nat /\ None \notin Keys /\ None \notin Loggers

VARIABLES
    runtime,            \* "node" or "browser"
    scope,              \* for each chain, the blocks it is in, outermost first:
    inherited,          \* the first so many were entered by the chain it came from
    alive,              \* the chains that run
    spanStack,          \* span-browser.ts
    contextStack,       \* context-browser.ts
    blocks,             \* how many were opened; their numbers are the ids
    mixed               \* history: the stack was used by a chain that is not in all
                        \* that is open, since last nothing was open
scopeVars == <<runtime, scope, inherited, alive, spanStack, contextStack, blocks, mixed>>

Block == [id : 1..MaxBlocks, type : {"span", "context"}, key : Keys \cup {None},
          sync : BOOLEAN, logger : Loggers \cup {None}, given : {0, None}]

NoContext == [k \in Keys |-> None]

-----------------------------------------------------------------------------
(* The ids and contexts a chain is in by its own code. *)

Innermost(blocksOf, indices) ==
    IF indices = {} THEN None ELSE blocksOf[Max(indices)].id

Enclosing(blocksOf) ==
    Innermost(blocksOf, {i \in DOMAIN blocksOf : blocksOf[i].type = "span"})

Bound(blocksOf) ==
    [k \in Keys |-> Innermost(blocksOf,
        {i \in DOMAIN blocksOf : blocksOf[i].type = "context" /\ blocksOf[i].key = k})]

(* The ids and contexts the logger sees. *)

CurrentSpanId(c) ==
    IF runtime = "node" THEN Enclosing(scope[c])
    ELSE IF spanStack = <<>> THEN None ELSE Last(spanStack)

CurrentContext(c) ==
    IF runtime = "node" THEN Bound(scope[c])
    ELSE IF contextStack = <<>> THEN NoContext ELSE Last(contextStack)

-----------------------------------------------------------------------------
Own(c) == SubSeq(scope[c], inherited[c] + 1, Len(scope[c]))

\* The function of a block that returns no promise runs in one turn.
InSync(c) == \E i \in DOMAIN Own(c) : Own(c)[i].sync
MayRun(c) == c \in alive /\ \A d \in Chains \ {c} : ~InSync(d)

\* Every block that was entered and not left yet.
Open == UNION {ToSet(Own(c)) : c \in Chains}
Mixing(c) == (mixed /\ Open # {}) \/ ToSet(scope[c]) # Open

Push(b) ==
    IF b.type = "span"
    THEN spanStack' = Append(spanStack, b.id) /\ UNCHANGED contextStack
    ELSE /\ contextStack' = Append(contextStack,
                [IF contextStack = <<>> THEN NoContext ELSE Last(contextStack)
                    EXCEPT ![b.key] = b.id])
         /\ UNCHANGED spanStack

\* Faulty: the function's exception passes the pop by.
PopWithoutCatch(b, throws) ==
    IF b.sync /\ throws THEN UNCHANGED <<spanStack, contextStack>>
    ELSE IF b.type = "span" THEN spanStack' = Front(spanStack) /\ UNCHANGED contextStack
    ELSE contextStack' = Front(contextStack) /\ UNCHANGED spanStack

\* Pops whatever is on top, at once when fn threw or returned no promise, and
\* in a finally() of the promise otherwise.
Pop(b, throws) ==
    IF b.type = "span" THEN spanStack' = Front(spanStack) /\ UNCHANGED contextStack
    ELSE contextStack' = Front(contextStack) /\ UNCHANGED spanStack

\* runInSpan(id, fn) or bindContext(values, fn), up to the call of fn.
Enter(c, b) ==
    /\ blocks < MaxBlocks /\ b.id = blocks + 1
    /\ InSync(c) => b.sync
    /\ scope' = [scope EXCEPT ![c] = Append(@, b)] /\ blocks' = b.id
    /\ mixed' = Mixing(c)
    /\ IF runtime = "node" THEN UNCHANGED <<spanStack, contextStack>> ELSE Push(b)
    /\ UNCHANGED <<runtime, inherited, alive>>

\* fn has settled, returned or thrown.
Leave(c, throws) ==
    /\ Own(c) # <<>>
    /\ scope' = [scope EXCEPT ![c] = Front(@)]
    /\ mixed' = Mixing(c)
    /\ IF runtime = "node" THEN UNCHANGED <<spanStack, contextStack>>
       ELSE Pop(Last(scope[c]), throws)
    /\ UNCHANGED <<runtime, inherited, alive, blocks>>

\* A chain starts from the outside, such as a request, or is started by another,
\* such as one of the functions of a Promise.all, in the scope of that one.
Start(c, blocksOf) ==
    /\ c \notin alive
    /\ alive' = alive \cup {c}
    /\ scope' = [scope EXCEPT ![c] = blocksOf]
    /\ inherited' = [inherited EXCEPT ![c] = Len(blocksOf)]
    /\ UNCHANGED <<runtime, spanStack, contextStack, blocks, mixed>>

End(c) ==
    /\ Own(c) = <<>>
    /\ alive' = alive \ {c}
    /\ scope' = [scope EXCEPT ![c] = <<>>] /\ inherited' = [inherited EXCEPT ![c] = 0]
    /\ UNCHANGED <<runtime, spanStack, contextStack, blocks, mixed>>

\* Chain c logs: nothing of this changes but what is known of the stack.
Look(c) ==
    /\ mixed' = Mixing(c)
    /\ UNCHANGED <<runtime, scope, inherited, alive, spanStack, contextStack, blocks>>

ScopesInit ==
    /\ runtime \in {"node", "browser"}
    /\ scope = [c \in Chains |-> <<>>] /\ inherited = [c \in Chains |-> 0]
    /\ alive = {} /\ spanStack = <<>> /\ contextStack = <<>> /\ blocks = 0 /\ mixed = FALSE

ScopesTypeOK ==
    /\ runtime \in {"node", "browser"} /\ alive \subseteq Chains
    /\ blocks \in 0..MaxBlocks /\ mixed \in BOOLEAN
    /\ \A c \in Chains :
          /\ \A i \in DOMAIN scope[c] : scope[c][i] \in Block
          /\ inherited[c] \in 0..Len(scope[c])
          /\ c \notin alive => scope[c] = <<>>
    /\ \A i \in DOMAIN spanStack : spanStack[i] \in 1..blocks
    /\ \A i \in DOMAIN contextStack : contextStack[i] \in [Keys -> 1..blocks \cup {None}]
    /\ Len(spanStack) + Len(contextStack) =
          IF runtime = "node" THEN 0 ELSE Cardinality(Open)
=============================================================================
