------------------------------ MODULE StateDiff ------------------------------
(***************************************************************************)
(* core/state-diff.ts: what a span's captured state changed by, and        *)
(* withStateDiff(), which puts it into the span's record.                  *)
(***************************************************************************)
LOCAL INSTANCE Naturals
LOCAL INSTANCE Sequences
LOCAL INSTANCE TLC

\* A captured value: a primitive, a date, an array, an object; a Map is a JavaScript
\* object without keys, whatever it holds, and a function cannot be cloned.
Primitive(p) == [type |-> "primitive", is |-> p]
Date(t)      == [type |-> "date", is |-> t]
Array(s)     == [type |-> "array", is |-> s]
Object(f)    == [type |-> "object", is |-> f]
Map(f)       == [type |-> "map", is |-> f]
Function     == [type |-> "function", is |-> 0]
Nothing      == [type |-> "undefined", is |-> 0]
Uncaptured   == [type |-> "uncaptured", is |-> 0]

RECURSIVE CanClone(_)
CanClone(v) ==
    CASE v.type = "function" -> FALSE
      [] v.type \in {"array", "object", "map"} -> \A k \in DOMAIN v.is : CanClone(v.is[k])
      [] OTHER -> TRUE

\* The state as it is now: the copy is not touched by what happens to it later.
Snapshot(captured) == IF CanClone(captured) THEN captured ELSE Uncaptured

IsPlain(v) == v.type \in {"object", "map", "date"}
KeysOf(v) == IF v.type = "object" THEN DOMAIN v.is ELSE {}

RECURSIVE DeepEqual(_, _)
DeepEqual(a, b) ==
    \/ a.type = b.type /\ a.type \in {"primitive", "date", "undefined"} /\ a.is = b.is
    \/ /\ a.type = "array" /\ b.type = "array" /\ Len(a.is) = Len(b.is)
       /\ \A i \in DOMAIN a.is : DeepEqual(a.is[i], b.is[i])
    \/ /\ IsPlain(a) /\ IsPlain(b) /\ {a.type, b.type} # {"date"}
       /\ KeysOf(a) = KeysOf(b)
       /\ \A k \in KeysOf(a) : DeepEqual(a.is[k], b.is[k])

Diff(before, after) == [before |-> before, after |-> after]
Pick(v, keys) == Object([k \in KeysOf(v) \cap keys |-> v.is[k]])

\* stateDiff()
Changes(before, after) ==
    LET changed == {k \in KeysOf(before) \cup KeysOf(after) :
                       \/ k \notin KeysOf(before) \cap KeysOf(after)
                       \/ ~DeepEqual(before.is[k], after.is[k])}
    IN  IF IsPlain(before) /\ IsPlain(after)
        THEN IF changed = {} THEN Nothing ELSE Diff(Pick(before, changed), Pick(after, changed))
        ELSE IF DeepEqual(before, after) THEN Nothing ELSE Diff(before, after)

\* The span's meta gets a diff unless the caller has put one there, the state could not
\* be captured, or it is the same.
WithStateDiff(meta, before, captured) ==
    LET after == Snapshot(captured)
    IN  IF \/ Uncaptured \in {before, after} \/ Changes(before, after) = Nothing
           \/ "state_diff" \in DOMAIN meta
        THEN meta ELSE ("state_diff" :> Changes(before, after)) @@ meta

-----------------------------------------------------------------------------
(* Checks *)

Leaves == {Primitive("a"), Primitive("b")}
ObjectsOf(keys, values) == {Object(f) : f \in UNION {[some -> values] : some \in SUBSET keys}}
Inner == Leaves \cup ObjectsOf({"p"}, Leaves) \cup {Array(<<>>), Array(<<Primitive("a")>>)}
States == Leaves \cup ObjectsOf({"p", "q"}, Inner) \cup {Array(<<v>>) : v \in Inner}

\* A state that is JSON has a diff just if it changed, and the diff is all of the change
\* and nothing else: what it says of before turns into what it says of after.
ASSUME DiffIsTheChange ==
    \A before, after \in States :
        LET meta == WithStateDiff([k \in {} |-> 0], before, after)
            diff == meta.state_diff
            kept == KeysOf(before) \ KeysOf(diff.before)
        IN  /\ (meta = <<>>) = (before = after)
            /\ before # after =>
                  IF before.type = "object" /\ after.type = "object"
                  THEN /\ Object([k \in kept |-> before.is[k]] @@ diff.after.is) = after
                       /\ \A k \in KeysOf(diff.before) \cap KeysOf(diff.after) :
                             diff.before.is[k] # diff.after.is[k]
                  ELSE diff = Diff(before, after)

\* A state that cannot be cloned leaves the record as it is; so does what a Map in it
\* holds, and a date that becomes an empty object, of which the comparison sees nothing.
ASSUME UnseenStates ==
    LET none == [k \in {} |-> 0]
        with(v) == Object([p |-> v])
    IN  /\ \A v \in States : WithStateDiff(none, Snapshot(v), with(Function)) = none
        /\ \A v, w \in Leaves :
              WithStateDiff(none, with(Map([k |-> v])), with(Map([k |-> w]))) = none
        /\ WithStateDiff(none, with(Date(1)), with(Object(none))) = none
        /\ WithStateDiff(none, with(Date(1)), with(Date(2))) # none
        /\ WithStateDiff([state_diff |-> 1], Primitive("a"), Primitive("b")) = [state_diff |-> 1]
=============================================================================
