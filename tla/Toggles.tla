------------------------------- MODULE Toggles -------------------------------
(***************************************************************************)
(* enable() and disable(): rules that switch loggers on and off by name. A *)
(* name is the sequence of its parts: "mylib.http" is <<"mylib", "http">>, *)
(* and the empty name covers all.                                          *)
(***************************************************************************)
LOCAL INSTANCE Naturals
LOCAL INSTANCE SequencesExt

\* A rule for a name replaces the one there was.
SetRule(rules, name, enabled) ==
    [n \in DOMAIN rules \cup {name} |-> IF n = name THEN enabled ELSE rules[n]]

\* From the name itself outwards, until there is a rule.
IsEnabled(rules, name) ==
    LET verdict[k \in 0..Len(name)] ==
            LET candidate == SubSeq(name, 1, k)
            IN  IF candidate \in DOMAIN rules THEN rules[candidate]
                ELSE IF k = 0 THEN TRUE ELSE verdict[k - 1]
    IN  verdict[Len(name)]

-----------------------------------------------------------------------------
Parts == {"mylib", "http"}
SomeNames == BoundedSeq(Parts, 3)
NoRules == [n \in {} |-> TRUE]
Rules == UNION {[names -> BOOLEAN] : names \in SUBSET BoundedSeq(Parts, 2)}

Covering(rules, name) == {n \in DOMAIN rules : IsPrefix(n, name)}

\* "the most specific rule covering it, or true if none does": the longest of the
\* rules for the name or for what it is nested under.
ASSUME MostSpecificRuleWins ==
    \A rules \in Rules, name \in SomeNames :
        IsEnabled(rules, name) =
            \/ Covering(rules, name) = {}
            \/ \E n \in Covering(rules, name) :
                  rules[n] /\ \A m \in Covering(rules, name) : IsPrefix(m, n)

\* A rule that is set is obeyed by the loggers nested under its name, all but those
\* with a more specific rule, and by no other.
ASSUME RuleReachesItsOwn ==
    \A rules \in Rules, name \in SomeNames, rule \in BoundedSeq(Parts, 2), on \in BOOLEAN :
        IsEnabled(SetRule(rules, rule, on), name) =
            IF /\ IsPrefix(rule, name)
               /\ \A n \in Covering(rules, name) : IsPrefix(n, rule)
            THEN on ELSE IsEnabled(rules, name)
=============================================================================
