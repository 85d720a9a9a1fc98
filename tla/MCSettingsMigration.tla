------------------------- MODULE MCSettingsMigration -------------------------
(* Small instances of SettingsMigration for TLC: two providers and a name   *)
(* that v10 does not know, intervals 1 and 2 with 1 the default and 9 out   *)
(* of range; 16 is 2^32, which the migration takes for 0 and 18 for 2.      *)
EXTENDS SettingsMigration, TLC

CONSTANTS a, b, other

Providers == <<a, b>>
Names == {<<>>, <<a>>, <<b>>, <<other>>, <<b, a>>, <<other, b>>, <<b, b, a>>, <<a, b, a>>}
Lists == {noList} \cup {list(names) : names \in Names}
Configured == v10(2, <<[id |-> b, enabled |-> FALSE], [id |-> a, enabled |-> TRUE]>>)
Found ==
    {absent, [kind |-> "blank"], [kind |-> "invalid"], [kind |-> "edited"], Configured}
        \cup {v9(interval, enabled, order) :
                interval \in {0, 2, 9, 16, 18}, enabled \in Lists, order \in Lists}
FoundShell ==
    {noShell, [state |-> "invalid", inline |-> 0, rest |-> 0]}
        \cup {[state |-> "valid", inline |-> n, rest |-> 0] : n \in {0, 2, 9, 18}}
AnyApplied == {v10(1, <<[id |-> a, enabled |-> TRUE], [id |-> b, enabled |-> FALSE]>>)}

SymmetricSetups == Permutations(Setup)
=============================================================================
