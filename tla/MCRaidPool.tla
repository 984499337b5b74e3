----------------------------- MODULE MCRaidPool -----------------------------
EXTENDS RaidPool

MCDisks == <<"a", "b", "c", "d">>
MCCap == Cap(1, 0, 1, 0, FALSE)
Goal(dr, pr, stripe, parity) == [dr |-> dr, pr |-> pr, stripe |-> stripe, parity |-> parity]
MCFaultGoals == {Goal(1, 0, 1, 0), Goal(2, 1, 1, 0), Goal(2, 1, 2, 0)}
MCJbodGoals == {Goal(1, 0, 1, 0)}
MCGoals == {Goal(1, 1, 1, 0), Goal(1, 0, 1, 1), Goal(1, 0, 1, 0), Goal(1, 0, 2, 0), Goal(2, 1, 1, 0), Goal(3, 1, 1, 0), Goal(2, 1, 2, 0), Goal(1, 1, 3, 2)}
=============================================================================
