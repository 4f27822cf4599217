----------------------------- MODULE MCLogQuery -----------------------------
(* An instance of LogQuery for TLC: two nodes, a configuration that has both *)
(* and one that has the first only.                                          *)
EXTENDS LogQuery, TLC

CONSTANTS n1, n2, both, one, twice, garbage

MCIpLists == {<<n1, n2>>}
MCConfiguredIn(c) == IF c = both THEN {n1, n2} ELSE {n1}
MCLogs(n) == IF n = n1 THEN {<<0, 2, 0>>} ELSE {<<0, 1, 1>>}
=============================================================================
