---------------------------- MODULE MCTableLoads ----------------------------
\* TableLoads on small instances: the tables of a tab, one connection.
EXTENDS TableLoads, TLC

CONSTANTS all, filtered, c1, t1, t2, l1, l2

\* Two pages and an empty result; the second page is shorter than the first.
ViewLengths == [v \in Views |-> IF v = all THEN 3 ELSE 0]
\* One table is paged and filtered, the other only takes the connection away.
Pages == [k \in Keys |->
            {[view |-> all, offset |-> 0]} \cup
            IF k = t1 THEN {[view |-> all, offset |-> Limit],
                            [view |-> filtered, offset |-> 0]} ELSE {}]
OneConnection == [k \in Keys |-> c1]
OwnTable == [k \in Keys |-> k]
=============================================================================
