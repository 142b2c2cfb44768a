------------------------------ MODULE MCPRSSA ------------------------------
EXTENDS PRSSA, TLC
Reads(p) == [reads |-> {p}, writes |-> {}]
Sets(p) == [reads |-> {}, writes |-> {p}]
Steps(p) == [reads |-> {p}, writes |-> {p}]

\* Two arms, a loop, a loop with two latches, nested loops, a loop with two
\* entrances, a branch over a block, a loop that may be passed over, a loop
\* around the rest, two branches over blocks.
Graphs == {<<{2, 3}, {4}, {4}, {}>>, <<{2}, {3, 4}, {2}, {}>>, <<{2}, {3, 4}, {2}, {2}>>,
           <<{2}, {3}, {2, 3, 4}, {2}>>, <<{2, 3}, {3, 4}, {2}, {}>>,
           <<{2, 3}, {3}, {2, 4}, {}>>, <<{2, 4}, {3}, {2, 4}, {}>>,
           <<{2}, {3}, {4}, {2}>>, <<{2, 3}, {3, 4}, {4}, {}>>}
Shapes == {<<>>, <<Reads("x")>>, <<Sets("x")>>, <<Steps("x")>>}
Codes == [1 .. 4 -> Shapes]
\* y is not there, or comes from outside and is read in block 4, or is set
\* again in block 3 before that.
Ys == {<<<<>>, <<>>>>, <<<<>>, <<Reads("y")>>>>, <<<<Sets("y")>>, <<Reads("y")>>>>}
WithY(c, ys) == [b \in 1 .. 4 |-> IF b \in {3, 4} THEN c[b] \o ys[b - 2] ELSE c[b]]
MCPrograms == {[succ |-> g, code |-> WithY(c, ys)] :
                 g \in Graphs, c \in Codes, ys \in Ys}
=============================================================================
