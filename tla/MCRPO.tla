------------------------------- MODULE MCRPO -------------------------------
EXTENDS Dominators, TLC
CONSTANTS r, a, b, x
MCVertices == {r, a, b, x}
MCBuilds == BOOLEAN
MCDebug == {TRUE}
MCRelease == {FALSE}
MCShapes == { {<<r, a>>, <<r, b>>, <<a, b>>},      \* a branch around a block
              {<<r, a>>, <<a, b>>, <<b, a>>} }               \* a loop
\* ReducibleShapes of RPOProofs, with numbers TLC can enumerate.
DominatesIn(es, u, v) ==
    u \in {v, r} \/ v \notin Reach(VerticesOf(es) \ {u},
                                   {e \in es : u \notin {e[1], e[2]}})
ASSUME MCReducibleShapes ==
    \A es \in MCShapes : \E f \in [VerticesOf(es) -> 1..Cardinality(MCVertices)] :
        \A e \in es : f[e[1]] < f[e[2]] \/ DominatesIn(es, e[2], e[1])
\* Next, the invariants and FreshIds treat all ids but the entry alike, and a
\* graph counts only up to renaming.
Ids == Permutations(MCVertices \ {r})
=============================================================================
