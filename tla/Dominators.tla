----------------------------- MODULE Dominators -----------------------------
(***************************************************************************)
(* Immediate dominators as DGraph::computeIdom2 (com/sgraph.cpp) computes  *)
(* them from the list and the numbers that the edits of RPO have left,     *)
(* against the definition of dominance by paths. Nothing sorts the list or *)
(* recomputes the numbers before: both may be out of order.                *)
(***************************************************************************)
EXTENDS RPO

\* An idom-set is a partial function: VERTEX_UNDEF is to be outside its domain.
Undefined(idom, v) == v \notin DOMAIN idom

\* Of two vertices, the one with the larger number is replaced by its idom,
\* until they meet. They are left as they are when that one has no idom (an
\* assertion fails) or after more steps than there are pairs (it would go on
\* for ever).
RECURSIVE Climb(_, _, _, _)
Climb(idom, j, k, steps) ==
    IF j = k THEN {j}
    ELSE IF steps = 0 THEN {j, k}
    ELSE LET low  == IF rpo[j] > rpo[k] THEN j ELSE k
             high == IF rpo[j] > rpo[k] THEN k ELSE j
         IN  IF Undefined(idom, low) THEN {j, k}
             ELSE Climb(idom, idom[low], high, steps - 1)

MeetOneStep(idom, j, k) == Climb(idom, j, k, 1)

Meet(idom, j, k) == Climb(idom, j, k, Cardinality(vexs) * Cardinality(vexs))

\* What the predecessors that have an idom meet in: nothing, one vertex, or
\* two that do not meet.
ViaPreds(idom, preds) ==
    FoldLeft(LAMBDA met, p :
                 IF Undefined(idom, p) \/ Cardinality(met) > 1 THEN met
                 ELSE IF met = {} THEN {p}
                 ELSE Meet(idom, p, CHOOSE m \in met : TRUE),
             {}, preds)

\* One walk over the list; ins is the order of the in-edges.
computeIdomForFullGraph(start, ins) ==
    LET visit(idom, v) ==
            LET met == IF v = Entry THEN {v}
                       ELSE ViaPreds(idom, SelectSeq(ins,
                                LAMBDA p : p \in Preds(v)))
                dom == IF met = {} THEN DOMAIN idom \ {v}
                                   ELSE DOMAIN idom \cup {v}
            IN  [u \in dom |-> IF u = v THEN CHOOSE m \in met : TRUE
                                        ELSE idom[u]]
    IN  FoldLeft(visit, start, vlst)

\* Walks until nothing changes, or more often than a value can move up.
RECURSIVE Walks(_, _, _)
Walks(idom, ins, steps) ==
    LET next == computeIdomForFullGraph(idom, ins)
    IN  IF next = idom \/ steps = 0 THEN idom ELSE Walks(next, ins, steps - 1)

\* From the empty idom-set; the entry loses the idom it had during the walks.
computeIdom2(ins) ==
    LET idom == Walks(<<>>, ins, Cardinality(vexs) * Cardinality(vexs))
    IN  [v \in DOMAIN idom \ {Entry} |-> idom[v]]

-----------------------------------------------------------------------------
(* Properties *)

Dominators(v) == {u \in vexs \ {v} : Dominates(u, v)}

\* computeIdom2 does what sgraph.h says, in whatever order the in-edges are kept:
\* every block but the entry gets as idom the one that all its dominators
\* dominate.
IdomsRight ==
    Numbered => \A ins \in SetToSeqs(vexs) :
        LET idom == computeIdom2(ins)
        IN  /\ DOMAIN idom = vexs \ {Entry}
            /\ \A v \in vexs \ {Entry} :
                /\ idom[v] \in Dominators(v)
                /\ \A u \in Dominators(v) : Dominates(u, idom[v])

\* So it does whatever was inserted and removed since the last numbering, as
\* long as no trampoline edge was redirected.
IdomsRightUnlessRedirected == redirected \/ IdomsRight
=============================================================================
