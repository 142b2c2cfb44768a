------------------------------ MODULE LoopTree ------------------------------
(***************************************************************************)
(* The loop tree that ConstructLoopTree (opt/loop.h) builds from the graph *)
(* and its dominators: every back edge gives a natural loop, loops with    *)
(* one head are one loop that grows, and a loop is put into a tree of      *)
(* sibling lists by comparing its body with the bodies that are there.     *)
(* The bodies that are compared may still have to grow.                    *)
(*                                                                         *)
(* A loop is named by its head; lists[0] is the list of outermost loops,   *)
(* lists[h] the list of the loops right inside h.                          *)
(***************************************************************************)
EXTENDS CFGOpt
LOCAL INSTANCE SequencesExt

NoLoop == 0
InTree(forest) == DOMAIN forest.body
Owners(forest) == {NoLoop} \cup InTree(forest)

\* The loop whose list l is in.
OwnerOf(forest, l) ==
    CHOOSE a \in Owners(forest) : l \in ToSet(forest.lists[a])

\* Appends l to the list of a.
Add(forest, a, l) == [forest EXCEPT !.lists[a] = Append(@, l)]

RECURSIVE insertLoopTree(_, _, _), AmongSiblings(_, _, _, _)

\* Inserts l into the list of a, and hangs it there if it went no deeper.
Under(forest, a, l) ==
    LET in == insertLoopTree(forest, a, l)
    IN  [in EXCEPT !.outer[l] = IF @ = NoLoop THEN a ELSE @]

\* The siblings that l has not been compared with yet.
AmongSiblings(forest, a, l, siblings) ==
    IF siblings = <<>> THEN Add(forest, a, l)
    ELSE LET s == Head(siblings)
         IN  IF s = l THEN forest
             ELSE IF forest.body[l] \subseteq forest.body[s]
             THEN Under(forest, s, l)
             ELSE IF forest.body[s] \subseteq forest.body[l]
             THEN LET out == [forest EXCEPT !.lists[a] = Remove(@, s),
                                            !.outer[s] = NoLoop]
                  IN  AmongSiblings(Under(out, l, s), a, l, Tail(siblings))
             ELSE AmongSiblings(forest, a, l, Tail(siblings))

insertLoopTree(forest, a, l) ==
    IF forest.lists[a] = <<>> THEN Add(forest, a, l)
    ELSE AmongSiblings(forest, a, l, forest.lists[a])

removeLoopInfo(forest, l) ==
    [forest EXCEPT !.lists[OwnerOf(forest, l)] = Remove(@, l), !.outer[l] = NoLoop]

reinsertLoopTreeNot(forest, l) == forest   \* mutant: a grown loop stays where it is
reinsertLoopTree(forest, l) == insertLoopTree(removeLoopInfo(forest, l), NoLoop, l)

\* The blocks that reach x without going through y.
identifyNaturalLoop(E, x, y) ==
    {x, y} \cup IF x = y THEN {}
                ELSE Closure({<<e[2], e[1]>> : e \in {f \in E : f[2] # y}}, {x})

\* Edges to a dominator, by the order of their blocks in the text; the edges
\* of one block in either order.
BackEdges(E) == {e \in E : Dominates(E, e[2], e[1])}
InOrder(E, up) ==
    SetToSortSeq(BackEdges(E),
                 LAMBDA e, f : \/ e[1] < f[1]
                               \/ e[1] = f[1] /\ (IF up THEN e[2] < f[2] ELSE e[2] > f[2]))

\* One back edge: its loop grows, or is a new one.
HandleBackEdge(E, forest, e) ==
    LET h == e[2]
        loop == identifyNaturalLoop(E, e[1], h)
    IN  IF h \in InTree(forest)
        THEN reinsertLoopTree([forest EXCEPT !.body[h] = @ \cup loop], h)
        ELSE LET with(f, v) == [l \in DOMAIN f \cup {h} |-> IF l = h THEN v ELSE f[l]]
             IN  insertLoopTree([body |-> with(forest.body, loop),
                                 outer |-> with(forest.outer, NoLoop),
                                 lists |-> with(forest.lists, <<>>)], NoLoop, h)

NoLoops == [body |-> <<>>, outer |-> <<>>, lists |-> [a \in {NoLoop} |-> <<>>]]

construct(E, up) ==
    FoldLeft(LAMBDA forest, e : HandleBackEdge(E, forest, e), NoLoops, InOrder(E, up))

-----------------------------------------------------------------------------
\* What a loop tree is, in terms of the graph alone.
Heads(E) == {e[2] : e \in BackEdges(E)}
BodyOf(E, h) ==
    UNION {identifyNaturalLoop(E, e[1], h) : e \in {f \in BackEdges(E) : f[2] = h}}
InnermostAround(E, h) ==
    LET around == {g \in Heads(E) \ {h} : h \in BodyOf(E, g)}
    IN  {g \in around : \A k \in around : g \in BodyOf(E, k)}

\* Whenever no pass is in the middle of its work, the tree that a request for
\* LOOP_INFO builds (IRCFG::LoopAnalysis) nests the loops of the graph as their
\* final bodies do, each in one list, with the outer links saying the same.
LoopTreeNests ==
    pc \in {"optimized", "mark", "done"} => \A up \in BOOLEAN :
        LET forest == construct(edges, up)
        IN  /\ InTree(forest) = Heads(edges)
            /\ \A h \in Heads(edges) :
                  LET a == forest.outer[h]
                  IN  /\ forest.body[h] = BodyOf(edges, h)
                      /\ {a} \ {NoLoop} = InnermostAround(edges, h)
                      /\ \A k \in Owners(forest) :
                            Len(SelectSeq(forest.lists[k], LAMBDA l : l = h))
                                = IF k = a THEN 1 ELSE 0
=============================================================================
