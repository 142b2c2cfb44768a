-------------------------------- MODULE RPO --------------------------------
(***************************************************************************)
(* Reverse postorder (RPO) numbers of the blocks of a CFG: computed by a   *)
(* depth-first search that leaves a gap between two numbers (com/rpo.cpp), *)
(* then kept while passes insert and remove blocks: a new block takes a    *)
(* free number between those of its neighbours, or the numbering is given  *)
(* up and marked invalid (opt/ir_cfg.cpp, opt/loop.cpp, opt/optcfg.h).     *)
(*                                                                         *)
(* A block is its vertex. Block contents, the order of the out-edges of a  *)
(* vertex and the order of the block list are abstracted to choices.       *)
(***************************************************************************)
EXTENDS Integers, Sequences, FiniteSets, SequencesExt

CONSTANTS
    Vertices,      \* the vertex ids; an edit needs a free one (the bound)
    Entry,         \* the entry of the CFG
    Shapes,        \* edge sets of the CFGs to begin with
    RPO_INTERVAL,  \* the gap between two numbers of a fresh numbering: 10
    Builds,        \* TRUE for a debug build, FALSE for a release build
    MaxMarks       \* verifyDom runs with no more numbers in use (a bound)

RPO_UNDEF == -1

VARIABLES
    vexs, edges,   \* the graph
    rpo,           \* Vertex::m_rpo
    used,          \* RPOMgr::m_used_rpo, the numbers taken inside a gap
    vlst,          \* CFG::m_rpo_vexlst
    valid,         \* OptCtx says that PASS_RPO is valid
    stk,           \* computeRPO's stack, top first; empty when not running
    order,         \* the list computeRPO is building
    verifying,     \* it was called by verifyDom
    debug,         \* assertions are checked, and a failed one
    failed,        \* has stopped the compiler
    redirected     \* history: a trampoline edge was redirected

search == <<stk, order, verifying>>
vars == <<vexs, edges, rpo, used, vlst, valid, search, debug, failed, redirected>>

-----------------------------------------------------------------------------
(* The graph *)

Preds(v) == {u \in vexs : <<u, v>> \in edges}
Succs(v) == {w \in vexs : <<v, w>> \in edges}

VerticesOf(es) == {Entry} \cup {e[1] : e \in es} \cup {e[2] : e \in es}

Closed(S, es) == \A e \in es : e[1] \in S => e[2] \in S

\* What the entry reaches: the least set that holds it and is closed.
Reach(vs, es) ==
    {v \in vs : \A S \in SUBSET vs : Entry \in S /\ Closed(S, es) => v \in S}

\* u is on every path from the entry to v.
Dominates(u, v) ==
    \/ u = v
    \/ u = Entry
    \/ v \notin Reach(vexs \ {u}, {e \in edges : u \notin {e[1], e[2]}})

ASSUME RPOAssumption ==
    /\ IsFiniteSet(Vertices)
    /\ Entry \in Vertices
    /\ RPO_INTERVAL \in Nat /\ RPO_INTERVAL > 1
    /\ Builds \subseteq BOOLEAN
    /\ MaxMarks \in Nat
    /\ \A es \in Shapes :
        /\ es \subseteq Vertices \X (Vertices \ {Entry})
        /\ Reach(VerticesOf(es), es) = VerticesOf(es)

\* Nothing reads the numbers and the list of an invalid numbering, and the next
\* search starts from nothing: the model forgets them.
Forget ==
    /\ valid' = FALSE
    /\ rpo' = [v \in Vertices |-> RPO_UNDEF]
    /\ used' = {}
    /\ vlst' = <<>>

-----------------------------------------------------------------------------
(* Numbering: one depth-first search. A vertex is on the stack once and in *)
(* the list after that, so is_visited is what either holds.                *)

Idle == stk = <<>> /\ ~failed

Visited == ToSet(stk) \cup ToSet(order)

\* checkValidAndRecompute(PASS_RPO) on an invalid numbering.
computeRPO ==
    /\ Idle /\ ~valid
    /\ stk' = <<Entry>>
    /\ used' = {}
    /\ verifying' = FALSE
    /\ UNCHANGED <<vexs, edges, rpo, vlst, valid, order, debug, failed, redirected>>

\* In a debug build, to verify dominators numbers the same vertices again, but
\* with a list and a set of used numbers of its own.
verifyDom ==
    /\ debug
    /\ Idle /\ valid
    /\ Cardinality(used) <= MaxMarks
    /\ stk' = <<Entry>>
    /\ verifying' = TRUE
    /\ UNCHANGED <<vexs, edges, rpo, used, vlst, valid, order, debug, failed,
                   redirected>>

VisitKid ==
    /\ stk # <<>>
    /\ \E w \in Succs(Head(stk)) \ Visited : stk' = <<w>> \o stk
    /\ UNCHANGED <<vexs, edges, rpo, used, vlst, valid, order, verifying, debug,
                   failed, redirected>>

\* No unvisited successor: number the top. The search ends with the entry,
\* whose number must then be 0.
LeaveVertex ==
    /\ stk # <<>>
    /\ Succs(Head(stk)) \subseteq Visited
    /\ LET v      == Head(stk)
           number == (Cardinality(vexs) - Len(order) - 1) * RPO_INTERVAL
           listed == <<v>> \o order
           done   == Tail(stk) = <<>>
       IN /\ stk' = Tail(stk)
          /\ rpo' = [rpo EXCEPT ![v] = number]
          /\ order' = IF done THEN <<>> ELSE listed
          /\ valid' = (valid \/ done)
          /\ vlst' = IF done /\ ~verifying THEN listed ELSE vlst
          /\ failed' = (debug /\ done /\ number # 0)
    /\ UNCHANGED <<vexs, edges, used, verifying, debug, redirected>>

-----------------------------------------------------------------------------
(* Finding a number. Division is that of C, towards zero: the entry may    *)
(* end up with a negative number when assertions are off.                  *)

Quotient(n, d) == IF n >= 0 THEN n \div d ELSE -((-n) \div d)

computeNearestLessUnUsableRPO(r) == Quotient(r, RPO_INTERVAL) * RPO_INTERVAL

computeNearestGreaterUnUsableRPO(r) ==
    (Quotient(r, RPO_INTERVAL) + (IF r % RPO_INTERVAL # 0 THEN 1 ELSE 0))
        * RPO_INTERVAL

isUsableRPOForgetsUsed(r) == r # RPO_UNDEF /\ r % RPO_INTERVAL # 0

isUsableRPO(r) == r # RPO_UNDEF /\ r % RPO_INTERVAL # 0 /\ r \notin used

\* Where to look between begin and end: the larger of the two broken gaps at
\* the ends when they are far apart.
SearchRange(begin, end) ==
    LET up   == computeNearestGreaterUnUsableRPO(begin) - 1
        down == computeNearestLessUnUsableRPO(end) + 1
    IN  IF end - begin <= RPO_INTERVAL THEN <<begin, end>>
        ELSE IF up - begin > end - down THEN <<begin, up>> ELSE <<down, end>>

\* The assertions of tryFindUsableRPO: both broken gaps have a number in them,
\* and what is searched is inside one gap.
RangeAsserted(begin, end) ==
    /\ begin > RPO_UNDEF
    /\ end - begin > RPO_INTERVAL =>
        /\ begin < computeNearestGreaterUnUsableRPO(begin)
        /\ end > computeNearestLessUnUsableRPO(end)
    /\ LET range == SearchRange(begin, end)
       IN  computeNearestGreaterUnUsableRPO(range[2])
               <= computeNearestLessUnUsableRPO(range[1]) + RPO_INTERVAL

\* The middle of the range, else a third into it, and so on.
tryFindUsableRPO(begin, end) ==
    LET range  == SearchRange(begin, end)
        cand(d) == range[1] + Quotient(range[2] - range[1], d)
        first(d) == /\ isUsableRPO(cand(d))
                    /\ \A c \in 2..(d - 1) : ~isUsableRPO(cand(c))
    IN  IF \E d \in 2..RPO_INTERVAL : first(d)
        THEN cand(CHOOSE d \in 2..RPO_INTERVAL : first(d))
        ELSE RPO_UNDEF

\* What numbering a new vertex next to a marker comes to: the number found,
\* whether the marker takes it and gives its own to the new vertex, and
\* whether the assertions on the way hold.
Outcome(found, swap, ok) == [found |-> found, swap |-> swap, ok |-> ok]

SearchBetween(begin, end) ==
    Outcome(tryFindUsableRPO(begin, end), FALSE, RangeAsserted(begin, end))

compRPOIfVexPriorMarker(marker) ==
    LET preds == {rpo[p] : p \in Preds(marker) \ {marker}}
        begin == IF preds = {}
                 THEN computeNearestGreaterUnUsableRPO(rpo[marker])
                          - RPO_INTERVAL
                 ELSE Max(preds) + 1
        end   == rpo[marker] - 1
    IN  IF begin > end THEN Outcome(RPO_UNDEF, FALSE, TRUE)
        ELSE SearchBetween(begin, end)

\* The marker moves down, the new vertex gets its number. Only for a marker
\* whose one successor is behind it: a latch.
compRPOIfMarkerPriorVexCase1(marker) ==
    LET down == compRPOIfVexPriorMarker(marker)
    IN  Outcome(down.found, TRUE,
                down.ok /\ \A s \in Succs(marker) : rpo[s] < rpo[marker])

compRPOIfMarkerPriorLastVex(marker) ==
    LET succs == {rpo[s] : s \in Succs(marker) \ {marker}}
        begin == rpo[marker] + 1
        end   == IF succs = {} THEN begin + RPO_INTERVAL - 1 ELSE Max(succs) - 1
    IN  IF begin <= end THEN SearchBetween(begin, end)
        ELSE Outcome(RPO_UNDEF, FALSE, TRUE)

compRPOIfMarkerPriorVex(marker) ==
    LET succs == {rpo[s] : s \in Succs(marker) \ {marker}}
        begin == rpo[marker] + 1
        end   == IF succs = {}
                 THEN computeNearestLessUnUsableRPO(rpo[marker])
                          + RPO_INTERVAL
                 ELSE Min(succs) - 1
    IN  IF begin <= end THEN SearchBetween(begin, end)
        ELSE IF Cardinality(Succs(marker)) = 1
        THEN compRPOIfMarkerPriorVexCase1(marker)
        ELSE Outcome(RPO_UNDEF, FALSE, TRUE)

-----------------------------------------------------------------------------
(* Inserting a block *)

Position(v) == CHOOSE i \in 1..Len(vlst) : vlst[i] = v

PlaceAfter(new, marker, prior, n) ==
    /\ rpo' = [rpo EXCEPT
                 ![new]    = IF n.swap THEN rpo[marker] ELSE n.found,
                 ![marker] = IF n.swap THEN n.found ELSE rpo[marker]]
    /\ used' = used \cup {n.found}
    /\ vlst' = InsertAt(vlst, Position(marker) + 1, new)
    /\ UNCHANGED valid

\* tryUpdateRPO: number the new vertex and list it next to the marker.
Place(new, marker, prior, n) ==
    /\ rpo' = [rpo EXCEPT
                 ![new]    = IF n.swap THEN rpo[marker] ELSE n.found,
                 ![marker] = IF n.swap THEN n.found ELSE rpo[marker]]
    /\ used' = used \cup {n.found}
    /\ vlst' = InsertAt(vlst, Position(marker) + (IF prior THEN 0 ELSE 1), new)
    /\ UNCHANGED valid

\* tryUpdateRPOBeforeCFGChanged: the number is found before the edges change.
\* Without a valid numbering, or a free number, the numbering is given up.
Insert(new, marker, prior, n, es) ==
    /\ Idle
    /\ IF debug /\ valid /\ ~n.ok
       THEN failed' = TRUE /\ UNCHANGED <<vexs, edges, rpo, used, vlst, valid>>
       ELSE /\ vexs' = vexs \cup {new}
            /\ edges' = es
            /\ IF valid /\ n.found # RPO_UNDEF
               THEN Place(new, marker, prior, n)
               ELSE Forget
            /\ UNCHANGED failed
    /\ UNCHANGED <<search, debug, redirected>>

FreshIds == Vertices \ vexs

\* A block in front of v that takes over the given in-edges of v.
InFrontOf(v, new, preds) ==
    (edges \ (preds \X {v})) \cup (preds \X {new}) \cup {<<new, v>>}

\* insertBBBefore after an update of the numbering: the stub of register
\* promotion before a loop exit, the start of a guard.
insertBBBefore(v) ==
    /\ v # Entry
    /\ \E new \in FreshIds :
        Insert(new, v, TRUE, compRPOIfVexPriorMarker(v),
               InFrontOf(v, new, Preds(v)))

\* insertPreheader: only the edges that enter the loop move. An inner edge
\* comes from a block that the head dominates.
insertPreheader(head) ==
    LET inside == {p \in Preds(head) : Dominates(head, p)}
    IN  /\ head # Entry
        /\ inside # {} /\ Preds(head) \ inside # {}
        /\ \E new \in FreshIds :
            Insert(new, head, TRUE, compRPOIfVexPriorMarker(head),
                   InFrontOf(head, new, Preds(head) \ inside))

\* insertFallThroughBBAfter, changeFallthroughBBToJumpBB, insertGuardEnd: a
\* block on the edge from the marker to next.
insertBBAfter(marker, next) ==
    /\ next \in Succs(marker)
    /\ \E new \in FreshIds :
        Insert(new, marker, FALSE, compRPOIfMarkerPriorVex(marker),
               (edges \ {<<marker, next>>})
                   \cup {<<marker, new>>, <<new, next>>})

-----------------------------------------------------------------------------
(* Other changes *)

\* What stays in a list keeps its order.
Without(list, gone) ==
    LET upto[i \in 0..Len(list)] ==
            IF i = 0 THEN <<>>
            ELSE IF list[i] \in gone THEN upto[i - 1]
            ELSE Append(upto[i - 1], list[i])
    IN  upto[Len(list)]

RemoveVerticesKeeping(gone) ==
    /\ vexs' = vexs \ gone
    /\ rpo' = [v \in Vertices |-> IF v \in gone THEN RPO_UNDEF ELSE rpo[v]]
    /\ vlst' = Without(vlst, gone)
    /\ UNCHANGED used

\* removeRPO for a set of vertices that leave the graph.
RemoveVertices(gone) ==
    /\ vexs' = vexs \ gone
    /\ used' = used \ {rpo[v] : v \in gone}
    /\ rpo' = [v \in Vertices |-> IF v \in gone THEN RPO_UNDEF ELSE rpo[v]]
    /\ vlst' = Without(vlst, gone)

\* removeEmptyBB: the predecessors lead to the one successor.
removeEmptyBB(v) ==
    /\ Idle
    /\ v # Entry
    /\ \E s \in Succs(v) \ {v} :
        /\ Succs(v) = {s}
        /\ edges' = {e \in edges : v \notin {e[1], e[2]}}
                        \cup (Preds(v) \X {s})
    /\ RemoveVertices({v})
    /\ UNCHANGED <<valid, search, debug, failed, redirected>>

\* removeRedundantBranch takes an edge out, then removeUnreachBB.
removeRedundantBranch(u, w) ==
    /\ Idle
    /\ w \in Succs(u) /\ Succs(u) # {w}
    /\ LET es   == edges \ {<<u, w>>}
           keep == Reach(vexs, es)
       IN /\ edges' = {e \in es : e[1] \in keep}
          /\ RemoveVertices(vexs \ keep)
    /\ UNCHANGED <<valid, search, debug, failed, redirected>>

\* removeTrampolinEdge: p jumps to where the trampoline b jumps. When nothing
\* else leads to b, the next removeUnreachBB removes it; a p that only led to b
\* makes everything invalid then, a conditional branch leaves the numbering.
removeTrampolinEdge(p, b) ==
    /\ Idle
    /\ p \in Preds(b) \ {b}
    /\ Cardinality(Succs(p)) <= 2
    /\ \E s \in Succs(b) \ {b} :
        /\ Succs(b) = {s}
        /\ IF Preds(b) = {p}
           THEN /\ edges' = {e \in edges : b \notin {e[1], e[2]}} \cup {<<p, s>>}
                /\ IF Succs(p) = {b}
                   THEN vexs' = vexs \ {b} /\ Forget
                   ELSE RemoveVertices({b}) /\ UNCHANGED valid
           ELSE /\ edges' = (edges \ {<<p, b>>}) \cup {<<p, s>>}
                /\ UNCHANGED <<vexs, rpo, used, vlst, valid>>
    /\ redirected' = TRUE
    /\ UNCHANGED <<search, debug, failed>>

\* insertGuard: the guard jumps over the guarded block v.
addJumpEdge(u, v, w) ==
    /\ Idle /\ valid
    /\ Succs(u) = {v} /\ Preds(v) = {u} /\ Succs(v) = {w} /\ w # u
    /\ edges' = edges \cup {<<u, w>>}
    /\ UNCHANGED <<vexs, rpo, used, vlst, valid, search, debug, failed, redirected>>

\* Any other pass that changes the CFG: setInvalidIfCFGChanged.
setInvalidRPO ==
    /\ Idle /\ valid
    /\ Forget
    /\ UNCHANGED <<vexs, edges, search, debug, failed, redirected>>

-----------------------------------------------------------------------------
Init ==
    /\ edges \in Shapes
    /\ vexs = VerticesOf(edges)
    /\ rpo = [v \in Vertices |-> RPO_UNDEF]
    /\ used = {}
    /\ vlst = <<>>
    /\ valid = FALSE
    /\ stk = <<>> /\ order = <<>> /\ verifying = FALSE
    /\ debug \in Builds /\ failed = FALSE
    /\ redirected = FALSE

Next ==
    \/ computeRPO \/ verifyDom \/ VisitKid \/ LeaveVertex
    \/ setInvalidRPO
    \/ \E v \in vexs : insertBBBefore(v) \/ insertPreheader(v) \/ removeEmptyBB(v)
    \/ \E v, w \in vexs :
        \/ insertBBAfter(v, w)
        \/ removeRedundantBranch(v, w)
        \/ removeTrampolinEdge(v, w)
    \/ \E u, v, w \in vexs : addJumpEdge(u, v, w)

Spec == Init /\ [][Next]_vars

-----------------------------------------------------------------------------
(* Properties *)

TypeOK ==
    /\ vexs \subseteq Vertices /\ Entry \in vexs
    /\ edges \subseteq vexs \X vexs
    /\ rpo \in [Vertices -> Int] /\ used \subseteq Int
    /\ vlst \in Seq(vexs) /\ stk \in Seq(vexs) /\ order \in Seq(vexs)
    /\ {valid, verifying, debug, failed, redirected} \subseteq BOOLEAN

\* Between two edits with a valid numbering.
Numbered == Idle /\ valid

\* verifyRPOUniqueness: under a valid numbering every block has a number and no
\* two blocks share one, whatever was inserted, removed and given back.
NumbersUnique ==
    Numbered => \A u, v \in vexs :
        /\ rpo[u] # RPO_UNDEF
        /\ rpo[u] = rpo[v] => u = v

\* The numbers that blocks have inside the gaps are marked as used. In a release
\* build no other is, whatever was inserted and removed; verifyDom leaves marks
\* behind without taking them back.
UsedIsTaken ==
    Numbered =>
        LET taken == {rpo[v] : v \in {w \in vexs : rpo[w] % RPO_INTERVAL # 0}}
        IN  taken \subseteq used /\ (~debug => used = taken)

\* An edge that does not go up in the numbering closes a loop: its target
\* dominates its source. Iterations in this order rely on it. The redirection
\* of trampoline edges may break it until the next numbering.
DownEdgesCloseLoops ==
    Numbered => \A e \in edges :
        rpo[e[1]] < rpo[e[2]] \/ Dominates(e[2], e[1])

DownEdgesCloseLoopsUnlessRedirected == redirected \/ DownEdgesCloseLoops

\* The list that the solvers walk holds every block once (verifyRPO compares
\* the lengths), and every block comes after one of its predecessors, so that
\* one walk gives a value to every block.
ListLeadsTo ==
    Numbered =>
        /\ Len(vlst) = Cardinality(vexs) /\ ToSet(vlst) = vexs
        /\ \/ redirected
           \/ \A i \in 1..Len(vlst) : vlst[i] # Entry =>
                \E j \in 1..(i - 1) : vlst[j] \in Preds(vlst[i])

\* No assertion of the numbering fails.
NoAssertFails == ~failed
=============================================================================
