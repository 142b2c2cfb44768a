------------------------------- MODULE CFGOpt -------------------------------
(***************************************************************************)
(* The CFG optimizations of IRCFG (opt/ir_cfg.cpp, opt/optcfg.h) and the   *)
(* two loops that drive them: refineCFG, when the graph has been built,    *)
(* and performMiscOpt, which the passes call.  A pass changes three things *)
(* that have to stay in step: the statements of the blocks, their order in *)
(* the text, which decides where a block without a branch goes on, and the *)
(* edges of the graph.                                                     *)
(*                                                                         *)
(* Blocks are numbered in text order, block 1 is the entry: the passes     *)
(* remove blocks and never insert or move one.  A block has at most one    *)
(* ordinary statement in front of its branch.  Programs use one variable.  *)
(***************************************************************************)
EXTENDS Naturals, Sequences, FiniteSets

CONSTANTS N,            \* number of blocks of the program
          Programs,     \* the programs: [body |-> ..., term |-> ...]
          RefineBound,  \* 20: rounds of refineCFG
          MiscBound     \* 1000: rounds of performMiscOpt

Block == 1 .. N
Entry == 1
NoBlock == 0

\* out and use are observable, use and the conditions read the variable.
Stmt == {"none", "out", "use", "set", "clr"}
CondBr == {"truebr", "falsebr"}
Branch == CondBr \cup {"goto", "switch"}
Term == [op : Branch \cup {"none", "return"}, cond : {"x", "true", "false"},
         to : 0 .. N]
Plain == [op |-> "none", cond |-> "x", to |-> NoBlock]
Goto(t) == [op |-> "goto", cond |-> "x", to |-> t]
LedTo(t, b) == [t EXCEPT !.to = b]
Inverted(t) == [t EXCEPT !.op = IF t.op = "truebr" THEN "falsebr" ELSE "truebr"]

ASSUME NAssumption == N \in Nat \ {0}
ASSUME ProgramsAssumption ==
    \A p \in Programs : /\ p.body \in [Block -> Stmt]
                        /\ p.term \in [Block -> Term]
                        /\ \A b \in Block : p.term[b].op \in Branch =>
                                                p.term[b].to \in Block
ASSUME BoundsAssumption == RefineBound \in Nat /\ MiscBound \in Nat

Analyses == {"rpo", "dom", "pdom", "cdg"}

VARIABLES
    bbs,      \* the blocks that are left, BBList
    body,     \* their statements
    term,
    edges,    \* the graph
    labels,   \* number of labels attached to each block
    exits,    \* the blocks with the flag is_exit
    valid,    \* the valid analyses, OptCtx
    rpo,      \* the numbering that was computed last
    pc,       \* the optimization under way
    at,       \* the last block it has dealt with
    by,       \* the driver under way
    unreach,  \* CfgOptCtx: has_generate_unreach_bb
    res, lchange, change,  \* this optimization, round, call has changed something
    count,    \* rounds
    strayed   \* history: a block lost a goto that is not to the next block

program == <<bbs, body, term, edges, labels>>
driver == <<by, unreach, lchange, change, count>>
cfgVars == <<program, exits, valid, rpo, pc, at, driver, res, strayed>>
-----------------------------------------------------------------------------
\* The text.
NextIn(B, b) == IF \E c \in B : c > b
                THEN CHOOSE c \in B : c > b /\ \A d \in B : d > b => c <= d
                ELSE NoBlock
NextOf(b) == NextIn(bbs, b)

IsBranch(b) == term[b].op \in Branch
Targets == {term[b].to : b \in {c \in bbs : IsBranch(c)}}
isEmptyBB(b) == body[b] = "none" /\ term[b].op = "none"
NumOfIR(b) == IF isEmptyBB(b) THEN 0
              ELSE IF body[b] = "none" \/ term[b].op = "none" THEN 1 ELSE 2

\* Where control goes from block b, by its last statement.
Goes(B, tm, b) ==
    LET next == {NextIn(B, b)} \ {NoBlock}
    IN  CASE tm[b].op = "return" -> {}
          [] tm[b].op = "goto" -> {tm[b].to}
          [] tm[b].op = "none" -> next
          [] OTHER -> {tm[b].to} \cup next

\* The graph.
Preds(b) == {e[1] : e \in {f \in edges : f[2] = b}}
Succs(b) == {e[2] : e \in {f \in edges : f[1] = b}}
Within(E, B) == {e \in E : e[1] \in B /\ e[2] \in B}

Closure(E, from) ==
    LET reach[n \in Nat] ==
            IF n = 0 THEN from
            ELSE LET r == reach[n - 1]
                 IN  r \cup {e[2] : e \in {f \in E : f[1] \in r}}
    IN  reach[N]
Without(E, b) == {e \in E : e[1] # b /\ e[2] # b}

\* A reverse postorder, up to the order of unrelated blocks: each block gets
\* the number of blocks that lead to it without an edge into a dominator.
Dominates(E, a, b) ==
    a = b \/ (a = Entry \/ b \notin Closure(Without(E, a), {Entry}))
RPOOf(B, E) ==
    LET down == {e \in E : ~Dominates(E, e[2], e[1])}
        up == {<<e[2], e[1]>> : e \in down}
    IN  [b \in Block |-> IF b \in B THEN Cardinality(Closure(up, {b})) ELSE 0]

ExitsOf(B, E) == {b \in B : \A e \in E : e[1] # b}

\* setInvalidIfCFGChanged
CFGChanged == {}
\* setInvalidIfCFGChangedExcept(DOM, RPO)
CFGChangedKeepsCDG(V) == V \ {"pdom"}   \* mutant: CDG is not in the list
CFGChangedExcept(V) == V \ {"pdom", "cdg"}
\* removeEdge and addEdge revise DomInfo on the fly while it is valid, and
\* give up PDOM
EdgeEdited(V) == IF "dom" \in V THEN V \ {"pdom"} ELSE V
\* Several passes begin by asking for RPO when they will update DomInfo.
RPOWanted == "dom" \in valid /\ "rpo" \notin valid
WithRPO == IF RPOWanted THEN valid \cup {"rpo"} ELSE valid
RPONow == IF RPOWanted THEN RPOOf(bbs, edges) ELSE rpo
-----------------------------------------------------------------------------
\* The drivers: which optimization comes next.
After(p) ==
    CASE p = "unreach" -> IF by = "refineCFG" THEN "empty" ELSE "label"
      [] p = "label" -> "empty"
      [] p = "empty" -> CASE by = "refineCFG" -> "trampEdge"
                          [] by = "performMiscOpt" -> "branch"
                          [] OTHER -> "refine"
      [] p = "branch" -> "trampEdge"
      [] p = "trampEdge" -> IF by = "refineCFG" THEN "trampBB" ELSE "trampBranch"
      [] p = "trampBB" -> "trampBranch"
      [] p = "trampBranch" -> "again"

\* The end of optimization pc, r: it has changed something.
Done(r) ==
    /\ lchange' = (lchange \/ r)
    /\ pc' = IF r /\ pc \in {"branch", "trampEdge", "trampBB"} THEN "again" ELSE After(pc)
    /\ exits' = IF by = "initCFG" \/ (by = "refineCFG" /\ r)
                THEN ExitsOf(bbs', edges') ELSE exits \cap bbs'
    /\ at' = 0
    /\ res' = FALSE
    /\ UNCHANGED <<by, unreach, change, count, strayed>>

\* The visit of block b changed something, the walk goes on behind it.
Visited(b) ==
    /\ at' = b
    /\ res' = TRUE
    /\ exits' = exits \cap bbs'
    /\ UNCHANGED <<pc, by, unreach, lchange, change, count>>

\* The first block behind the last visited one that P holds of.
FirstLeft(P) == {b \in bbs : b > at /\ b \in P /\ \A c \in P : c > at => b <= c}

\* The blocks that the edges lead to from the entry.
Closed(S) == Entry \in S /\ \A e \in edges : e[1] \in S => e[2] \in S
Reached == {b \in bbs : \A S \in SUBSET bbs : Closed(S) => b \in S}

removeUnreachBB ==
    /\ pc = "unreach"
    /\ LET found == bbs \ Reached # {}
       IN  /\ bbs' = Reached
           /\ edges' = Within(edges, Reached)
           /\ valid' = IF ~found THEN valid  \* setOptCtx clears the caller's flag
                       ELSE valid \ (IF by = "refineCFG" THEN {"dom"}
                                     ELSE {"dom", "cdg"})
           /\ UNCHANGED <<body, term, labels, rpo>>
           /\ Done(found)

removeRedundantLabel ==
    /\ pc = "label"
    /\ labels' = [b \in Block |-> IF b \in Targets THEN 1 ELSE 0]
    /\ UNCHANGED <<bbs, body, term, edges, valid, rpo>>
    /\ Done(\E b \in bbs : labels'[b] # labels[b])

-----------------------------------------------------------------------------
(* removeEmptyBB.  With CFG not valid yet only an empty last block goes.   *)
HasNextBB(b) == NextOf(b) # NoBlock
RemovableEmpty ==
    {b \in bbs \ {Entry} : /\ isEmptyBB(b)
                           /\ b \notin exits
                           /\ IF HasNextBB(b) THEN by = "performMiscOpt"
                              ELSE labels[b] = 0}

removeEmptyBBHelperNoMove(b) ==   \* mutant: the labels go with the block
    LET n == NextOf(b)
    IN  /\ bbs' = bbs \ {b}
        /\ edges' = Without(edges, b) \cup
                        (IF n = NoBlock THEN {} ELSE {<<p, n>> : p \in Preds(b)})
        /\ labels' = [labels EXCEPT ![b] = 0]
        /\ UNCHANGED <<body, term>>

\* Labels move to the next block, its predecessors become those of b.
removeEmptyBBHelper(b) ==
    LET n == NextOf(b)
    IN  /\ bbs' = bbs \ {b}
        /\ edges' = Without(edges, b) \cup
                        (IF n = NoBlock THEN {} ELSE {<<p, n>> : p \in Preds(b)})
        /\ term' = [c \in Block |-> IF IsBranch(c) /\ term[c].to = b
                                    THEN LedTo(term[c], n) ELSE term[c]]
        /\ labels' = IF n = NoBlock THEN labels
                     ELSE [labels EXCEPT ![n] = @ + labels[b], ![b] = 0]
        /\ UNCHANGED body

removeEmptyBB ==
    /\ pc = "empty"
    /\ rpo' = RPONow
    /\ \/ \E b \in FirstLeft(RemovableEmpty) :
              /\ removeEmptyBBHelper(b)
              /\ valid' = EdgeEdited(WithRPO)
              /\ Visited(b)
              /\ UNCHANGED strayed
       \/ /\ FirstLeft(RemovableEmpty) = {}
          /\ valid' = IF res /\ by = "performMiscOpt" THEN CFGChangedExcept(WithRPO)
                      ELSE WithRPO
          /\ UNCHANGED program
          /\ Done(res)

-----------------------------------------------------------------------------
(* removeRedundantBranch: first branches to the next block, then branches  *)
(* with a constant condition.  The blocks do not influence each other.     *)
ToNext(b) == \/ term[b].op \in CondBr /\ NextOf(b) # NoBlock /\ Succs(b) = {NextOf(b)}
             \/ term[b].op = "goto" /\ term[b].to = NextOf(b)
AlwaysTaken(t) == \/ t.op = "truebr" /\ t.cond = "true"
                  \/ t.op = "falsebr" /\ t.cond = "false"
NeverTaken(t) == \/ t.op = "truebr" /\ t.cond = "false"
                 \/ t.op = "falsebr" /\ t.cond = "true"

removeRedundantBranch ==
    /\ pc = "branch"
    /\ LET next == {b \in bbs : ToNext(b)}
           taken == {b \in bbs \ next : AlwaysTaken(term[b])}
           never == {b \in bbs \ next : NeverTaken(term[b])}
           cut == {<<b, NextOf(b)>> : b \in taken}
                      \cup {e \in edges : e[1] \in never /\ e[2] # NextOf(e[1])}
       IN  /\ term' = [b \in Block |-> CASE b \in next \cup never -> Plain
                                         [] b \in taken -> Goto(term[b].to)
                                         [] OTHER -> term[b]]
           /\ edges' = edges \ cut
           /\ valid' = IF cut = {} THEN WithRPO ELSE EdgeEdited(WithRPO)
           /\ rpo' = RPONow
           /\ UNCHANGED <<bbs, body, labels>>
           /\ Done(next \cup taken \cup never # {})

-----------------------------------------------------------------------------
(* removeTrampolinEdge: a block that only jumps on is passed by.           *)
IsTrampoline(b) == NumOfIR(b) = 1 /\ term[b].op = "goto"
\* Case1: the goto leads to the next block, which nobody else leads to.
Case1(b) == term[b].to = NextOf(b) /\ Cardinality(Preds(term[b].to)) <= 1
\* Case2: the predecessors that can be led past b.
FallsInto(p) == NumOfIR(p) # 0 /\ term[p].op = "none"            \* Case2_1
JumpsTo(p) == term[p].op = "goto"                                \* Case2_2
BranchesTo(p, b) == term[p].op \in CondBr /\ NextOf(p) # b       \* Case2_3
RedirectableSelf(b) ==   \* mutant: no check for a jump to itself
    {p \in Preds(b) \ {b} : FallsInto(p) \/ JumpsTo(p) \/ BranchesTo(p, b)}
Redirectable(b) ==
    IF term[b].to = b THEN {}
    ELSE {p \in Preds(b) \ {b} : FallsInto(p) \/ JumpsTo(p) \/ BranchesTo(p, b)}

PassedBy ==
    {b \in bbs : IsTrampoline(b) /\ (Case1(b) \/ Redirectable(b) # {})}

removeTrampolinEdgeCase1(b) ==
    /\ Case1(b)
    /\ term' = [term EXCEPT ![b] = Plain]
    /\ UNCHANGED <<bbs, body, edges, labels, unreach>>
    /\ valid' = WithRPO

\* last: the predecessor that is redirected last.
removeTrampolinEdgeCase2(b) ==
    /\ ~Case1(b)
    /\ LET s == term[b].to
           ps == Redirectable(b)
           conds == {p \in ps : term[p].op \in CondBr}
       IN  \E last \in ps :
             LET lost == Preds(b) = ps /\ last \notin conds
             IN  /\ term' = [p \in Block |->
                                CASE p \in conds -> LedTo(term[p], s)
                                  [] p \in ps \ conds -> Goto(s)
                                  [] OTHER -> term[p]]
                 /\ edges' = (edges \ {<<p, b>> : p \in ps})
                                \cup {<<p, s>> : p \in ps}
                 /\ unreach' = (unreach \/ lost)
                 /\ valid' = IF lost THEN CFGChanged
                             ELSE IF conds = {} THEN EdgeEdited(WithRPO)
                             ELSE CFGChangedExcept(WithRPO)
    /\ UNCHANGED <<bbs, body, labels>>

\* Once a block has become unreachable the walk ends at every change, also
\* in the later rounds of this driver: the flag is never reset.
removeTrampolinEdge ==
    /\ pc = "trampEdge"
    /\ rpo' = RPONow
    /\ \/ \E b \in FirstLeft(PassedBy) :
              /\ removeTrampolinEdgeCase1(b) \/ removeTrampolinEdgeCase2(b)
              /\ res' = TRUE
              /\ at' = IF unreach' THEN N ELSE b
              /\ exits' = exits \cap bbs'
              /\ UNCHANGED <<pc, by, lchange, change, count, strayed>>
       \/ /\ FirstLeft(PassedBy) = {}
          /\ valid' = WithRPO
          /\ UNCHANGED program
          /\ Done(res)

-----------------------------------------------------------------------------
(* removeTrampolinBB would remove a block that only jumps to the next one, *)
(* where nobody else leads.  That is Case1 of removeTrampolinEdge, which   *)
(* refineCFG runs first and after which it starts over if anything         *)
(* changed: no such block is left, and the walk over the blocks finds      *)
(* nothing (TrampolinesGone).                                              *)
TrampolinBBs == {b \in bbs : IsTrampoline(b) /\ Case1(b)}

removeTrampolinBB ==
    /\ pc = "trampBB"
    /\ UNCHANGED <<program, valid, rpo>>
    /\ Done(FALSE)

-----------------------------------------------------------------------------
(* removeTrampolinBranch: bb branches over the block that only jumps on,   *)
(* next; with the condition inverted bb takes over the jump.               *)
BranchesOver ==
    {b \in bbs : LET n == NextOf(b) IN
        /\ term[b].op \in CondBr
        /\ n # NoBlock
        /\ body[n] = "none" /\ term[n].op = "goto"
        /\ NextOf(n) # NoBlock /\ term[b].to = NextOf(n)}

\* Another branch, which can only be a switch by now, leads to the jump.
LeadsAstray(b) == LET n == NextOf(b)
                  IN  Preds(n) # {b} /\ term[n].to # NextOf(n)

reviseTrampolinBranchEdgeNoFall(b) ==   \* mutant: no edge next -> nextnext
    LET n == NextOf(b)
        nextnext == NextOf(n)
        tgt == term[n].to
    IN  /\ term' = [term EXCEPT ![b] = LedTo(Inverted(@), tgt), ![n] = Plain]
        /\ edges' = IF tgt = nextnext THEN edges
                    ELSE ((edges \ {<<n, tgt>>}) \cup {<<b, tgt>>}) \ {<<b, nextnext>>}
        /\ valid' = IF tgt = nextnext THEN WithRPO ELSE {"rpo"}
        /\ rpo' = IF tgt = nextnext THEN RPONow ELSE RPOOf(bbs, edges')
        /\ UNCHANGED <<bbs, body, labels>>

reviseTrampolinBranchEdge(b) ==
    LET n == NextOf(b)
        nextnext == NextOf(n)
        tgt == term[n].to
    IN  /\ term' = [term EXCEPT ![b] = LedTo(Inverted(@), tgt), ![n] = Plain]
        /\ edges' = IF tgt = nextnext THEN edges
                    ELSE (((edges \ {<<n, tgt>>}) \cup {<<b, tgt>>})
                             \ {<<b, nextnext>>}) \cup {<<n, nextnext>>}
        /\ valid' = IF tgt = nextnext THEN WithRPO ELSE {"rpo"}
        /\ rpo' = IF tgt = nextnext THEN RPONow ELSE RPOOf(bbs, edges')
        /\ UNCHANGED <<bbs, body, labels>>

removeTrampolinBranch ==
    /\ pc = "trampBranch"
    /\ \/ \E b \in FirstLeft(BranchesOver) :
              /\ reviseTrampolinBranchEdge(b)
              /\ Visited(b)
              /\ strayed' = (strayed \/ LeadsAstray(b))
       \/ /\ FirstLeft(BranchesOver) = {}
          /\ valid' = WithRPO
          /\ rpo' = RPONow
          /\ UNCHANGED program
          /\ Done(res)

-----------------------------------------------------------------------------
Bound == IF by = "refineCFG" THEN RefineBound ELSE MiscBound

Again ==
    /\ pc = "again"
    /\ change' = (change \/ lchange)
    /\ count' = count + 1
    /\ IF lchange /\ count + 1 < Bound
       THEN pc' = "unreach" /\ lchange' = FALSE
       ELSE pc' = "end" /\ UNCHANGED lchange
    /\ UNCHANGED <<program, exits, valid, rpo, at, by, unreach, res, strayed>>

Finish ==
    /\ pc = "end"
    /\ pc' = "optimized"
    /\ exits' = IF change THEN ExitsOf(bbs, edges) ELSE exits
    /\ UNCHANGED <<program, valid, rpo, at, driver, res, strayed>>

\* A driver begins, with a CfgOptCtx of its own.
Begin(d) ==
    /\ by' = d
    /\ pc' = "unreach"
    /\ at' = 0 /\ count' = 0
    /\ unreach' = FALSE /\ res' = FALSE /\ lchange' = FALSE /\ change' = FALSE
    /\ UNCHANGED <<program, exits, valid, rpo, strayed>>

refineCFG == pc = "refine" /\ Begin("refineCFG")

\* The graph has been built from the statements, the flags is_exit have not.
initCFG(p) ==
    /\ bbs = Block
    /\ body = p.body /\ term = p.term
    /\ edges = {e \in Block \X Block : e[2] \in Goes(Block, p.term, e[1])}
    /\ labels = [b \in Block |-> IF \E c \in Block : p.term[c].op \in Branch
                                                     /\ p.term[c].to = b
                                 THEN 1 ELSE 0]
    /\ exits = {} /\ valid = {} /\ rpo = [b \in Block |-> 0]
    /\ pc = "empty" /\ at = 0 /\ by = "initCFG"
    /\ unreach = FALSE /\ res = FALSE /\ lchange = FALSE /\ change = FALSE
    /\ count = 0
    /\ strayed = FALSE

CFGInit == \E p \in Programs : initCFG(p)

Optimize == \/ removeUnreachBB
            \/ removeRedundantLabel
            \/ removeEmptyBB
            \/ removeRedundantBranch
            \/ removeTrampolinEdge
            \/ removeTrampolinBB
            \/ removeTrampolinBranch
            \/ Again
            \/ Finish
            \/ refineCFG
-----------------------------------------------------------------------------
CFGTypeOK ==
    /\ bbs \subseteq Block /\ Entry \in bbs
    /\ body \in [Block -> Stmt]
    /\ term \in [Block -> Term]
    /\ edges \subseteq bbs \X bbs
    /\ labels \in [Block -> Nat]
    /\ exits \subseteq bbs
    /\ valid \subseteq Analyses
    /\ rpo \in [Block -> 0 .. N]
    /\ at \in 0 .. N
    /\ by \in {"initCFG", "refineCFG", "performMiscOpt"}
    /\ {unreach, res, lchange, change, strayed} \subseteq BOOLEAN
    /\ count \in Nat

\* The graph says what the program does: the edges of a block are where its
\* last statement leads, with the order in the text deciding the rest.  Each
\* optimization changes statements, text and edges by hand (ir_cfg.cpp:2041,
\* 3195, optcfg.h:335), and everything else reads only the edges.
EdgesMatchCode ==
    edges = {e \in bbs \X bbs : e[2] \in Goes(bbs, term, e[1])}

\* No branch leads to a block that has been removed or has lost its labels
\* (verifyBranchLabel, moveLabels at ir_cfg.cpp:1690).
NoDanglingBranch == \A b \in bbs : IsBranch(b) =>
                        term[b].to \in bbs /\ labels[term[b].to] > 0

\* When removeTrampolinBB gets its turn (ir_cfg.cpp:1046) the optimization
\* before it has left no block that it could remove.
TrampolinesGone == pc = "trampBB" => TrampolinBBs = {}

\* The loop of a driver ends because there was nothing left to do
\* (assertions at ir_cfg.cpp:1069 and 3589), the step of it that is taken to
\* do nothing included.
Settles == /\ pc = "end" => ~lchange
           /\ TrampolinesGone
=============================================================================
