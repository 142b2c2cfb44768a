-------------------------------- MODULE DCE --------------------------------
(***************************************************************************)
(* Dead code elimination (opt/ir_dce.cpp), composed with the CFG           *)
(* optimizations it calls after each round.  Everything is dead unless it  *)
(* is marked: marking starts from the observable statements and follows    *)
(* the definitions of what a marked statement reads and, by the control    *)
(* dependence graph, the branches that decide whether it runs.             *)
(*                                                                         *)
(* DU information is the classic chain of PRs, computed before the pass    *)
(* and kept by it (removed statements drop out of the sets).               *)
(***************************************************************************)
EXTENDS CFGOpt

CONSTANT DCEBound   \* 0xFFFF: rounds of DCE

ASSUME DCEBoundAssumption == DCEBound \in Nat

VARIABLES
    reach,    \* the definitions in reach[b] reach the beginning of block b
    ipdom,    \* immediate postdominators, as computed last
    cdg,      \* edges of the control dependence graph, as computed last
    eff,      \* the marked statements, <<block, "body">> or <<block, "term">>
    effBB,    \* the marked blocks
    removed,  \* this round has removed something
    rounds,
    orig      \* history: what the program did before, by the variable's value

analyses == <<reach, ipdom, cdg>>
marks == <<eff, effBB>>
vars == <<cfgVars, analyses, marks, removed, rounds, orig>>
-----------------------------------------------------------------------------
(* What a program does: the trace of its observable statements from block  *)
(* b with value x, cut off after n blocks.  A state that comes again makes *)
(* it endless.                                                             *)
Truth(x) == IF x THEN "true" ELSE "false"
Holds(t, x) == CASE t.cond = "x" -> x [] t.cond = "true" -> TRUE [] OTHER -> FALSE
Endless == <<NoBlock, "endless">>

Trace(B, bd, tm, x0) ==
    LET run[n \in Nat, b \in 0 .. N, x \in BOOLEAN] ==
          IF b = NoBlock THEN <<>>
          ELSE IF n = 0 THEN <<Endless>>
          ELSE LET y == CASE bd[b] = "set" -> TRUE [] bd[b] = "clr" -> FALSE
                          [] OTHER -> x
                   seen == CASE bd[b] = "out" -> <<<<b, "out">>>>
                             [] bd[b] = "use" -> <<<<b, Truth(x)>>>>
                             [] OTHER -> <<>>
                   t == tm[b]
                   next == CASE t.op = "return" -> NoBlock
                             [] t.op = "goto" -> t.to
                             [] t.op \in {"truebr", "switch"} /\ Holds(t, y) -> t.to
                             [] t.op = "falsebr" /\ ~Holds(t, y) -> t.to
                             [] OTHER -> NextIn(B, b)
               IN  seen \o run[n - 1, next, y]
    IN  run[2 * N + 1, Entry, x0]

Ends(trace) == \A i \in DOMAIN trace : trace[i] # Endless
Does == [x \in BOOLEAN |-> Trace(bbs, body, term, x)]
-----------------------------------------------------------------------------
(* The analyses DCE reads.                                                 *)
Defines(b) == body[b] \in {"set", "clr"}
ReadsX(b) == term[b].op \in CondBr \cup {"switch"} /\ term[b].cond = "x"

\* Reaching definitions: from d to the beginning of b past no other one.
ReachingDefs ==
    LET through == {e \in edges : ~Defines(e[1])}
    IN  [b \in Block |->
           {d \in bbs : Defines(d) /\ b \in Closure(through, Succs(d))}]

\* computePdom, computeIpdom
Postdoms(v) ==
    LET ex == ExitsOf(bbs, edges)
    IN  IF v \in ex THEN {v}
        ELSE {u \in bbs : u = v \/ Closure(Without(edges, u), {v}) \cap (ex \ {u}) = {}}
Ipdoms ==
    LET ex == ExitsOf(bbs, edges)
        pd == [v \in bbs |-> Postdoms(v)]
        above(v) == {i \in pd[v] \ {v} : pd[i] = pd[v] \ {v}}
    IN  [v \in Block |-> IF ex # {} /\ v \in bbs \ ex /\ above(v) # {}
                         THEN CHOOSE i \in above(v) : TRUE ELSE NoBlock]

\* CDG::build: what controls a block also controls its postdominator, up to
\* the postdominator of the controlling block.
CDGOf(ip) ==
    LET cd[n \in Nat] ==
            IF n = 0 THEN {e \in edges : ip[e[1]] # e[2]}
            ELSE cd[n - 1] \cup
                 {<<e[1], ip[e[2]]>> : e \in {f \in cd[n - 1] :
                        ip[f[2]] # NoBlock /\ ip[f[1]] # ip[f[2]]}}
    IN  {e \in cd[N] : e[1] # e[2]}

\* checkValidAndRecompute for a set of analyses: those that are not valid.
Recompute(S) ==
    /\ valid' = valid \cup S
    /\ rpo' = IF "rpo" \in S \ valid THEN RPOOf(bbs, edges) ELSE rpo
    /\ ipdom' = IF "pdom" \in S \ valid THEN Ipdoms ELSE ipdom
    /\ cdg' = IF "cdg" \in S \ valid THEN CDGOf(ipdom') ELSE cdg

isControlPred(p, b) == ipdom[p] # b
-----------------------------------------------------------------------------
(* Marking.                                                                *)
Body(b) == <<b, "body">>
Last(b) == <<b, "term">>
HasEff(b) == Body(b) \in eff \/ Last(b) \in eff

\* collectByDUSet
DefsOfBlock(s) ==   \* mutant: what reaches the block, also for its branch
    IF body[s[1]] = "use" \/ (s[2] = "term" /\ ReadsX(s[1])) THEN reach[s[1]] ELSE {}
DefsOf(s) ==
    LET b == s[1]
    IN  IF s[2] = "body" THEN IF body[b] = "use" THEN reach[b] ELSE {}
        ELSE IF ~ReadsX(b) THEN {}
        ELSE IF Defines(b) THEN {b} ELSE reach[b]
collectByDU == {d \in UNION {DefsOf(s) : s \in eff} : d \in bbs /\ Defines(d)}

\* markControlPredAndStmt, markCFGPred
controlPreds == {e[1] : e \in {f \in cdg : f[2] \in effBB}}
backPreds == {e[1] : e \in {f \in edges : f[2] \in effBB /\ rpo[f[1]] > rpo[f[2]]}}

\* find_effect_kid
find_effect_kid_condbr(b) == \E s \in Succs(b) : isControlPred(b, s) /\ HasEff(s)
find_effect_kid_uncondbr(b) ==
    \/ \E p \in Preds(b) : /\ isControlPred(p, b)
                           /\ p \in effBB \/ HasEff(p)
                           /\ \E s \in Succs(p) : isControlPred(b, s) /\ HasEff(s)
    \/ \E s \in Succs(b) : s \in effBB \/ (s # b /\ HasEff(s))

\* tryMarkBranch for marked blocks, tryMarkUnconditionalBranch for all
BranchesToMark ==
    {b \in effBB : term[b].op \in CondBr \cup {"switch"} /\ find_effect_kid_condbr(b)}
GotosToMark == {b \in bbs : term[b].op = "goto" /\ find_effect_kid_uncondbr(b)}

\* perform
StartDCE ==
    /\ pc = "optimized" /\ by = "refineCFG"
    /\ Recompute({"rpo", "dom", "pdom"})
    /\ reach' = ReachingDefs
    /\ pc' = "mark"
    /\ UNCHANGED <<program, exits, at, driver, res, marks, removed, rounds, orig, strayed>>

\* markEffectIR: the observable statements and returns; CDG, PDOM and RPO are
\* asked for.
markEffectIR ==
    /\ pc = "mark"
    /\ Recompute(Analyses)
    /\ LET seen == {b \in bbs : body[b] \in {"out", "use"}}
           rets == {b \in bbs : term[b].op = "return"}
       IN  /\ eff' = {Body(b) : b \in seen} \cup {Last(b) : b \in rets}
           /\ effBB' = seen \cup rets
    /\ rounds' = rounds + 1
    /\ pc' = "collect"
    /\ UNCHANGED <<program, exits, at, driver, res, reach, removed, orig, strayed>>

iterCollectNewOnly ==   \* mutant: what was marked before is forgotten
    /\ pc = "collect"
    /\ eff' = {Body(d) : d \in collectByDU}
                  \cup {Last(b) : b \in {c \in controlPreds : IsBranch(c)}
                                           \cup BranchesToMark \cup GotosToMark}
    /\ effBB' = collectByDU \cup controlPreds \cup backPreds \cup GotosToMark
    /\ pc' = IF eff' = eff /\ effBB' = effBB THEN "remove" ELSE "collect"
    /\ UNCHANGED <<program, exits, valid, rpo, at, driver, res, analyses, removed,
                   rounds, orig, strayed>>

\* iterCollect: one round over the list of new statements and the blocks.
iterCollect ==
    /\ pc = "collect"
    /\ eff' = eff \cup {Body(d) : d \in collectByDU}
                  \cup {Last(b) : b \in {c \in controlPreds : IsBranch(c)}
                                           \cup BranchesToMark \cup GotosToMark}
    /\ effBB' = effBB \cup collectByDU \cup controlPreds \cup backPreds \cup GotosToMark
    /\ pc' = IF eff' = eff /\ effBB' = effBB THEN "remove" ELSE "collect"
    /\ UNCHANGED <<program, exits, valid, rpo, at, driver, res, analyses, removed,
                   rounds, orig, strayed>>

-----------------------------------------------------------------------------
(* removeIneffectIR: what is not marked goes; a block that loses its branch *)
(* falls through to the next block in the text (changeToBeFallthroughBB).  *)
EveryIneffectBody == {b \in bbs : Body(b) \notin eff}   \* mutant: also empty ones
IneffectBodies == {b \in bbs : body[b] # "none" /\ Body(b) \notin eff}

removeIneffectIR ==
    /\ pc = "remove"
    /\ LET dead == IneffectBodies
           cut == {b \in bbs : IsBranch(b) /\ Last(b) \notin eff}
       IN  /\ body' = [b \in Block |-> IF b \in dead THEN "none" ELSE body[b]]
           /\ term' = [b \in Block |-> IF b \in cut THEN Plain ELSE term[b]]
           /\ edges' = {e \in edges : e[1] \notin cut} \cup
                         {<<b, NextOf(b)>> : b \in {c \in cut : NextOf(c) # NoBlock}}
           /\ removed' = (dead \cup cut # {})
           /\ valid' = IF cut = {} THEN valid ELSE CFGChanged
           /\ strayed' = (strayed \/ \E b \in cut : term[b].op = "goto"
                                                    /\ term[b].to # NextOf(b))
    /\ pc' = "misc"
    /\ UNCHANGED <<bbs, labels, exits, rpo, at, driver, res, analyses, marks, rounds, orig>>

performMiscOpt ==
    /\ pc = "misc"
    /\ Begin("performMiscOpt")
    /\ UNCHANGED <<analyses, marks, removed, rounds, orig>>

\* elimImpl: once more if something has been removed.  DOM and CDG are asked
\* for if DOM did not survive the CFG optimizations.
EndRound ==
    /\ pc = "optimized" /\ by = "performMiscOpt"
    /\ IF "dom" \in valid THEN UNCHANGED <<valid, rpo, ipdom, cdg>>
       ELSE Recompute(Analyses)
    /\ removed' = (removed \/ change)
    /\ pc' = IF removed' /\ rounds < DCEBound THEN "mark" ELSE "done"
    /\ UNCHANGED <<program, exits, at, driver, res, reach, marks, rounds, orig, strayed>>

OptimizeCFG == Optimize /\ UNCHANGED <<analyses, marks, removed, rounds, orig>>

Init ==
    /\ CFGInit
    /\ reach = [b \in Block |-> {}] /\ ipdom = [b \in Block |-> NoBlock] /\ cdg = {}
    /\ eff = {} /\ effBB = {}
    /\ removed = FALSE /\ rounds = 0
    /\ orig = Does

Next == \/ OptimizeCFG
        \/ StartDCE
        \/ markEffectIR
        \/ iterCollect
        \/ removeIneffectIR
        \/ performMiscOpt
        \/ EndRound

Returned == pc = "done" /\ UNCHANGED vars

Spec == Init /\ [][Next \/ Returned]_vars
\* The pass is one thread that runs until it returns: WF_vars(Next), with
\* pc # "done" written for ENABLED <<Next>>_vars (no state but the last is
\* without a step, which the runs check as deadlock).
FairSpec == Spec /\ ([]<>(pc = "done") \/ []<><<Next>>_vars)
-----------------------------------------------------------------------------
TypeOK ==
    /\ CFGTypeOK
    /\ reach \in [Block -> SUBSET Block]
    /\ ipdom \in [Block -> 0 .. N]
    /\ cdg \subseteq Block \X Block
    /\ eff \subseteq Block \X {"body", "term"} /\ effBB \subseteq Block
    /\ removed \in BOOLEAN
    /\ rounds \in 0 .. DCEBound

\* After every step the program does what it did at first, for each value of
\* the variable for which it ended then: no dead goto was needed after all
\* (comment at ir_dce.cpp:673, `'goto' can not be removed').
BehaviourKept == \A x \in BOOLEAN : Ends(orig[x]) => Does[x] = orig[x]

\* The same, as long as no block has lost a goto that led elsewhere than to the
\* next block (removeIneffectIR, ir_dce.cpp:891; reviseTrampolinBranchEdge,
\* ir_cfg.cpp:3195).
BehaviourKeptUnlessStrayed == strayed \/ BehaviourKept

\* The control dependence graph that marking walks has the blocks of the
\* program for vertices (assertion at ir_dce.cpp:529).
ControlDepsPresent == pc = "collect" => cdg \subseteq bbs \X bbs

\* DCE stops because the last round removed nothing (assertion at
\* ir_dce.cpp:1147), though each round lets the CFG optimizations rewrite what
\* the next one marks.
NothingLeft == pc = "done" => ~removed

\* The pass returns.
Terminates == <>(pc = "done")
=============================================================================
