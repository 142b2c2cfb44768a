---------------------------- MODULE OptCtxProofs ----------------------------
(***************************************************************************)
(* Theorems about OptCtx for every choice of request lists, exclusion      *)
(* lists, edits and BB counts.                                             *)
(***************************************************************************)
EXTENDS OptCtx, SequenceTheorems, TLAPS

-----------------------------------------------------------------------------
(* Sequences of tasks.                                                     *)

\* One task, and the tasks of a request list, are well formed.
LEMMA TaskType ==
    ASSUME NEW op \in {"check", "ensure", "finish", "du", "solve"},
           NEW p \in Passes, NEW opts \in SUBSET (Passes \cup Results)
    PROVE  Task(op, p, opts) \in Tasks
  BY DEF Task, Tasks

LEMMA WorkType ==
    ASSUME NEW p \in Passes
    PROVE  /\ Task("finish", p, {}) \in Tasks
           /\ Task(WorkOf(p), p, {}) \in Tasks
  BY DEF Task, Tasks, WorkOf

LEMMA OptsType ==
    ASSUME NEW list \in Seq(Passes)
    PROVE  OptsOf(list) \in SUBSET Passes
  BY DEF OptsOf, Passes, Results, BitResults, ObjResults

LEMMA ChecksType ==
    ASSUME NEW list \in Seq(Passes)
    PROVE  Checks(list) \in Seq(Tasks)
<1>1. \A i \in DOMAIN list : Task("check", list[i], OptsOf(list)) \in Tasks
  BY OptsType, TaskType
<1>2. DOMAIN list = 1..Len(list) /\ Len(list) \in Nat
  OBVIOUS
<1>3. Checks(list) \in [1..Len(list) -> Tasks]
  BY <1>1, <1>2 DEF Checks
<1> QED
  BY <1>2, <1>3

\* The agenda after its head has been popped or replaced.
LEMMA AgendaType ==
    ASSUME agenda \in Seq(Tasks), agenda # <<>>
    PROVE  /\ Head(agenda) \in Tasks
           /\ Head(agenda).p \in Passes
           /\ Head(agenda).opts \in SUBSET (Passes \cup Results)
           /\ Return => agenda' \in Seq(Tasks)
           /\ \A s \in Seq(Tasks) : Replace(s) => agenda' \in Seq(Tasks)
<1>1. Head(agenda) \in Tasks /\ Tail(agenda) \in Seq(Tasks)
  OBVIOUS
<1>2. Solved \subseteq Passes
  BY DEF Solved, Passes, Results, BitResults
<1>3. Head(agenda).p \in Passes
  BY <1>1 DEF Tasks, Passes, Results, ObjResults
<1>4. Head(agenda).opts \in SUBSET (Passes \cup Results)
  <2>1. CASE Head(agenda) \in [op : {"solved"}, p : Passes, opts : SUBSET Solved]
    BY <1>2, <2>1
  <2>2. CASE Head(agenda) \notin [op : {"solved"}, p : Passes, opts : SUBSET Solved]
    BY <1>1, <2>2 DEF Tasks
  <2> QED
    BY <2>1, <2>2
<1>5. \A s \in Seq(Tasks) : s \o Tail(agenda) \in Seq(Tasks)
  BY <1>1, ConcatProperties
<1> QED
  BY <1>1, <1>3, <1>4, <1>5 DEF Return, Replace

\* Popping the head keeps the types.
LEMMA SkipType ==
    ASSUME TypeOK, agenda # <<>>, Skip
    PROVE  TypeOK'
  BY AgendaType DEF TypeOK, Skip, Quiet

LEMMA AssertType ==
    ASSUME TypeOK, NEW what \in Assertions, Assert(what)
    PROVE  TypeOK'
<1>1. agenda' = <<>> /\ <<>> \in Seq(Tasks)
  BY DEF Assert
<1> QED
  BY <1>1 DEF TypeOK, Assert

LEMMA RecomputedType ==
    ASSUME stale \subseteq Results, NEW S \in SUBSET Results, Recomputed(S)
    PROVE  stale' \subseteq Results
  BY DEF Recomputed

\* Making a set of results valid, and invalidating one, keep the types.
LEMMA ValidType ==
    ASSUME TypeOK, NEW S \in SUBSET Results, NEW reg \in SUBSET Objects,
           setValid(S, reg)
    PROVE  bits' \subseteq BitResults /\ okobj' \subseteq Objects
             /\ registered' \subseteq Objects
  BY DEF TypeOK, setValid, Results

LEMMA InvalidType ==
    ASSUME TypeOK, NEW S, setInvalid(S)
    PROVE  bits' \subseteq BitResults /\ okobj' \subseteq Objects
             /\ registered' \subseteq Objects /\ rpolist' \in BOOLEAN
  BY DEF TypeOK, setInvalid

-----------------------------------------------------------------------------
(* Type correctness.                                                       *)

LEMMA Names ==
    /\ {"RPO", "DOM", "PDOM", "LOOP_INFO", "AA", "MD_REF"} \cup Solved
         \subseteq Passes
    /\ CFGResults \subseteq Passes \cap Results
    /\ {"CDG", "SCC", "EXPR_TAB", "GVN", "PRSSA_MGR", "MDSSA_MGR",
        "CLASSIC_DU_CHAIN"} \subseteq Passes
    /\ {"CFG", "AA", "DU_MGR", "CDG", "SCC", "EXPR_TAB", "GVN", "PRSSA_MGR",
        "MDSSA_MGR"} \subseteq Objects
    /\ Solved \subseteq BitResults /\ BitResults \subseteq Results
    /\ {"PRDU", "NONPRDU", "MD_REF", "REACH_DEF", "CFG"} \subseteq BitResults
    /\ ObjResults \subseteq Results
  BY DEF Passes, Results, BitResults, ObjResults, Objects, CFGResults, Solved

\* The literal lists by which one computation asks for another's result.
LEMMA Lists ==
    /\ Checks(<<"RPO">>) \in Seq(Tasks)
    /\ Checks(<<"DOM">>) \in Seq(Tasks)
    /\ Checks(<<"PDOM">>) \in Seq(Tasks)
    /\ Checks(<<"RPO", "DOM">>) \in Seq(Tasks)
    /\ Checks(<<"LOOP_INFO", "SCC">>) \in Seq(Tasks)
    /\ Checks(DUChainPrereqs) \in Seq(Tasks)
<1>1. /\ <<"RPO">> \in Seq(Passes)
      /\ <<"DOM">> \in Seq(Passes)
      /\ <<"PDOM">> \in Seq(Passes)
      /\ <<"RPO", "DOM">> \in Seq(Passes)
      /\ <<"LOOP_INFO", "SCC">> \in Seq(Passes)
      /\ <<"RPO", "DOM", "MD_REF">> \in Seq(Passes)
      /\ <<"RPO", "DOM", "MD_REF", "REACH_DEF">> \in Seq(Passes)
  BY Names DEF Solved
<1>2. DUChainPrereqs \in Seq(Passes)
  BY <1>1, Names DEF DUChainPrereqs
<1> QED
  BY <1>1, <1>2, ChecksType

\* The two ways a task ends well: its results become valid, or it is replaced
\* by what it waits for.
LEMMA ComputedType ==
    ASSUME TypeOK, agenda # <<>>,
           NEW S \in SUBSET Results, NEW reg \in SUBSET Objects,
           Return, Quiet, setValid(S, reg), Recomputed(S), rpolist' \in BOOLEAN
    PROVE  TypeOK'
<1>1. agenda' \in Seq(Tasks)
  BY AgendaType DEF TypeOK
<1>2. stale' \subseteq Results
  BY RecomputedType DEF TypeOK
<1> QED
  BY <1>1, <1>2, ValidType DEF TypeOK, Quiet

LEMMA WaitType ==
    ASSUME TypeOK, agenda # <<>>, NEW s \in Seq(Tasks),
           Return \/ Replace(s), Quiet,
           bits' \subseteq BitResults, registered' \subseteq Objects,
           okobj' \subseteq Objects, rpolist' \in BOOLEAN, stale' \subseteq Results
    PROVE  TypeOK'
<1>1. agenda' \in Seq(Tasks)
  BY AgendaType DEF TypeOK
<1> QED
  BY <1>1 DEF TypeOK, Quiet

\* A list of requests followed by the rest of the computation that waits.
LEMMA ThenType ==
    ASSUME NEW s \in Seq(Tasks), NEW t \in Tasks
    PROVE  /\ <<t>> \in Seq(Tasks)
           /\ s \o <<t>> \in Seq(Tasks)
<1>1. <<t>> \in Seq(Tasks)
  OBVIOUS
<1> QED
  BY <1>1, ConcatProperties

\* Every step of a recomputation keeps the types.
LEMMA RecomputeType ==
    ASSUME TypeOK, Recompute
    PROVE  TypeOK'
<1>0. agenda # <<>> /\ agenda \in Seq(Tasks)
  BY DEF TypeOK, Recompute, CheckCFG, CheckRPO, CheckLoopInfo, CheckCDG,
         CheckSCC, CheckExprTab, RecomputeDU, StartSolve, CheckDUChain,
         FinishDUChain, FinishSolve, CheckDom, EnsureDom, CheckAAandDU,
         CheckPass, Finish, BuildPRSSA, GiveUpPRSSA, FinishPRSSA, FinishMDSSA, Top
<1>h. /\ Head(agenda).p \in Passes
      /\ Head(agenda).opts \in SUBSET (Passes \cup Results)
  BY <1>0, AgendaType
<1>n. /\ {"CFG"} \in SUBSET Results /\ {"RPO"} \in SUBSET Results
      /\ {"SCC"} \in SUBSET Results /\ {"EXPR_TAB"} \in SUBSET Results
      /\ {"MD_REF"} \in SUBSET Results /\ {"PRDU", "NONPRDU"} \in SUBSET Results
  BY DEF Results, BitResults, ObjResults
<1>o. /\ registered \in SUBSET Objects
      /\ registered \cup {"CFG"} \in SUBSET Objects
      /\ registered \cup {"SCC"} \in SUBSET Objects
      /\ registered \cup {"EXPR_TAB"} \in SUBSET Objects
      /\ registered \cup {"DU_MGR"} \in SUBSET Objects
      /\ registered \cup {"CDG"} \in SUBSET Objects
      /\ registered \cup {"AA"} \in SUBSET Objects
      /\ registered \cup {"CDG"} \in SUBSET Objects
  BY Names DEF TypeOK
<1>1. CASE CheckCFG
  <2>1. CASE nbb # "none" /\ "CFG" \notin bits
    BY <1>0, <1>n, <1>o, <1>1, <2>1, ComputedType DEF CheckCFG, TypeOK
  <2>2. CASE nbb = "none" /\ "CFG" \notin bits
    BY <1>0, <1>o, <1>1, <2>2, WaitType, EmptySeq DEF CheckCFG, TypeOK
  <2> QED
    BY <1>0, <1>1, <2>1, <2>2, SkipType DEF CheckCFG
<1>2. CASE CheckRPO
  <2>1. CASE "CFG" \notin bits
    BY <1>2, <2>1, AssertType DEF CheckRPO, Assertions
  <2>2. CASE "CFG" \in bits
    BY <1>0, <1>n, <1>o, <1>2, <2>2, SkipType, ComputedType DEF CheckRPO
  <2> QED
    BY <2>1, <2>2
<1>3. CASE CheckLoopInfo
  <2>1. CASE "LOOP_INFO" \in bits
    BY <1>0, <1>3, <2>1, SkipType DEF CheckLoopInfo
  <2>2. CASE "LOOP_INFO" \notin bits /\ "CFG" \notin bits
    BY <1>3, <2>2, AssertType DEF CheckLoopInfo, Assertions
  <2>3. Checks(<<"DOM">>) \o <<Task("finish", "LOOP_INFO", {})>> \in Seq(Tasks)
    BY Names, Lists, TaskType, ThenType
  <2> QED
    BY <1>0, <1>3, <2>1, <2>2, <2>3, SkipType, WaitType DEF CheckLoopInfo, TypeOK
<1>4. CASE CheckCDG
  <2>1. CASE "CDG" \in registered \cap okobj
    BY <1>0, <1>4, <2>1, SkipType DEF CheckCDG
  <2>2. CASE "CDG" \notin registered \cap okobj /\ "CFG" \notin bits
    BY <1>4, <2>2, AssertType DEF CheckCDG, Assertions
  <2>3. Checks(<<"PDOM">>) \o <<Task("finish", "CDG", {})>> \in Seq(Tasks)
    BY Names, Lists, TaskType, ThenType
  <2> QED
    BY <1>0, <1>o, <1>4, <2>1, <2>2, <2>3, WaitType DEF CheckCDG, TypeOK
<1>5. CASE CheckSCC
  <2>1. CASE isPassValid("SCC")
    BY <1>0, <1>5, <2>1, SkipType DEF CheckSCC
  <2>2. CASE ~isPassValid("SCC") /\ "CFG" \notin bits
    BY <1>5, <2>2, AssertType DEF CheckSCC, Assertions
  <2> QED
    BY <1>0, <1>n, <1>o, <1>5, <2>1, <2>2, ComputedType DEF CheckSCC, TypeOK
<1>6. CASE CheckExprTab
  <2>1. CASE isPassValid("EXPR_TAB") \/ nbb = "none"
    BY <1>0, <1>6, <2>1, SkipType DEF CheckExprTab
  <2> QED
    BY <1>0, <1>n, <1>o, <1>6, <2>1, ComputedType DEF CheckExprTab, TypeOK
<1>7. CASE RecomputeDU
  <2> DEFINE opts == Head(agenda).opts
             ref == "MD_REF" \in opts /\ "MD_REF" \notin bits
             flags == SolveFlags(opts)
             next == IF flags = {} THEN <<>>
                     ELSE <<Task("solve", Head(agenda).p,
                                 flags \cup (opts \cap {"MD_REF"}))>>
  <2>1. CASE Skip
    BY <1>0, <2>1, SkipType
  <2>2. CASE \E what \in Assertions : Assert(what)
    BY <2>2, AssertType
  <2>3. CASE registered' = registered \cup {"DU_MGR"} /\ Return /\ Quiet
               /\ UNCHANGED <<bits, okobj, rpolist, stale>>
    BY <1>0, <1>o, <2>3, WaitType, EmptySeq DEF TypeOK
  <2>4. CASE /\ registered' = registered \cup {"DU_MGR"}
             /\ IF ref
                THEN bits' = bits \cup {"MD_REF"} /\ Recomputed({"MD_REF"})
                ELSE UNCHANGED <<bits, stale>>
             /\ Replace(next) /\ Quiet /\ UNCHANGED <<okobj, rpolist>>
    <3>1. flags \cup (opts \cap {"MD_REF"}) \in SUBSET (Passes \cup Results)
      BY Names DEF SolveFlags
    <3>2. Task("solve", Head(agenda).p, flags \cup (opts \cap {"MD_REF"})) \in Tasks
      BY <1>h, <3>1, TaskType
    <3>3. next \in Seq(Tasks)
      BY <3>2, ThenType, EmptySeq
    <3>4. stale' \subseteq Results
      BY <1>n, <2>4, RecomputedType DEF TypeOK
    <3>5. bits' \subseteq BitResults
      BY <2>4, Names DEF TypeOK
    <3> QED
      BY <1>0, <1>o, <2>4, <3>3, <3>4, <3>5, WaitType DEF TypeOK
  <2> QED
    BY <1>7, <2>1, <2>2, <2>3, <2>4 DEF RecomputeDU, Assertions
<1>8. CASE StartSolve
  <2>1. CASE "MD_REF" \notin bits
    BY <1>8, <2>1, AssertType DEF StartSolve, Assertions
  <2>2. CASE "MD_REF" \in bits /\ "LIVE_EXPR" \in Head(agenda).opts
               /\ "MD_REF" \notin Head(agenda).opts
    BY <1>8, <2>2, AssertType DEF StartSolve, Assertions
  <2>3. Task("solved", Head(agenda).p, Head(agenda).opts \cap Solved) \in Tasks
    BY <1>h DEF Task, Tasks
  <2>4. Checks(<<"RPO">>)
          \o <<Task("solved", Head(agenda).p, Head(agenda).opts \cap Solved)>>
            \in Seq(Tasks)
    BY <2>3, Lists, ThenType
  <2> QED
    BY <1>0, <1>8, <2>1, <2>2, <2>4, WaitType DEF StartSolve, TypeOK
<1>9. CASE CheckDUChain
  <2>1. CASE ({"PRDU", "NONPRDU"} \subseteq bits) \/ nbb = "none"
    BY <1>0, <1>9, <2>1, SkipType DEF CheckDUChain
  <2>2. CASE ~(({"PRDU", "NONPRDU"} \subseteq bits) \/ nbb = "none") /\ ~CanHaveDUMgr
    BY <1>9, <2>2, AssertType DEF CheckDUChain, Assertions
  <2>3. Task("finish", "CLASSIC_DU_CHAIN", Head(agenda).opts) \in Tasks
    BY <1>h, Names, TaskType
  <2>4. Checks(DUChainPrereqs)
          \o <<Task("finish", "CLASSIC_DU_CHAIN", Head(agenda).opts)>> \in Seq(Tasks)
    BY <2>3, Lists, ThenType
  <2> QED
    BY <1>0, <1>o, <1>9, <2>1, <2>2, <2>4, WaitType DEF CheckDUChain, TypeOK
<1>10. CASE FinishDUChain
  <2>1. CASE "CFG" \notin bits
    BY <1>10, <2>1, AssertType DEF FinishDUChain, Assertions
  <2>2. CASE "CFG" \in bits /\ ~({"MD_REF", "REACH_DEF"} \subseteq bits)
    BY <1>10, <2>2, AssertType DEF FinishDUChain, Assertions
  <2>3. CASE "CFG" \in bits /\ {"MD_REF", "REACH_DEF"} \subseteq bits
    <3>1. bits' \subseteq BitResults
      BY <1>10, <2>3, Names DEF FinishDUChain, TypeOK
    <3>2. {"PRDU", "NONPRDU"} \ bits \in SUBSET Results
      BY <1>n
    <3>3. UNCHANGED stale \/ Recomputed({"PRDU", "NONPRDU"} \ bits)
      BY <1>10, <2>3 DEF FinishDUChain
    <3>4. stale' \subseteq Results
      BY <3>2, <3>3, RecomputedType DEF TypeOK
    <3>5. Return /\ Quiet /\ UNCHANGED <<registered, okobj, rpolist>>
      BY <1>10, <2>3 DEF FinishDUChain
    <3> QED
      BY <1>0, <3>1, <3>4, <3>5, WaitType, EmptySeq DEF TypeOK
  <2> QED
    BY <2>1, <2>2, <2>3
<1>11. CASE FinishSolve
  <2>1. Head(agenda).opts \in SUBSET Solved
    BY <1>0, <1>11, AgendaType DEF FinishSolve, Tasks
  <2>2. Head(agenda).opts \in SUBSET BitResults /\ BitResults \subseteq Results
    BY <2>1, Names
  <2>3. stale' \subseteq Results
    BY <1>11, <2>2, RecomputedType DEF FinishSolve, TypeOK
  <2> QED
    BY <1>0, <1>11, <2>2, <2>3, WaitType, EmptySeq DEF FinishSolve, TypeOK
<1>12. ASSUME NEW p \in {"DOM", "PDOM"}, CheckDom(p)
       PROVE  TypeOK'
  <2>1. <<Task("ensure", "DOM", {}), Task("ensure", "PDOM", {})>> \in Seq(Tasks)
    <3>1. Task("ensure", "DOM", {}) \in Tasks /\ Task("ensure", "PDOM", {}) \in Tasks
      BY Names, TaskType
    <3> QED
      BY <3>1
  <2> QED
    BY <1>0, <1>12, <2>1, WaitType DEF CheckDom, TypeOK
<1>13. ASSUME NEW p \in {"DOM", "PDOM"}, EnsureDom(p)
       PROVE  TypeOK'
  <2>1. CASE p \in bits
    BY <1>0, <1>13, <2>1, SkipType DEF EnsureDom
  <2>2. CASE p \notin bits /\ "CFG" \notin bits
    BY <1>13, <2>2, AssertType DEF EnsureDom, Assertions
  <2>3. Checks(<<"RPO">>) \o <<Task("finish", p, {})>> \in Seq(Tasks)
    BY Names, Lists, TaskType, ThenType
  <2> QED
    BY <1>0, <1>13, <2>1, <2>2, <2>3, SkipType, WaitType DEF EnsureDom, TypeOK
<1>14. ASSUME NEW p \in Passes, CheckAAandDU(p)
       PROVE  TypeOK'
  <2> DEFINE opts == Head(agenda).opts
             du == <<Task("du", p, opts)>>
             wait == Checks(<<"LOOP_INFO", "SCC">>)
             last == <<Task("finish", "AA", {})>>
  <2>1. du \in Seq(Tasks)
    BY <1>h, <1>14, EmptySeq, TaskType, ThenType
  <2>2. last \in Seq(Tasks)
    BY EmptySeq, Names, TaskType, ThenType
  <2>3. /\ wait \o <<>> \in Seq(Tasks)
        /\ wait \o Checks(<<"RPO">>) \in Seq(Tasks)
    BY Lists, ConcatProperties, EmptySeq
  <2>4. \A flow \in {<<>>, Checks(<<"RPO">>)} :
            wait \o flow \o last \o du \in Seq(Tasks)
    BY <2>1, <2>2, <2>3, ConcatProperties
  <2>5. CASE \E what \in Assertions : Assert(what)
    BY <2>5, AssertType
  <2>6. CASE Replace(du) /\ Quiet
               /\ UNCHANGED <<bits, registered, okobj, rpolist, stale>>
    BY <1>0, <2>1, <2>6, WaitType DEF TypeOK
  <2>7. CASE /\ registered' = registered \cup {"AA"}
             /\ \E flow \in {<<>>, Checks(<<"RPO">>)} :
                   Replace(wait \o flow \o last \o du)
             /\ Quiet /\ UNCHANGED <<bits, okobj, rpolist, stale>>
    BY <1>0, <1>o, <2>4, <2>7, WaitType DEF TypeOK
  <2> QED
    BY <1>14, <2>5, <2>6, <2>7 DEF CheckAAandDU, Assertions
<1>15. ASSUME NEW p \in Passes, CheckPass(p)
       PROVE  TypeOK'
  <2>1. PrereqsOf(p) \in {<<"RPO", "DOM">>, <<"DOM">>}
    BY DEF PrereqsOf
  <2> DEFINE work == Checks(PrereqsOf(p)) \o <<Task(WorkOf(p), p, {})>>
  <2>2. work \in Seq(Tasks)
    BY <2>1, Lists, WorkType, ThenType
  <2>3. CASE p \in registered \cap okobj
    BY <1>0, <1>15, <2>3, SkipType DEF CheckPass
  <2>4. CASE p \notin registered \cap okobj
    <3>1. /\ registered' = registered \cup {p}
          /\ okobj' \subseteq okobj
          /\ stale' \subseteq stale \cup {"GVN"}
          /\ Return \/ Replace(work)
          /\ Quiet /\ UNCHANGED <<bits, rpolist>>
          /\ p \in {"GVN", "PRSSA_MGR", "MDSSA_MGR"}
      BY <1>15, <2>4 DEF CheckPass
    <3>2. registered' \subseteq Objects
      BY <3>1, Names DEF TypeOK
    <3>3. stale' \subseteq Results
      BY <3>1, Names DEF TypeOK, ObjResults
    <3> QED
      BY <1>0, <2>2, <3>1, <3>2, <3>3, WaitType DEF TypeOK
  <2> QED
    BY <2>3, <2>4
<1>16. ASSUME NEW p \in Passes, Finish(p)
       PROVE  TypeOK'
  <2>1. CASE p = "AA" /\ ~(Valid("LOOP_INFO") /\ Valid("SCC"))
    BY <1>16, <2>1, AssertType DEF Finish, Assertions
  <2>2. {p} \in SUBSET Results
    BY <1>16, Names DEF Finish, CFGResults, ObjResults, Results, BitResults
  <2> QED
    BY <1>0, <1>o, <1>16, <2>1, <2>2, ComputedType DEF Finish, TypeOK
<1>17. CASE BuildPRSSA
  <2>1. Checks(<<"RPO">>) \o <<Task("finish", "PRSSA_MGR", {})>> \in Seq(Tasks)
    BY Names, Lists, TaskType, ThenType
  <2> QED
    BY <1>0, <1>17, <2>1, WaitType DEF BuildPRSSA, TypeOK
<1>18. CASE GiveUpPRSSA
  <2>1. CASE Assert("stripped PRs have a version")
    BY <2>1, AssertType DEF Assertions
  <2>2. CASE ~Assert("stripped PRs have a version")
    <3>1. /\ okobj' = okobj \cup {"PRSSA_MGR"}
          /\ stale' \subseteq stale \cup {"PRSSA_MGR"}
          /\ Return /\ Quiet /\ UNCHANGED <<bits, registered, rpolist>>
      BY <1>18, <2>2 DEF GiveUpPRSSA
    <3>2. okobj' \subseteq Objects /\ stale' \subseteq Results
      BY <3>1, Names DEF TypeOK, ObjResults
    <3> QED
      BY <1>0, <3>1, <3>2, WaitType, EmptySeq DEF TypeOK
  <2> QED
    BY <2>1, <2>2
<1>19. CASE FinishPRSSA
  <2>1. {"PRSSA_MGR"} \in SUBSET Results
    BY Names DEF ObjResults
  <2>2. bits' \subseteq BitResults /\ okobj' \subseteq Objects /\ stale' \subseteq Results
    BY <1>19, <2>1, Names, RecomputedType DEF FinishPRSSA, TypeOK
  <2> QED
    BY <1>0, <1>19, <2>2, WaitType, EmptySeq DEF FinishPRSSA, TypeOK
<1>20. CASE FinishMDSSA
  <2>1. CASE ~({"MD_REF", "DOM"} \subseteq bits)
    BY <1>20, <2>1, AssertType DEF FinishMDSSA, Assertions
  <2>2. CASE {"MD_REF", "DOM"} \subseteq bits
    <3>1. /\ bits' \subseteq bits
          /\ okobj' \subseteq okobj \cup {"MDSSA_MGR"}
          /\ stale' \subseteq stale \cup {"GVN", "MDSSA_MGR"}
          /\ Return /\ Quiet /\ UNCHANGED <<registered, rpolist>>
      BY <1>20, <2>2 DEF FinishMDSSA
    <3>2. okobj' \subseteq Objects /\ stale' \subseteq Results
      BY <3>1, Names DEF TypeOK, ObjResults
    <3> QED
      BY <1>0, <3>1, <3>2, WaitType, EmptySeq DEF TypeOK
  <2> QED
    BY <2>1, <2>2
<1> QED
  BY <1>1, <1>2, <1>3, <1>4, <1>5, <1>6, <1>7, <1>8, <1>9, <1>10, <1>11, <1>12,
     <1>13, <1>14, <1>15, <1>16, <1>17, <1>18, <1>19, <1>20 DEF Recompute

\* Requests and edits keep the types.
LEMMA RequestType ==
    ASSUME TypeOK, Request \/ IPARequest
    PROVE  TypeOK'
<1>1. PICK list \in Requests \cup IPARequests : agenda' = Checks(list) /\ asked' = list
  BY DEF Request, IPARequest
<1>2. list \in Seq(Passes) /\ Checks(list) \in Seq(Tasks)
  BY <1>1, OptCtxAssumption, ChecksType DEF OptCtxAssumption
<1>3. registered' \subseteq Objects
  BY Names DEF TypeOK, Request, IPARequest
<1> QED
  BY <1>1, <1>2, <1>3 DEF TypeOK, Request, IPARequest

LEMMA EditType ==
    ASSUME TypeOK, Edit
    PROVE  TypeOK'
<1>k. /\ nbb \in {"none", "few", "many"} /\ BBCounts \subseteq {"none", "few", "many"}
      /\ agenda \in Seq(Tasks) /\ failed \in Assertions \cup {"no"}
      /\ asked \in Seq(Passes) /\ <<>> \in Seq(Passes)
      /\ stale \subseteq Results
  BY OptCtxAssumption, EmptySeq DEF TypeOK, OptCtxAssumption
<1>c. CFGResults \cup {"AA", "PRDU", "NONPRDU", "REACH_DEF", "AVAIL_REACH_DEF",
                       "EXPR_TAB"} \cup Solved \subseteq Results
  BY DEF CFGResults, Solved, Results, BitResults, ObjResults
<1>1. CASE CFGChanged
  BY <1>k, <1>c, <1>1, InvalidType DEF CFGChanged, Edited, Resize, TypeOK
<1>2. CASE CFGChangedExcept
  BY <1>k, <1>c, <1>2, InvalidType DEF CFGChangedExcept, Edited, Resize, TypeOK
<1>3. CASE GlobalRefined
  BY <1>k, <1>c, <1>3 DEF GlobalRefined, Edited, TypeOK
<1>4. CASE RedirectTrampoline
  BY <1>k, <1>c, <1>4, InvalidType DEF RedirectTrampoline, Edited, TypeOK
<1>5. CASE LiveChanged
  BY <1>k, <1>c, <1>5, InvalidType DEF LiveChanged, Edited, TypeOK
<1>6. CASE Simplified
  <2>1. /\ bits' \subseteq bits /\ okobj' \subseteq okobj \cup {"CFG"}
        /\ rpolist' \in BOOLEAN
        /\ stale' \subseteq stale \cup CFGResults \cup {"AA", "PRDU", "NONPRDU",
                                      "REACH_DEF", "AVAIL_REACH_DEF"}
    BY <1>6 DEF Simplified, TypeOK
  <2> QED
    BY <1>k, <1>c, <1>6, <2>1, Names DEF Simplified, Edited, TypeOK
<1>7. CASE MDReferenced
  <2>1. stale' \subseteq Results
    BY <1>k, <1>7, Names, RecomputedType DEF MDReferenced
  <2> QED
    BY <1>k, <1>7, <2>1, Names DEF MDReferenced, Edited, TypeOK
<1>8. CASE DoMDSSA
  <2>1. Task("finish", "MDSSA_MGR", {"GVN", "NONPRDU"}) \in Tasks
    BY Names, TaskType
  <2>2. Checks(<<"DOM">>) \o <<Task("finish", "MDSSA_MGR", {"GVN", "NONPRDU"})>>
          \in Seq(Tasks)
    BY <2>1, Lists, ThenType
  <2>3. agenda' \in Seq(Tasks)
    BY <1>k, <1>8, <2>2 DEF DoMDSSA
  <2>4. bits' \subseteq BitResults /\ registered' \subseteq Objects
    BY <1>8, Names DEF DoMDSSA, TypeOK
  <2> QED
    BY <1>k, <1>8, <2>3, <2>4 DEF DoMDSSA, TypeOK
<1>9. CASE MDSSALost
  <2>1. <<"MDSSA_MGR", "DOM", "LOOP_INFO", "CDG">> \in Seq(Passes)
    BY Names
  <2>2. Checks(<<"MDSSA_MGR", "DOM", "LOOP_INFO", "CDG">>) \in Seq(Tasks)
    BY <2>1, ChecksType
  <2> QED
    BY <1>k, <1>9, <2>1, <2>2, InvalidType DEF MDSSALost, TypeOK
<1>10. CASE Propagated
  BY <1>k, <1>c, <1>10, InvalidType DEF Propagated, Edited, TypeOK
<1>11. CASE Hoisted
  <2>1. /\ bits' \subseteq bits /\ okobj' \subseteq okobj /\ rpolist' \in BOOLEAN
        /\ stale' \subseteq stale \cup {"EXPR_TAB"} \cup Solved
    BY <1>11 DEF Hoisted, TypeOK
  <2> QED
    BY <1>k, <1>c, <1>11, <2>1 DEF Hoisted, Edited, TypeOK
<1>12. CASE RegionDone
  BY <1>k, <1>12 DEF RegionDone, Edited, TypeOK
<1>13. CASE IPADestroyed
  BY <1>k, <1>13 DEF IPADestroyed, Edited, TypeOK
<1> QED
  BY <1>1, <1>2, <1>3, <1>4, <1>5, <1>6, <1>7, <1>8, <1>9, <1>10, <1>11, <1>12,
     <1>13 DEF Edit

\* Whatever the passes ask for and however they edit the program, the bits of
\* OptCtx, the table of pass objects and the pending requests stay well
\* formed (opt/optctx.h, opt/pass_mgr.cpp).
THEOREM TypeCorrect == Spec => []TypeOK
<1>1. Init => TypeOK
  BY OptCtxAssumption, EmptySeq DEF Init, TypeOK, OptCtxAssumption
<1>2. TypeOK /\ [Next]_vars => TypeOK'
  <2> SUFFICES ASSUME TypeOK, [Next]_vars
               PROVE  TypeOK'
    OBVIOUS
  <2>1. CASE UNCHANGED vars
    BY <2>1 DEF vars, TypeOK
  <2>2. CASE Next
    BY <2>2, RecomputeType, RequestType, EditType DEF Next
  <2> QED
    BY <2>1, <2>2
<1> QED
  BY <1>1, <1>2, PTL DEF Spec

-----------------------------------------------------------------------------
(* The order of the pending tasks.                                         *)

\* The agenda after its head was replaced, element by element.
LEMMA Shift ==
    ASSUME agenda \in Seq(Tasks), agenda # <<>>,
           NEW s \in Seq(Tasks), agenda' = s \o Tail(agenda)
    PROVE  /\ agenda' \in Seq(Tasks) /\ Len(s) \in Nat
           /\ DOMAIN agenda' = 1..(Len(s) + Len(agenda) - 1)
           /\ \A i \in 1..Len(s) : agenda'[i] = s[i]
           /\ \A i \in 2..Len(agenda) : agenda'[i + Len(s) - 1] = agenda[i]
<1>1. /\ Tail(agenda) \in Seq(Tasks) /\ Len(Tail(agenda)) = Len(agenda) - 1
      /\ \A i \in 1..Len(Tail(agenda)) : Tail(agenda)[i] = agenda[i + 1]
      /\ Len(agenda) \in Nat \ {0} /\ Len(s) \in Nat
  BY HeadTailProperties, EmptySeq, LenProperties
<1>2. /\ agenda' \in Seq(Tasks)
      /\ Len(agenda') = Len(s) + Len(agenda) - 1
      /\ \A i \in 1..(Len(s) + Len(agenda) - 1) :
            agenda'[i] = IF i <= Len(s) THEN s[i] ELSE Tail(agenda)[i - Len(s)]
  BY <1>1, ConcatProperties
<1>3. ASSUME NEW i \in 2..Len(agenda)
      PROVE  agenda'[i + Len(s) - 1] = agenda[i]
  <2>1. /\ i + Len(s) - 1 \in 1..(Len(s) + Len(agenda) - 1)
        /\ ~(i + Len(s) - 1 <= Len(s))
        /\ (i + Len(s) - 1) - Len(s) = i - 1
        /\ i - 1 \in 1..Len(Tail(agenda))
        /\ (i - 1) + 1 = i
    BY <1>1
  <2> QED
    BY <1>1, <1>2, <2>1
<1>4. \A i \in 1..Len(s) : agenda'[i] = s[i]
  BY <1>1, <1>2
<1>5. DOMAIN agenda' = 1..(Len(s) + Len(agenda) - 1)
  BY <1>2, LenProperties
<1> QED
  BY <1>1, <1>2, <1>3, <1>4, <1>5


\* A computation only asks for results of a lower level.
Level(p) ==
    IF p \in {"RPO", "CFG", "SCC", "EXPR_TAB"} THEN 0
    ELSE IF p \in {"DOM", "PDOM"} THEN 1
    ELSE IF p \in {"LOOP_INFO", "CDG"} THEN 2
    ELSE IF p \in {"AA", "MD_REF"} \cup Solved THEN 3 ELSE 4

\* A task runs before the computation that waits for it.
Nesting ==
    \A j \in DOMAIN agenda : agenda[j].op \in {"build", "finish"} =>
        \A i \in 1..(j - 1) : Level(agenda[i].p) < Level(agenda[j].p)

\* A result that the next computation finds there, list included.
Ready(q) == Valid(q) /\ (q = "RPO" => rpolist)

\* What the end of a computation reads without checking it itself, and the
\* tasks that leave it there.
Needs(t) ==
    IF t.op = "finish" /\ t.p = "MDSSA_MGR" THEN {"DOM"}
    ELSE IF t.op = "finish" /\ t.p # "CLASSIC_DU_CHAIN" THEN Inputs[t.p]
    ELSE IF t.op = "solved" THEN {"RPO", "MD_REF"}
    ELSE IF t.op = "build" THEN {"DOM"} ELSE {}

Supplies(t, q) ==
    \/ t.op = "check" /\ t.p = q /\ q \in {"RPO", "LOOP_INFO", "SCC"}
    \/ t.op = "check" /\ {t.p, q} \subseteq {"DOM", "PDOM"}
    \/ t.op \in {"ensure", "finish"} /\ t.p = q /\ q \in {"DOM", "PDOM", "LOOP_INFO"}

Supplied ==
    \A i \in DOMAIN agenda : \A q \in Needs(agenda[i]) :
        Ready(q) \/ \E j \in 1..(i - 1) : Supplies(agenda[j], q)

\* The end of an SSA construction drops nothing a pending computation needs.
DropsLittle(t) ==
    t.op = "finish" /\ t.p \in {"PRSSA_MGR", "MDSSA_MGR"}
        => t.opts \subseteq {"GVN", "NONPRDU"}

OrderInv == /\ TypeOK
            /\ Nesting
            /\ Supplied
            /\ \A i \in DOMAIN agenda : DropsLittle(agenda[i])
            /\ CFGHasBB

\* What may take the place of the head h of the agenda.
Follows(s, h) ==
    /\ s \in Seq(Tasks)
    /\ \A k \in 1..Len(s) : Level(s[k].p) <= Level(h.p) /\ DropsLittle(s[k])
    /\ \A l \in 1..Len(s) : s[l].op \in {"build", "finish"} =>
          \A k \in 1..(l - 1) : Level(s[k].p) < Level(s[l].p)
    /\ \A l \in 1..Len(s) : \A q \in Needs(s[l]) :
          Ready(q)' \/ \E k \in 1..(l - 1) : Supplies(s[k], q)

LEMMA LevelType == \A p : Level(p) \in 0..4
  BY DEF Level

LEMMA FollowsType == ASSUME NEW s, NEW h, Follows(s, h) PROVE s \in Seq(Tasks)
  BY DEF Follows

\* A task behind the new ones has its place in the old agenda.
LEMMA OldPlace ==
    ASSUME NEW L \in Nat, NEW n \in Nat \ {0}, NEW j \in 1..(L + n - 1), ~(j <= L)
    PROVE  \E o \in 2..n : o + L - 1 = j
<1>1. j - L + 1 \in 2..n /\ (j - L + 1) + L - 1 = j
  OBVIOUS
<1> QED
  BY <1>1

LEMMA OldPlaceBefore ==
    ASSUME NEW L \in Nat, NEW n \in Nat \ {0}, NEW o \in 2..n,
           NEW i \in 1..(o + L - 2), ~(i <= L)
    PROVE  \E k \in 2..n : k + L - 1 = i /\ k \in 1..(o - 1)
<1>1. /\ i - L + 1 \in 2..n /\ i - L + 1 \in 1..(o - 1)
      /\ (i - L + 1) + L - 1 = i
  OBVIOUS
<1> QED
  BY <1>1

LEMMA LessThrough ==
    \A a, b, c \in 0..4 : a <= b /\ b < c => a < c
  OBVIOUS

LEMMA NestingStep ==
    ASSUME agenda \in Seq(Tasks), agenda # <<>>, Nesting,
           NEW s, Follows(s, Head(agenda)), agenda' = s \o Tail(agenda)
    PROVE  Nesting'
<1>0. /\ Len(s) \in Nat /\ Len(agenda) \in Nat \ {0} /\ s \in Seq(Tasks)
      /\ DOMAIN agenda = 1..Len(agenda) /\ agenda[1] = Head(agenda)
  BY LenProperties, EmptySeq, FollowsType
<1> SUFFICES ASSUME NEW j \in DOMAIN agenda', agenda'[j].op \in {"build", "finish"},
                    NEW i \in 1..(j - 1)
             PROVE  Level(agenda'[i].p) < Level(agenda'[j].p)
  BY DEF Nesting
<1>1. j \in 1..(Len(s) + Len(agenda) - 1) /\ j \in Nat /\ i \in Nat
  BY <1>0, Shift
<1>2. CASE j <= Len(s)
  <2>1. j \in 1..Len(s) /\ i \in 1..Len(s)
    BY <1>0, <1>1, <1>2
  <2>2. agenda'[j] = s[j] /\ agenda'[i] = s[i]
    BY <1>0, <2>1, Shift
  <2> QED
    BY <2>1, <2>2 DEF Follows
<1>3. CASE ~(j <= Len(s))
  <2>1. PICK o \in 2..Len(agenda) : o + Len(s) - 1 = j
    BY <1>0, <1>1, <1>3, OldPlace
  <2>2. agenda'[j] = agenda[o] /\ o \in DOMAIN agenda
    BY <1>0, <2>1, Shift
  <2>3. \A k \in 1..(o - 1) : Level(agenda[k].p) < Level(agenda[o].p)
    BY <2>2 DEF Nesting
  <2>4. CASE i <= Len(s)
    <3>1. i \in 1..Len(s) /\ agenda'[i] = s[i]
      BY <1>0, <1>1, <2>4, Shift
    <3>2. Level(s[i].p) <= Level(Head(agenda).p)
      BY <3>1 DEF Follows
    <3>3. 1 \in 1..(o - 1)
      BY <2>1
    <3>4. Level(Head(agenda).p) < Level(agenda[o].p)
      BY <1>0, <2>3, <3>3
    <3>5. /\ Level(s[i].p) \in 0..4 /\ Level(Head(agenda).p) \in 0..4
          /\ Level(agenda[o].p) \in 0..4
      BY LevelType
    <3>6. Level(s[i].p) < Level(agenda[o].p)
      BY <3>2, <3>4, <3>5, LessThrough
    <3> QED
      BY <2>2, <3>1, <3>6
  <2>5. CASE ~(i <= Len(s))
    <3>1. PICK k \in 2..Len(agenda) : k + Len(s) - 1 = i /\ k \in 1..(o - 1)
      <4> DEFINE L == Len(s)
                 n == Len(agenda)
      <4>0. L \in Nat /\ n \in Nat \ {0} /\ o \in 2..n /\ o + L - 1 = j /\ i \in 1..(j - 1)
        BY <1>0, <2>1
      <4>1. ~(i <= L)
        BY <2>5
      <4> HIDE DEF L, n
      <4>2. i \in 1..(o + L - 2)
        BY <4>0
      <4>3. \E k \in 2..n : k + L - 1 = i /\ k \in 1..(o - 1)
        BY <4>0, <4>1, <4>2, OldPlaceBefore
      <4> QED
        BY <4>3 DEF L, n
    <3>2. agenda'[i] = agenda[k]
      BY <1>0, <3>1, Shift
    <3> QED
      BY <2>2, <2>3, <3>1, <3>2
  <2> QED
    BY <2>4, <2>5
<1> QED
  BY <1>0, <1>1, <1>2, <1>3

\* The results that computations need.
Base == {"RPO", "DOM", "PDOM", "LOOP_INFO", "SCC", "AA", "MD_REF"}

LEMMA NeedsBase == ASSUME NEW t \in Tasks PROVE Needs(t) \subseteq Base
<1>1. t.p \in Passes
  BY Names DEF Tasks
<1> QED
  BY <1>1 DEF Needs, Base, Inputs, Passes, Results, BitResults, ObjResults, Solved

LEMMA SuppliedStep ==
    ASSUME agenda \in Seq(Tasks), agenda # <<>>, Supplied,
           NEW s, Follows(s, Head(agenda)), agenda' = s \o Tail(agenda),
           \A q \in Base : Ready(q) => Ready(q)',
           \A q \in Base : Supplies(Head(agenda), q) =>
               Ready(q)' \/ \E k \in 1..Len(s) : Supplies(s[k], q)
    PROVE  Supplied'
<1>0. /\ Len(s) \in Nat /\ Len(agenda) \in Nat \ {0} /\ s \in Seq(Tasks)
      /\ DOMAIN agenda = 1..Len(agenda) /\ agenda[1] = Head(agenda)
  BY LenProperties, EmptySeq, FollowsType
<1> SUFFICES ASSUME NEW i \in DOMAIN agenda', NEW q \in Needs(agenda'[i]),
                    ~Ready(q)'
             PROVE  \E j \in 1..(i - 1) : Supplies(agenda'[j], q)
  BY DEF Supplied
<1>1. i \in 1..(Len(s) + Len(agenda) - 1) /\ i \in Nat
  BY <1>0, Shift
<1>2. CASE i <= Len(s)
  <2>1. i \in 1..Len(s) /\ agenda'[i] = s[i]
    BY <1>0, <1>1, <1>2, Shift
  <2>2. PICK j \in 1..(i - 1) : Supplies(s[j], q)
    BY <2>1 DEF Follows
  <2>3. j \in 1..Len(s) /\ agenda'[j] = s[j]
    BY <1>0, <2>1, <2>2, Shift
  <2> QED
    BY <2>2, <2>3
<1>3. CASE ~(i <= Len(s))
  <2>1. PICK o \in 2..Len(agenda) : o + Len(s) - 1 = i
    BY <1>0, <1>1, <1>3, OldPlace
  <2>2. agenda'[i] = agenda[o] /\ o \in DOMAIN agenda /\ agenda[o] \in Tasks
    BY <1>0, <2>1, Shift
  <2>3. q \in Needs(agenda[o]) /\ q \in Base
    BY <2>2, NeedsBase
  <2>4. PICK j \in 1..(o - 1) : Supplies(agenda[j], q)
    BY <2>2, <2>3 DEF Supplied
  <2>5. CASE j = 1
    <3>1. PICK k \in 1..Len(s) : Supplies(s[k], q)
      BY <1>0, <2>3, <2>4, <2>5
    <3>2. k \in 1..(i - 1) /\ agenda'[k] = s[k]
      BY <1>0, <1>1, <1>3, Shift
    <3> QED
      BY <3>1, <3>2
  <2>6. CASE j # 1
    <3>1. j \in 2..Len(agenda) /\ j + Len(s) - 1 \in 1..(i - 1)
      BY <1>0, <1>1, <2>1, <2>4, <2>6
    <3>2. agenda'[j + Len(s) - 1] = agenda[j]
      BY <1>0, <3>1, Shift
    <3> QED
      BY <2>4, <3>1, <3>2
  <2> QED
    BY <2>5, <2>6
<1> QED
  BY <1>0, <1>1, <1>2, <1>3

LEMMA DropsStep ==
    ASSUME agenda \in Seq(Tasks), agenda # <<>>,
           \A i \in DOMAIN agenda : DropsLittle(agenda[i]),
           NEW s, Follows(s, Head(agenda)), agenda' = s \o Tail(agenda)
    PROVE  \A i \in DOMAIN agenda' : DropsLittle(agenda'[i])
<1>0. /\ Len(s) \in Nat /\ Len(agenda) \in Nat \ {0} /\ s \in Seq(Tasks)
      /\ DOMAIN agenda = 1..Len(agenda)
  BY LenProperties, EmptySeq, FollowsType
<1> SUFFICES ASSUME NEW i \in DOMAIN agenda'
             PROVE  DropsLittle(agenda'[i])
  OBVIOUS
<1>1. i \in 1..(Len(s) + Len(agenda) - 1) /\ i \in Nat
  BY <1>0, Shift
<1>2. CASE i <= Len(s)
  <2>1. i \in 1..Len(s) /\ agenda'[i] = s[i]
    BY <1>0, <1>1, <1>2, Shift
  <2> QED
    BY <2>1 DEF Follows
<1>3. CASE ~(i <= Len(s))
  <2>1. PICK o \in 2..Len(agenda) : o + Len(s) - 1 = i
    BY <1>0, <1>1, <1>3, OldPlace
  <2>2. agenda'[i] = agenda[o]
    BY <1>0, <2>1, Shift
  <2> QED
    BY <1>0, <2>1, <2>2
<1> QED
  BY <1>0, <1>1, <1>2, <1>3

\* One step of a recomputation, in those terms.
LEMMA HandOver ==
    ASSUME OrderInv, TypeOK', CFGHasBB', agenda # <<>>,
           NEW s, Follows(s, Head(agenda)), agenda' = s \o Tail(agenda),
           \A q \in Base : Ready(q) => Ready(q)',
           \A q \in Base : Supplies(Head(agenda), q) =>
               Ready(q)' \/ \E k \in 1..Len(s) : Supplies(s[k], q)
    PROVE  OrderInv'
<1>1. agenda \in Seq(Tasks)
  BY DEF OrderInv, TypeOK
<1>2. Nesting'
  BY <1>1, NestingStep DEF OrderInv
<1>3. Supplied'
  BY <1>1, SuppliedStep DEF OrderInv
<1>4. \A i \in DOMAIN agenda' : DropsLittle(agenda'[i])
  BY <1>1, DropsStep DEF OrderInv
<1> QED
  BY <1>2, <1>3, <1>4 DEF OrderInv

-----------------------------------------------------------------------------
(* The lists of tasks that take the place of the head.                     *)

\* A sequence with one more element.
LEMMA OneMore ==
    ASSUME NEW s \in Seq(Tasks), NEW t \in Tasks
    PROVE  /\ s \o <<t>> \in Seq(Tasks) /\ Len(s) \in Nat
           /\ Len(s \o <<t>>) = Len(s) + 1
           /\ (s \o <<t>>)[Len(s) + 1] = t
           /\ \A k \in 1..Len(s) : (s \o <<t>>)[k] = s[k]
<1>1. <<t>> \in Seq(Tasks) /\ Len(<<t>>) = 1 /\ <<t>>[1] = t /\ Len(s) \in Nat
  BY ThenType, LenProperties
<1>2. /\ Len(s \o <<t>>) = Len(s) + 1
      /\ \A k \in 1..(Len(s) + 1) :
            (s \o <<t>>)[k] = IF k <= Len(s) THEN s[k] ELSE <<t>>[k - Len(s)]
  BY <1>1, ConcatProperties
<1>3. /\ Len(s) + 1 \in 1..(Len(s) + 1) /\ ~(Len(s) + 1 <= Len(s))
      /\ (Len(s) + 1) - Len(s) = 1
      /\ \A k \in 1..Len(s) : k \in 1..(Len(s) + 1) /\ k <= Len(s)
  BY <1>1
<1> QED
  BY <1>1, <1>2, <1>3, ThenType

LEMMA ChecksAt ==
    ASSUME NEW list \in Seq(Passes)
    PROVE  /\ Len(Checks(list)) = Len(list) /\ DOMAIN list = 1..Len(list)
           /\ Checks(list) \in Seq(Tasks)
           /\ \A i \in 1..Len(list) :
                 Checks(list)[i] = Task("check", list[i], OptsOf(list))
<1>1. DOMAIN list = 1..Len(list) /\ Len(list) \in Nat
  BY LenProperties
<1>2. DOMAIN Checks(list) = 1..Len(list)
  BY <1>1 DEF Checks
<1>3. Len(Checks(list)) = Len(list) /\ Checks(list) \in Seq(Tasks)
  BY <1>1, <1>2, ChecksType, LenProperties
<1> QED
  BY <1>1, <1>3 DEF Checks

LEMMA TaskFields ==
    ASSUME NEW op, NEW x, NEW opts
    PROVE  /\ Task(op, x, opts).op = op /\ Task(op, x, opts).p = x
           /\ Task(op, x, opts).opts = opts
  BY DEF Task

LEMMA FollowsNothing == ASSUME NEW h PROVE Follows(<<>>, h)
  BY EmptySeq DEF Follows

LEMMA FollowsChecks ==
    ASSUME NEW list \in Seq(Passes), NEW h,
           \A i \in 1..Len(list) : Level(list[i]) <= Level(h.p)
    PROVE  Follows(Checks(list), h)
<1>1. ASSUME NEW k \in 1..Len(list)
      PROVE  /\ Checks(list)[k].op = "check" /\ Checks(list)[k].p = list[k]
             /\ DropsLittle(Checks(list)[k]) /\ Needs(Checks(list)[k]) = {}
  <2>1. Checks(list)[k] = Task("check", list[k], OptsOf(list))
    BY ChecksAt
  <2> QED
    BY <2>1, TaskFields DEF DropsLittle, Needs
<1> QED
  BY <1>1, ChecksAt DEF Follows

LEMMA FollowsThen ==
    ASSUME NEW h, NEW s, Follows(s, h), NEW t \in Tasks,
           Level(t.p) <= Level(h.p), DropsLittle(t),
           t.op \in {"build", "finish"} => \A k \in 1..Len(s) : Level(s[k].p) < Level(t.p),
           \A q \in Needs(t) : Ready(q)' \/ \E k \in 1..Len(s) : Supplies(s[k], q)
    PROVE  Follows(s \o <<t>>, h)
<1> DEFINE u == s \o <<t>>
<1>1. /\ u \in Seq(Tasks) /\ Len(s) \in Nat /\ Len(u) = Len(s) + 1
      /\ u[Len(s) + 1] = t /\ \A k \in 1..Len(s) : u[k] = s[k]
  BY OneMore, FollowsType
<1> HIDE DEF u
<1>2. ASSUME NEW l \in 1..Len(u)
      PROVE  /\ Level(u[l].p) <= Level(h.p) /\ DropsLittle(u[l])
             /\ u[l].op \in {"build", "finish"} =>
                   \A k \in 1..(l - 1) : Level(u[k].p) < Level(u[l].p)
             /\ \A q \in Needs(u[l]) :
                   Ready(q)' \/ \E k \in 1..(l - 1) : Supplies(u[k], q)
  <2>1. CASE l \in 1..Len(s)
    <3>1. u[l] = s[l] /\ \A k \in 1..(l - 1) : k \in 1..Len(s) /\ u[k] = s[k]
      BY <1>1, <2>1
    <3> QED
      BY <2>1, <3>1 DEF Follows
  <2>2. CASE l = Len(s) + 1
    <3>1. /\ u[l] = t /\ l - 1 = Len(s)
          /\ \A k \in 1..(l - 1) : k \in 1..Len(s) /\ u[k] = s[k]
      BY <1>1, <2>2
    <3> QED
      BY <3>1
  <2> QED
    BY <1>1, <2>1, <2>2
<1>3. Follows(u, h)
  BY <1>1, <1>2 DEF Follows
<1> QED
  BY <1>3 DEF u

\* A list of requests supplies what it names.
LEMMA ChecksSupply ==
    ASSUME NEW list \in Seq(Passes), NEW i \in 1..Len(list), NEW q,
           \/ list[i] = q /\ q \in {"RPO", "LOOP_INFO", "SCC"}
           \/ {list[i], q} \subseteq {"DOM", "PDOM"}
    PROVE  \E k \in 1..Len(Checks(list)) : Supplies(Checks(list)[k], q)
<1>1. /\ i \in 1..Len(Checks(list))
      /\ Checks(list)[i] = Task("check", list[i], OptsOf(list))
  BY ChecksAt
<1>2. Supplies(Checks(list)[i], q)
  BY <1>1, TaskFields DEF Supplies
<1> QED
  BY <1>1, <1>2

\* A request for x brings q up to date.
Asks(x, q) ==
    \/ x = q /\ q \in {"RPO", "LOOP_INFO", "SCC"}
    \/ {x, q} \subseteq {"DOM", "PDOM"}

\* A computation that waits for a list.
LEMMA FollowsWait ==
    ASSUME NEW h, NEW list \in Seq(Passes), NEW t \in Tasks,
           \A i \in 1..Len(list) : Level(list[i]) <= Level(h.p),
           Level(t.p) <= Level(h.p), DropsLittle(t),
           t.op \in {"build", "finish"} => \A i \in 1..Len(list) : Level(list[i]) < Level(t.p),
           \A q \in Needs(t) : Ready(q)' \/ \E i \in 1..Len(list) : Asks(list[i], q)
    PROVE  /\ Follows(Checks(list) \o <<t>>, h)
           /\ \E k \in 1..Len(Checks(list) \o <<t>>) :
                 (Checks(list) \o <<t>>)[k] = t
<1>1. Follows(Checks(list), h)
  BY FollowsChecks
<1>2. \A k \in 1..Len(Checks(list)) : Checks(list)[k].p = list[k] /\ k \in 1..Len(list)
  BY ChecksAt, TaskFields
<1>3. t.op \in {"build", "finish"} =>
          \A k \in 1..Len(Checks(list)) : Level(Checks(list)[k].p) < Level(t.p)
  BY <1>2
<1>4. \A q \in Needs(t) :
          Ready(q)' \/ \E k \in 1..Len(Checks(list)) : Supplies(Checks(list)[k], q)
  BY ChecksSupply DEF Asks
<1>5. Follows(Checks(list) \o <<t>>, h)
  BY <1>1, <1>3, <1>4, FollowsThen
<1>6. /\ Len(Checks(list)) + 1 \in 1..Len(Checks(list) \o <<t>>)
      /\ (Checks(list) \o <<t>>)[Len(Checks(list)) + 1] = t
  BY OneMore, ChecksAt
<1> QED
  BY <1>5, <1>6

\* A computation that waits for one result.
LEMMA FollowsOne ==
    ASSUME NEW h, NEW x \in Passes, NEW t \in Tasks,
           Level(x) <= Level(h.p), Level(t.p) <= Level(h.p), DropsLittle(t),
           t.op \in {"build", "finish"} => Level(x) < Level(t.p),
           \A q \in Needs(t) : Ready(q)' \/ Asks(x, q)
    PROVE  /\ Follows(Checks(<<x>>) \o <<t>>, h)
           /\ \E k \in 1..Len(Checks(<<x>>) \o <<t>>) :
                 (Checks(<<x>>) \o <<t>>)[k] = t
<1> DEFINE list == <<x>>
<1>1. list \in Seq(Passes) /\ Len(list) = 1 /\ list[1] = x
  OBVIOUS
<1> HIDE DEF list
<1>2. (\A i \in 1..Len(list) : list[i] = x) /\ 1 \in 1..Len(list)
  BY <1>1
<1>3. /\ Follows(Checks(list) \o <<t>>, h)
      /\ \E k \in 1..Len(Checks(list) \o <<t>>) : (Checks(list) \o <<t>>)[k] = t
  BY <1>1, <1>2, FollowsWait
<1> QED
  BY <1>3 DEF list

LEMMA Levels ==
    /\ Level("RPO") = 0 /\ Level("CFG") = 0 /\ Level("SCC") = 0
    /\ Level("DOM") = 1 /\ Level("PDOM") = 1
    /\ Level("LOOP_INFO") = 2 /\ Level("CDG") = 2
    /\ \A x \in {"AA", "MD_REF"} \cup Solved : Level(x) = 3
    /\ \A x \in {"CLASSIC_DU_CHAIN", "GVN", "PRSSA_MGR", "MDSSA_MGR"} : Level(x) = 4
  BY DEF Level, Solved

LEMMA InputsAre ==
    /\ \A r \in {"CFG", "RPO", "SCC", "EXPR_TAB"} : Inputs[r] = {}
    /\ \A r \in {"DOM", "PDOM"} : Inputs[r] = {"RPO"}
    /\ Inputs["LOOP_INFO"] = {"DOM"}
    /\ Inputs["CDG"] = {"PDOM"}
    /\ Inputs["AA"] = {"LOOP_INFO", "SCC"}
    /\ Inputs["MD_REF"] = {"AA"}
    /\ \A r \in Solved : Inputs[r] = {"RPO", "MD_REF"}
    /\ \A r \in {"PRDU", "NONPRDU"} : Inputs[r] = {"MD_REF", "REACH_DEF"}
    /\ Inputs["GVN"] = {"RPO", "DOM", "MD_REF"}
    /\ Inputs["PRSSA_MGR"] = {"RPO", "DOM"}
    /\ Inputs["MDSSA_MGR"] = {"DOM", "MD_REF"}
<1>1. \A r \in {"CFG", "RPO", "SCC", "EXPR_TAB"} : Inputs[r] = {}
  BY DEF Inputs, Results, BitResults, ObjResults, Solved
<1>2. \A r \in {"DOM", "PDOM"} : Inputs[r] = {"RPO"}
  BY DEF Inputs, Results, BitResults, Solved
<1>3. Inputs["LOOP_INFO"] = {"DOM"} /\ Inputs["MD_REF"] = {"AA"}
  BY DEF Inputs, Results, BitResults, Solved
<1>4. Inputs["CDG"] = {"PDOM"} /\ Inputs["GVN"] = {"RPO", "DOM", "MD_REF"}
  BY DEF Inputs, Results, ObjResults, Solved
<1>5. Inputs["AA"] = {"LOOP_INFO", "SCC"}
  BY DEF Inputs, Results, BitResults, Solved
<1>6. \A r \in Solved : Inputs[r] = {"RPO", "MD_REF"}
  BY DEF Inputs, Results, BitResults, Solved
<1>7. \A r \in {"PRDU", "NONPRDU"} : Inputs[r] = {"MD_REF", "REACH_DEF"}
  BY DEF Inputs, Results, BitResults, Solved
<1>8. Inputs["PRSSA_MGR"] = {"RPO", "DOM"} /\ Inputs["MDSSA_MGR"] = {"DOM", "MD_REF"}
  BY DEF Inputs, Results, ObjResults, Solved
<1> QED
  BY <1>1, <1>2, <1>3, <1>4, <1>5, <1>6, <1>7, <1>8

-----------------------------------------------------------------------------
(* The steps of a recomputation.                                           *)

\* What no step of a recomputation does to a result that others need.
Keeps ==
    /\ bits \cap Base \subseteq bits' /\ registered \subseteq registered'
    /\ okobj \cap {"SCC"} \subseteq okobj' /\ (rpolist => rpolist')
    /\ nbb' = nbb /\ ("CFG" \in bits' \ bits => nbb # "none")

LEMMA KeepsReady ==
    ASSUME Keeps, TypeOK, TypeOK'
    PROVE  \A q \in Base : Ready(q) => Ready(q)'
  BY DEF Keeps, Base, Ready, Valid, BitResults, TypeOK

LEMMA WaitStep ==
    ASSUME OrderInv, TypeOK', agenda # <<>>, Keeps,
           NEW s, Replace(s), Follows(s, Head(agenda)),
           \A q \in Base : Supplies(Head(agenda), q) =>
               Ready(q)' \/ \E k \in 1..Len(s) : Supplies(s[k], q)
    PROVE  OrderInv'
<1>1. CFGHasBB'
  BY DEF Keeps, OrderInv, CFGHasBB
<1> QED
  BY <1>1, HandOver, KeepsReady DEF Replace, OrderInv

LEMMA DoneStep ==
    ASSUME OrderInv, TypeOK', agenda # <<>>, Keeps, Return,
           \A q \in Base : Supplies(Head(agenda), q) => Ready(q)'
    PROVE  OrderInv'
<1>1. Tail(agenda) \in Seq(Tasks)
  BY DEF OrderInv, TypeOK
<1>2. Replace(<<>>)
  BY <1>1, ConcatEmptySeq DEF Replace, Return
<1> QED
  BY <1>2, FollowsNothing, WaitStep

LEMMA StopStep ==
    ASSUME OrderInv, TypeOK', NEW what, Assert(what)
    PROVE  OrderInv'
<1>1. DOMAIN agenda' = {} /\ UNCHANGED <<bits, nbb>>
  BY DEF Assert
<1> QED
  BY <1>1 DEF OrderInv, Nesting, Supplied, CFGHasBB

LEMMA SkipStays == ASSUME Skip PROVE Keeps /\ Return /\ \A q : Ready(q) => Ready(q)'
  BY DEF Skip, Quiet, Keeps, Ready, Valid

LEMMA CheckCFGOrder ==
    ASSUME OrderInv, TypeOK', agenda # <<>>, CheckCFG
    PROVE  OrderInv'
<1>1. Keeps /\ Return
  BY SkipStays DEF CheckCFG, Keeps, setValid, Quiet
<1>2. \A q \in Base : ~Supplies(Head(agenda), q)
  BY DEF CheckCFG, Top, Supplies
<1> QED
  BY <1>1, <1>2, DoneStep

LEMMA CheckRPOOrder ==
    ASSUME OrderInv, TypeOK', agenda # <<>>, CheckRPO
    PROVE  OrderInv'
<1>1. CASE "CFG" \notin bits
  BY <1>1, StopStep DEF CheckRPO
<1>2. CASE "CFG" \in bits
  <2>1. \A q \in Base : Supplies(Head(agenda), q) => q = "RPO"
    BY DEF CheckRPO, Top, Supplies
  <2>2. nbb # "none"
    BY <1>2 DEF OrderInv, CFGHasBB
  <2>3. CASE "RPO" \in bits /\ rpolist
    <3>1. Skip /\ Ready("RPO")
      BY <1>2, <2>3 DEF CheckRPO, Ready, Valid, BitResults
    <3> QED
      BY <2>1, <3>1, SkipStays, DoneStep
  <2>4. CASE ~("RPO" \in bits /\ rpolist)
    <3>1. setValid({"RPO"}, registered) /\ rpolist' = TRUE /\ Return /\ Quiet
      BY <1>2, <2>2, <2>4 DEF CheckRPO
    <3>2. Keeps /\ Ready("RPO")'
      BY <3>1 DEF setValid, Keeps, Quiet, Ready, Valid, BitResults
    <3> QED
      BY <2>1, <3>1, <3>2, DoneStep
  <2> QED
    BY <2>3, <2>4
<1> QED
  BY <1>1, <1>2

LEMMA CheckDomOrder ==
    ASSUME OrderInv, TypeOK', agenda # <<>>, NEW p \in {"DOM", "PDOM"}, CheckDom(p)
    PROVE  OrderInv'
<1> DEFINE a == Task("ensure", "DOM", {})
           b == Task("ensure", "PDOM", {})
           s == <<a, b>>
<1>1. a \in Tasks /\ b \in Tasks
  BY Names, TaskType
<1>2. /\ a.op = "ensure" /\ a.p = "DOM" /\ b.op = "ensure" /\ b.p = "PDOM"
  BY TaskFields
<1>3. s \in Seq(Tasks) /\ Len(s) = 2 /\ s[1] = a /\ s[2] = b
  BY <1>1
<1>4. /\ Replace(s) /\ Keeps
      /\ Head(agenda).op = "check" /\ Head(agenda).p = p
  BY DEF CheckDom, Top, Quiet, Keeps
<1> HIDE DEF a, b, s
<1>5. \A k \in 1..Len(s) : /\ s[k] \in {a, b} /\ s[k].op = "ensure"
                           /\ Level(s[k].p) = 1
  BY <1>2, <1>3 DEF Level
<1>6. Follows(s, Head(agenda))
  BY <1>3, <1>4, <1>5 DEF Follows, Level, DropsLittle, Needs
<1>7. \A q \in Base : Supplies(Head(agenda), q) =>
          \E k \in 1..Len(s) : Supplies(s[k], q)
  <2>1. ASSUME NEW q \in Base, Supplies(Head(agenda), q)
        PROVE  \E k \in 1..Len(s) : Supplies(s[k], q)
    <3>1. q \in {"DOM", "PDOM"}
      BY <1>4, <2>1 DEF Supplies
    <3>2. 1 \in 1..Len(s) /\ 2 \in 1..Len(s)
      BY <1>3
    <3> QED
      BY <1>2, <1>3, <3>1, <3>2 DEF Supplies
  <2> QED
    BY <2>1
<1> QED
  BY <1>4, <1>6, <1>7, WaitStep

\* The end of a computation supplies its result.
LEMMA FinishSupplies ==
    ASSUME NEW s, NEW x \in {"DOM", "PDOM", "LOOP_INFO"}, NEW opts,
           \E k \in 1..Len(s) : s[k] = Task("finish", x, opts)
    PROVE  \E k \in 1..Len(s) : Supplies(s[k], x)
  BY TaskFields DEF Supplies

LEMMA EnsureDomOrder ==
    ASSUME OrderInv, TypeOK', agenda # <<>>, NEW p \in {"DOM", "PDOM"}, EnsureDom(p)
    PROVE  OrderInv'
<1>0. /\ Head(agenda).op = "ensure" /\ Head(agenda).p = p
      /\ \A q \in Base : Supplies(Head(agenda), q) => q = p
  BY DEF EnsureDom, Top, Supplies
<1>1. CASE p \in bits
  <2>1. Skip /\ Ready(p)
    BY <1>1 DEF EnsureDom, Ready, Valid, BitResults
  <2> QED
    BY <1>0, <2>1, SkipStays, DoneStep
<1>2. CASE p \notin bits /\ "CFG" \notin bits
  BY <1>2, StopStep DEF EnsureDom
<1>3. CASE p \notin bits /\ "CFG" \in bits
  <2> DEFINE t == Task("finish", p, {})
             s == Checks(<<"RPO">>) \o <<t>>
  <2>1. nbb # "none"
    BY <1>3 DEF OrderInv, CFGHasBB
  <2>2. Replace(s) /\ Keeps
    BY <1>3, <2>1 DEF EnsureDom, Quiet, Keeps
  <2>t. t \in Tasks
    BY Names, TaskType
  <2>3. t.op = "finish" /\ t.p = p /\ t.opts = {}
    BY TaskFields
  <2>4. "RPO" \in Passes
    BY Names
  <2> HIDE DEF t
  <2>5. /\ DropsLittle(t) /\ Needs(t) \subseteq {"RPO"}
    BY <2>3, InputsAre DEF DropsLittle, Needs
  <2>f. /\ Level("RPO") < Level(t.p) /\ Level(t.p) = Level(Head(agenda).p)
        /\ Level("RPO") <= Level(Head(agenda).p) /\ Level(t.p) <= Level(Head(agenda).p)
        /\ \A q \in Needs(t) : Asks("RPO", q)
    BY <1>0, <2>3, <2>5, Levels DEF Asks
  <2>6. Follows(s, Head(agenda)) /\ \E k \in 1..Len(s) : s[k] = t
    BY <2>t, <2>4, <2>5, <2>f, FollowsOne
  <2>7. \E k \in 1..Len(s) : Supplies(s[k], p)
    BY <2>6, FinishSupplies DEF t
  <2> QED
    BY <1>0, <2>2, <2>6, <2>7, WaitStep
<1> QED
  BY <1>1, <1>2, <1>3

LEMMA CheckLoopInfoOrder ==
    ASSUME OrderInv, TypeOK', agenda # <<>>, CheckLoopInfo
    PROVE  OrderInv'
<1>0. /\ Head(agenda).op = "check" /\ Head(agenda).p = "LOOP_INFO"
      /\ \A q \in Base : Supplies(Head(agenda), q) => q = "LOOP_INFO"
  BY DEF CheckLoopInfo, Top, Supplies
<1>1. CASE "LOOP_INFO" \in bits
  <2>1. Skip /\ Ready("LOOP_INFO")
    BY <1>1 DEF CheckLoopInfo, Ready, Valid, BitResults
  <2> QED
    BY <1>0, <2>1, SkipStays, DoneStep
<1>2. CASE "LOOP_INFO" \notin bits /\ "CFG" \notin bits
  BY <1>2, StopStep DEF CheckLoopInfo
<1>3. CASE "LOOP_INFO" \notin bits /\ "CFG" \in bits
  <2> DEFINE t == Task("finish", "LOOP_INFO", {})
             s == Checks(<<"DOM">>) \o <<t>>
  <2>1. nbb # "none"
    BY <1>3 DEF OrderInv, CFGHasBB
  <2>2. Replace(s) /\ Keeps
    BY <1>3, <2>1 DEF CheckLoopInfo, Quiet, Keeps
  <2>t. t \in Tasks
    BY Names, TaskType
  <2>3. t.op = "finish" /\ t.p = "LOOP_INFO" /\ t.opts = {}
    BY TaskFields
  <2>4. "DOM" \in Passes
    BY Names
  <2> HIDE DEF t
  <2>5. /\ DropsLittle(t) /\ Needs(t) \subseteq {"DOM"}
    BY <2>3, InputsAre DEF DropsLittle, Needs
  <2>f. /\ Level("DOM") < Level(t.p) /\ Level(t.p) = Level(Head(agenda).p)
        /\ Level("DOM") <= Level(Head(agenda).p) /\ Level(t.p) <= Level(Head(agenda).p)
        /\ \A q \in Needs(t) : Asks("DOM", q)
    BY <1>0, <2>3, <2>5, Levels DEF Asks
  <2>6. Follows(s, Head(agenda)) /\ \E k \in 1..Len(s) : s[k] = t
    BY <2>t, <2>4, <2>5, <2>f, FollowsOne
  <2>7. \E k \in 1..Len(s) : Supplies(s[k], "LOOP_INFO")
    BY <2>6, FinishSupplies DEF t
  <2> QED
    BY <1>0, <2>2, <2>6, <2>7, WaitStep
<1> QED
  BY <1>1, <1>2, <1>3

LEMMA CheckCDGOrder ==
    ASSUME OrderInv, TypeOK', agenda # <<>>, CheckCDG
    PROVE  OrderInv'
<1>0. /\ Head(agenda).op = "check" /\ Head(agenda).p = "CDG"
      /\ \A q \in Base : ~Supplies(Head(agenda), q)
  BY DEF CheckCDG, Top, Supplies
<1>1. CASE "CDG" \in registered \cap okobj
  <2>1. Skip
    BY <1>1 DEF CheckCDG
  <2> QED
    BY <1>0, <2>1, SkipStays, DoneStep
<1>2. CASE "CDG" \notin registered \cap okobj /\ "CFG" \notin bits
  BY <1>2, StopStep DEF CheckCDG
<1>3. CASE "CDG" \notin registered \cap okobj /\ "CFG" \in bits
  <2> DEFINE t == Task("finish", "CDG", {})
             s == Checks(<<"PDOM">>) \o <<t>>
  <2>1. nbb # "none"
    BY <1>3 DEF OrderInv, CFGHasBB
  <2>2. Replace(s) /\ Keeps
    BY <1>3, <2>1 DEF CheckCDG, Quiet, Keeps
  <2>t. t \in Tasks
    BY Names, TaskType
  <2>3. t.op = "finish" /\ t.p = "CDG" /\ t.opts = {}
    BY TaskFields
  <2>4. "PDOM" \in Passes
    BY Names
  <2> HIDE DEF t
  <2>5. /\ DropsLittle(t) /\ Needs(t) \subseteq {"PDOM"}
    BY <2>3, InputsAre DEF DropsLittle, Needs
  <2>f. /\ Level("PDOM") < Level(t.p) /\ Level(t.p) = Level(Head(agenda).p)
        /\ Level("PDOM") <= Level(Head(agenda).p) /\ Level(t.p) <= Level(Head(agenda).p)
        /\ \A q \in Needs(t) : Asks("PDOM", q)
    BY <1>0, <2>3, <2>5, Levels DEF Asks
  <2>6. Follows(s, Head(agenda))
    BY <2>t, <2>4, <2>5, <2>f, FollowsOne
  <2> QED
    BY <1>0, <2>2, <2>6, WaitStep
<1> QED
  BY <1>1, <1>2, <1>3

LEMMA CheckSCCOrder ==
    ASSUME OrderInv, TypeOK', agenda # <<>>, CheckSCC
    PROVE  OrderInv'
<1>0. \A q \in Base : Supplies(Head(agenda), q) => q = "SCC"
  BY DEF CheckSCC, Top, Supplies
<1>1. CASE isPassValid("SCC")
  <2>1. Skip /\ Ready("SCC")
    BY <1>1 DEF CheckSCC, isPassValid, Ready, Valid, BitResults, OrderInv, TypeOK
  <2> QED
    BY <1>0, <2>1, SkipStays, DoneStep
<1>2. CASE ~isPassValid("SCC") /\ "CFG" \notin bits
  BY <1>2, StopStep DEF CheckSCC
<1>3. CASE ~isPassValid("SCC") /\ "CFG" \in bits
  <2>1. /\ setValid({"SCC"}, registered \cup {"SCC"})
        /\ Return /\ Quiet /\ UNCHANGED rpolist
    BY <1>3 DEF CheckSCC
  <2>2. Keeps /\ Ready("SCC")'
    BY <2>1 DEF setValid, Keeps, Quiet, Ready, Valid, BitResults
  <2> QED
    BY <1>0, <2>1, <2>2, DoneStep
<1> QED
  BY <1>1, <1>2, <1>3

LEMMA CheckExprTabOrder ==
    ASSUME OrderInv, TypeOK', agenda # <<>>, CheckExprTab
    PROVE  OrderInv'
<1>1. Keeps /\ Return
  BY SkipStays DEF CheckExprTab, Keeps, setValid, Quiet
<1>2. \A q \in Base : ~Supplies(Head(agenda), q)
  BY DEF CheckExprTab, Top, Supplies
<1> QED
  BY <1>1, <1>2, DoneStep

\* A task that waits for nothing takes the place of the head.
LEMMA FollowsPlain ==
    ASSUME NEW h, NEW s, Follows(s, h), NEW t \in Tasks,
           t.op \notin {"build", "finish", "solved"}, Level(t.p) <= Level(h.p)
    PROVE  Follows(s \o <<t>>, h)
<1>1. DropsLittle(t) /\ Needs(t) = {}
  BY DEF DropsLittle, Needs
<1> QED
  BY <1>1, FollowsThen

LEMMA FollowsAlone ==
    ASSUME NEW h, NEW t \in Tasks,
           t.op \notin {"build", "finish", "solved"}, Level(t.p) <= Level(h.p)
    PROVE  Follows(<<t>>, h)
<1>1. Follows(<<>> \o <<t>>, h)
  BY FollowsNothing, FollowsPlain
<1>2. <<>> \o <<t>> = <<t>>
  BY ThenType, ConcatEmptySeq, EmptySeq
<1> QED
  BY <1>1, <1>2

\* The requests of alias analysis, with and without the one for RPO.
LEMMA FollowsAA ==
    ASSUME NEW h, Level(h.p) = 3,
           NEW flow \in {<<>>, Checks(<<"RPO">>)}, NEW u \in Tasks,
           u.op = "du", Level(u.p) = 3
    PROVE  Follows(Checks(<<"LOOP_INFO", "SCC">>) \o flow
                     \o <<Task("finish", "AA", {})>> \o <<u>>, h)
<1> DEFINE list == <<"LOOP_INFO", "SCC">>
           r == Task("check", "RPO", OptsOf(<<"RPO">>))
           t == Task("finish", "AA", {})
           pre == Checks(list) \o flow
<1>1. list \in Seq(Passes) /\ Len(list) = 2 /\ list[1] = "LOOP_INFO" /\ list[2] = "SCC"
  BY Names
<1>2. t \in Tasks /\ r \in Tasks
  <2>1. <<"RPO">> \in Seq(Passes) /\ "RPO" \in Passes /\ "AA" \in Passes
    BY Names
  <2>2. OptsOf(<<"RPO">>) \in SUBSET (Passes \cup Results)
    BY <2>1, OptsType
  <2>3. r \in Tasks
    BY <2>1, <2>2, TaskType
  <2>4. t \in Tasks
    BY <2>1, TaskType
  <2> QED
    BY <2>3, <2>4
<1>3. t.op = "finish" /\ t.p = "AA" /\ t.opts = {} /\ r.op = "check" /\ r.p = "RPO"
  BY TaskFields
<1>4. Checks(<<"RPO">>) = <<r>>
  BY DEF Checks
<1> HIDE DEF list, r, t
<1>5. /\ Checks(list) \in Seq(Tasks) /\ Len(Checks(list)) = 2
      /\ \A k \in 1..2 : Checks(list)[k].op = "check"
                           /\ Checks(list)[k].p = list[k]
  BY <1>1, ChecksAt, TaskFields
<1>6. Follows(Checks(list), h)
  <2>1. \A i \in 1..Len(list) : Level(list[i]) <= Level(h.p)
    BY <1>1, Levels
  <2> QED
    BY <1>1, <2>1, FollowsChecks
<1>7. /\ Follows(pre, h) /\ 1 \in 1..Len(pre) /\ 2 \in 1..Len(pre)
      /\ \A k \in 1..Len(pre) : Level(pre[k].p) <= 2
      /\ pre[1] = Checks(list)[1] /\ pre[2] = Checks(list)[2]
  <2>1. CASE flow = <<>>
    <3>1. pre = Checks(list)
      BY <1>5, <2>1, ConcatEmptySeq
    <3> HIDE DEF pre
    <3>2. Len(pre) = 2 /\ 1 \in 1..2 /\ 2 \in 1..2 /\ \A k \in 1..2 : k = 1 \/ k = 2
      BY <1>5, <3>1
    <3>3. Level(pre[1].p) <= 2 /\ Level(pre[2].p) <= 2
      BY <1>1, <1>5, <3>1, <3>2, Levels
    <3>4. \A k \in 1..Len(pre) : Level(pre[k].p) <= 2
      BY <3>2, <3>3
    <3> QED
      BY <1>6, <3>1, <3>2, <3>4
  <2>2. CASE flow = Checks(<<"RPO">>)
    <3>1. pre = Checks(list) \o <<r>>
      BY <1>4, <2>2
    <3> HIDE DEF pre
    <3>2. /\ Len(pre) = 3 /\ pre[3] = r /\ 1 \in 1..2 /\ 2 \in 1..2
          /\ \A k \in 1..2 : pre[k] = Checks(list)[k]
      <4>1. /\ Len(pre) = Len(Checks(list)) + 1
            /\ pre[Len(Checks(list)) + 1] = r
            /\ \A k \in 1..Len(Checks(list)) : pre[k] = Checks(list)[k]
        BY <1>2, <1>5, <3>1, OneMore
      <4> QED
        BY <1>5, <4>1
    <3>3. \A k \in 1..Len(pre) : Level(pre[k].p) <= 2
      BY <1>1, <1>3, <1>5, <3>2, Levels
    <3>4. Level(r.p) <= Level(h.p) /\ r.op \notin {"build", "finish", "solved"}
      BY <1>3, Levels
    <3>5. Follows(pre, h)
      BY <1>2, <1>6, <3>1, <3>4, FollowsPlain
    <3> QED
      BY <3>2, <3>3, <3>5
  <2> QED
    BY <2>1, <2>2
<1> HIDE DEF pre
<1>8. Follows(pre \o <<t>>, h)
  <2>1. Level(t.p) = 3 /\ DropsLittle(t) /\ Needs(t) = {"LOOP_INFO", "SCC"}
    BY <1>3, Levels, InputsAre DEF DropsLittle, Needs
  <2>2. Supplies(pre[1], "LOOP_INFO") /\ Supplies(pre[2], "SCC")
    BY <1>1, <1>5, <1>7 DEF Supplies
  <2>3. \A q \in Needs(t) : \E k \in 1..Len(pre) : Supplies(pre[k], q)
    BY <1>7, <2>1, <2>2
  <2>4. \A k \in 1..Len(pre) : Level(pre[k].p) < Level(t.p)
    BY <1>7, <2>1, LevelType
  <2>5. Level(t.p) <= Level(h.p)
    BY <2>1
  <2> QED
    BY <1>2, <1>7, <2>1, <2>3, <2>4, <2>5, FollowsThen
<1>9. Follows((pre \o <<t>>) \o <<u>>, h)
  BY <1>8, FollowsPlain
<1> QED
  BY <1>9 DEF pre, list, t

LEMMA CheckAAandDUOrder ==
    ASSUME OrderInv, TypeOK', agenda # <<>>, NEW p \in Passes, CheckAAandDU(p)
    PROVE  OrderInv'
<1> DEFINE u == Task("du", p, Head(agenda).opts)
<1>0. /\ Head(agenda).op = "check" /\ Head(agenda).p = p
      /\ p \in {"AA", "MD_REF"} \cup Solved
      /\ \A q \in Base : ~Supplies(Head(agenda), q)
  BY DEF CheckAAandDU, Top, Supplies, Solved
<1>1. u \in Tasks
  <2>1. Head(agenda).opts \in SUBSET (Passes \cup Results)
    BY AgendaType DEF OrderInv, TypeOK
  <2> QED
    BY <2>1, TaskType
<1>2. u.op = "du" /\ u.p = p /\ Level(p) = 3
  <2>1. u.op = "du" /\ u.p = p
    BY TaskFields
  <2>2. Level(p) = 3
    BY <1>0, Levels
  <2> QED
    BY <2>1, <2>2
<1>3. CASE \E what : Assert(what)
  BY <1>3, StopStep
<1>4. CASE Replace(<<u>>) /\ Quiet /\ UNCHANGED <<bits, registered, okobj, rpolist>>
  <2>1. Keeps
    BY <1>4 DEF Keeps, Quiet
  <2>2. Follows(<<u>>, Head(agenda))
    BY <1>0, <1>1, <1>2, FollowsAlone
  <2> QED
    BY <1>0, <1>4, <2>1, <2>2, WaitStep
<1>5. CASE /\ registered' = registered \cup {"AA"}
           /\ \E flow \in {<<>>, Checks(<<"RPO">>)} :
                 Replace(Checks(<<"LOOP_INFO", "SCC">>) \o flow
                           \o <<Task("finish", "AA", {})>> \o <<u>>)
           /\ Quiet /\ UNCHANGED <<bits, okobj, rpolist, stale>>
  <2>1. Keeps
    BY <1>5 DEF Keeps, Quiet
  <2>2. PICK flow \in {<<>>, Checks(<<"RPO">>)} :
            Replace(Checks(<<"LOOP_INFO", "SCC">>) \o flow
                      \o <<Task("finish", "AA", {})>> \o <<u>>)
    BY <1>5
  <2>3. Follows(Checks(<<"LOOP_INFO", "SCC">>) \o flow
                  \o <<Task("finish", "AA", {})>> \o <<u>>, Head(agenda))
    BY <1>0, <1>1, <1>2, FollowsAA
  <2> QED
    BY <1>0, <2>1, <2>2, <2>3, WaitStep
<1> QED
  BY <1>0, <1>3, <1>4, <1>5 DEF CheckAAandDU

LEMMA RecomputeDUOrder ==
    ASSUME OrderInv, TypeOK', agenda # <<>>, RecomputeDU
    PROVE  OrderInv'
<1> DEFINE opts == Head(agenda).opts
           ref == "MD_REF" \in opts /\ "MD_REF" \notin bits
           flags == SolveFlags(opts)
           t == Task("solve", Head(agenda).p, flags \cup (opts \cap {"MD_REF"}))
           next == IF flags = {} THEN <<>> ELSE <<t>>
<1>0. Head(agenda).op = "du" /\ \A q \in Base : ~Supplies(Head(agenda), q)
  BY DEF RecomputeDU, Top, Supplies
<1>1. CASE Skip
  BY <1>0, <1>1, SkipStays, DoneStep
<1>2. CASE \E what : Assert(what)
  BY <1>2, StopStep
<1>3. CASE registered' = registered \cup {"DU_MGR"} /\ Return /\ Quiet
             /\ UNCHANGED <<bits, okobj, rpolist, stale>>
  <2>1. Keeps
    BY <1>3 DEF Keeps, Quiet
  <2> QED
    BY <1>0, <1>3, <2>1, DoneStep
<1>4. CASE /\ registered' = registered \cup {"DU_MGR"}
           /\ IF ref
              THEN bits' = bits \cup {"MD_REF"} /\ Recomputed({"MD_REF"})
              ELSE UNCHANGED <<bits, stale>>
           /\ Replace(next) /\ Quiet /\ UNCHANGED <<okobj, rpolist>>
  <2>1. Keeps
    BY <1>4 DEF Keeps, Quiet
  <2>2. t \in Tasks
    <3>1. opts \in SUBSET (Passes \cup Results) /\ Head(agenda).p \in Passes
      BY AgendaType DEF OrderInv, TypeOK
    <3>2. flags \cup (opts \cap {"MD_REF"}) \in SUBSET (Passes \cup Results)
      BY <3>1, Names DEF SolveFlags
    <3> QED
      BY <3>1, <3>2, TaskType
  <2>3. t.op = "solve" /\ t.p = Head(agenda).p
    BY TaskFields
  <2> HIDE DEF t
  <2>4. Level(t.p) <= Level(Head(agenda).p)
    BY <2>3, LevelType
  <2>5. Follows(<<t>>, Head(agenda)) /\ Follows(<<>>, Head(agenda))
    BY <2>2, <2>3, <2>4, FollowsAlone, FollowsNothing
  <2>6. Follows(next, Head(agenda)) /\ Replace(next)
    BY <1>4, <2>5
  <2> HIDE DEF next
  <2> QED
    BY <1>0, <2>1, <2>6, WaitStep
<1> QED
  BY <1>1, <1>2, <1>3, <1>4 DEF RecomputeDU

LEMMA StartSolveOrder ==
    ASSUME OrderInv, TypeOK', agenda # <<>>, StartSolve
    PROVE  OrderInv'
<1> DEFINE t == Task("solved", Head(agenda).p, Head(agenda).opts \cap Solved)
           s == Checks(<<"RPO">>) \o <<t>>
<1>0. \A q \in Base : ~Supplies(Head(agenda), q)
  BY DEF StartSolve, Supplies
<1>1. CASE \E what : Assert(what)
  BY <1>1, StopStep
<1>2. CASE /\ "MD_REF" \in bits /\ Replace(s) /\ Quiet
           /\ UNCHANGED <<bits, registered, okobj, rpolist, stale>>
  <2>1. Keeps /\ Ready("MD_REF")'
    BY <1>2 DEF Keeps, Quiet, Ready, Valid, BitResults
  <2>2. t \in Tasks
    BY AgendaType DEF OrderInv, TypeOK, Task, Tasks
  <2>3. t.op = "solved" /\ t.p = Head(agenda).p
    BY TaskFields
  <2>4. "RPO" \in Passes
    BY Names
  <2> HIDE DEF t
  <2>5. DropsLittle(t) /\ Needs(t) = {"RPO", "MD_REF"}
    BY <2>3 DEF DropsLittle, Needs
  <2>6. /\ Level("RPO") <= Level(Head(agenda).p)
        /\ Level(t.p) <= Level(Head(agenda).p)
    <3>1. Level(Head(agenda).p) \in 0..4 /\ Level("RPO") = 0
      BY LevelType, Levels
    <3> QED
      BY <2>3, <3>1
  <2>7. Asks("RPO", "RPO")
    BY DEF Asks
  <2>8. \A q \in Needs(t) : Ready(q)' \/ Asks("RPO", q)
    BY <2>1, <2>5, <2>7
  <2>9. Follows(s, Head(agenda))
    BY <2>2, <2>3, <2>4, <2>5, <2>6, <2>8, FollowsOne
  <2> HIDE DEF s
  <2> QED
    BY <1>0, <1>2, <2>1, <2>9, WaitStep
<1> QED
  BY <1>1, <1>2 DEF StartSolve

LEMMA CheckDUChainOrder ==
    ASSUME OrderInv, TypeOK', agenda # <<>>, CheckDUChain
    PROVE  OrderInv'
<1> DEFINE t == Task("finish", "CLASSIC_DU_CHAIN", Head(agenda).opts)
           s == Checks(DUChainPrereqs) \o <<t>>
<1>0. /\ Head(agenda).p = "CLASSIC_DU_CHAIN"
      /\ \A q \in Base : ~Supplies(Head(agenda), q)
  BY DEF CheckDUChain, Top, Supplies
<1>1. CASE \E what : Assert(what)
  BY <1>1, StopStep
<1>2. CASE Skip
  BY <1>0, <1>2, SkipStays, DoneStep
<1>3. CASE /\ registered' = registered \cup {"DU_MGR"} /\ Replace(s) /\ Quiet
           /\ UNCHANGED <<bits, okobj, rpolist, stale>>
  <2>1. Keeps
    BY <1>3 DEF Keeps, Quiet
  <2>2. t \in Tasks
    BY Names, AgendaType, TaskType DEF OrderInv, TypeOK
  <2>3. t.op = "finish" /\ t.p = "CLASSIC_DU_CHAIN"
    BY TaskFields
  <2> HIDE DEF t
  <2>4. DropsLittle(t) /\ Needs(t) = {} /\ Level(t.p) = 4 /\ Level(Head(agenda).p) = 4
    BY <1>0, <2>3, Levels DEF DropsLittle, Needs
  <2>5. DUChainPrereqs \in Seq(Passes)
          /\ \A i \in 1..Len(DUChainPrereqs) : Level(DUChainPrereqs[i]) <= 3
    <3> DEFINE P == {"RPO", "DOM", "MD_REF", "REACH_DEF"}
    <3>1. /\ <<>> \in Seq(P) /\ <<"RPO", "DOM", "MD_REF">> \in Seq(P)
          /\ <<"RPO", "DOM", "MD_REF", "REACH_DEF">> \in Seq(P)
      BY EmptySeq
    <3>2. DUChainPrereqs \in Seq(P)
      BY <3>1, ConcatProperties DEF DUChainPrereqs
    <3>3. P \subseteq Passes /\ \A x \in P : Level(x) <= 3
      BY Names, Levels DEF Solved
    <3> HIDE DEF P
    <3> QED
      BY <3>2, <3>3
  <2>6. \A i \in 1..Len(DUChainPrereqs) :
            /\ Level(DUChainPrereqs[i]) <= Level(Head(agenda).p)
            /\ Level(DUChainPrereqs[i]) < Level(t.p)
    BY <2>4, <2>5, LevelType
  <2>7. Level(t.p) <= Level(Head(agenda).p)
    BY <2>4
  <2>8. Follows(s, Head(agenda))
    BY <2>2, <2>4, <2>5, <2>6, <2>7, FollowsWait
  <2> HIDE DEF s
  <2> QED
    BY <1>0, <1>3, <2>1, <2>8, WaitStep
<1> QED
  BY <1>1, <1>2, <1>3 DEF CheckDUChain

LEMMA FinishDUChainOrder ==
    ASSUME OrderInv, TypeOK', agenda # <<>>, FinishDUChain
    PROVE  OrderInv'
<1>0. \A q \in Base : ~Supplies(Head(agenda), q)
  BY DEF FinishDUChain, Top, Supplies
<1>1. CASE \E what : Assert(what)
  BY <1>1, StopStep
<1>2. CASE ~\E what : Assert(what)
  <2>1. /\ bits \ {"REACH_DEF"} \subseteq bits'
        /\ bits' \subseteq bits \cup {"PRDU", "NONPRDU"}
        /\ Return /\ Quiet /\ UNCHANGED <<registered, okobj, rpolist>>
    BY <1>2 DEF FinishDUChain
  <2>2. Keeps
    BY <2>1 DEF Keeps, Quiet, Base
  <2> QED
    BY <1>0, <2>1, <2>2, DoneStep
<1> QED
  BY <1>1, <1>2

LEMMA CheckPassOrder ==
    ASSUME OrderInv, TypeOK', agenda # <<>>, NEW p \in Passes, CheckPass(p)
    PROVE  OrderInv'
<1> DEFINE t == Task(WorkOf(p), p, {})
           s == Checks(PrereqsOf(p)) \o <<t>>
<1>0. /\ Head(agenda).p = p /\ p \in {"GVN", "PRSSA_MGR", "MDSSA_MGR"}
      /\ \A q \in Base : ~Supplies(Head(agenda), q)
  BY DEF CheckPass, Top, Supplies
<1>1. CASE Skip
  BY <1>0, <1>1, SkipStays, DoneStep
<1>2. CASE ~Skip
  <2>1. Keeps
    BY <1>2 DEF CheckPass, Keeps, Quiet
  <2>2. CASE Return
    BY <1>0, <2>1, <2>2, DoneStep
  <2>3. CASE ~Return
    <3>1. Replace(s) /\ (p = "GVN" => Ready("MD_REF"))
      BY <1>2, <2>3 DEF CheckPass, GVNReady, Ready, Valid, BitResults
    <3>2. t \in Tasks
      BY WorkType
    <3>3. /\ t.op = IF p = "PRSSA_MGR" THEN "build" ELSE "finish"
          /\ t.p = p /\ t.opts = {}
      BY TaskFields DEF WorkOf
    <3> HIDE DEF t
    <3>4. DropsLittle(t) /\ Level(t.p) = 4 /\ Level(Head(agenda).p) = 4
      BY <1>0, <3>3, Levels DEF DropsLittle
    <3>5. Level(t.p) <= Level(Head(agenda).p)
      BY <3>4
    <3>6. PrereqsOf(p) \in Seq(Passes)
            /\ \A i \in 1..Len(PrereqsOf(p)) : PrereqsOf(p)[i] \in {"RPO", "DOM"}
      <4>1. <<"RPO", "DOM">> \in Seq({"RPO", "DOM"}) /\ <<"DOM">> \in Seq({"RPO", "DOM"})
        OBVIOUS
      <4>2. PrereqsOf(p) \in Seq({"RPO", "DOM"})
        BY <4>1 DEF PrereqsOf
      <4>3. {"RPO", "DOM"} \subseteq Passes
        BY Names
      <4> QED
        BY <4>2, <4>3
    <3>7. \A i \in 1..Len(PrereqsOf(p)) :
              /\ Level(PrereqsOf(p)[i]) <= Level(Head(agenda).p)
              /\ Level(PrereqsOf(p)[i]) < Level(t.p)
      BY <3>4, <3>6, Levels
    <3>8. \A q \in Needs(t) : Ready(q)' \/ \E i \in 1..Len(PrereqsOf(p)) :
                                             Asks(PrereqsOf(p)[i], q)
      <4>1. CASE p = "GVN"
        <5>1. /\ Len(PrereqsOf(p)) = 2 /\ PrereqsOf(p)[1] = "RPO"
              /\ PrereqsOf(p)[2] = "DOM"
          BY <4>1 DEF PrereqsOf
        <5>2. 1 \in 1..Len(PrereqsOf(p)) /\ 2 \in 1..Len(PrereqsOf(p))
          BY <5>1
        <5>3. Ready("MD_REF")'
          BY <2>1, <3>1, <4>1, KeepsReady DEF OrderInv, Base
        <5>4. Needs(t) = {"RPO", "DOM", "MD_REF"}
          BY <3>3, <4>1, InputsAre DEF Needs
        <5>5. Asks("RPO", "RPO") /\ Asks("DOM", "DOM")
          BY DEF Asks
        <5> QED
          BY <5>1, <5>2, <5>3, <5>4, <5>5
      <4>2. CASE p # "GVN"
        <5>1. Len(PrereqsOf(p)) = 1 /\ PrereqsOf(p)[1] = "DOM"
          BY <4>2 DEF PrereqsOf
        <5>2. 1 \in 1..Len(PrereqsOf(p))
          BY <5>1
        <5>3. Needs(t) \subseteq {"DOM"}
          BY <1>0, <3>3, <4>2, InputsAre DEF Needs
        <5>4. Asks("DOM", "DOM")
          BY DEF Asks
        <5> QED
          BY <5>1, <5>2, <5>3, <5>4
      <4> QED
        BY <4>1, <4>2
    <3>9. Follows(s, Head(agenda))
      BY <3>2, <3>4, <3>5, <3>6, <3>7, <3>8, FollowsWait
    <3> HIDE DEF s
    <3> QED
      BY <1>0, <2>1, <3>1, <3>9, WaitStep
  <2> QED
    BY <2>2, <2>3
<1> QED
  BY <1>1, <1>2

LEMMA FinishOrder ==
    ASSUME OrderInv, TypeOK', agenda # <<>>, NEW p \in Passes, Finish(p)
    PROVE  OrderInv'
<1>0. \A q \in Base : Supplies(Head(agenda), q) => q = p /\ p \in BitResults /\ p # "RPO"
  BY DEF Finish, Top, Supplies, BitResults
<1>1. CASE \E what : Assert(what)
  BY <1>1, StopStep
<1>2. CASE setValid({p}, registered) /\ Return /\ Quiet /\ UNCHANGED rpolist
  <2>1. p # "CFG"
    BY DEF Finish
  <2>2. Keeps
    BY <1>2, <2>1 DEF setValid, Keeps, Quiet
  <2>3. p \in BitResults /\ p # "RPO" => Ready(p)'
    BY <1>2 DEF setValid, Ready, Valid
  <2> QED
    BY <1>0, <1>2, <2>2, <2>3, DoneStep
<1> QED
  BY <1>1, <1>2 DEF Finish

LEMMA FinishSolveOrder ==
    ASSUME OrderInv, TypeOK', agenda # <<>>, FinishSolve
    PROVE  OrderInv'
<1>0. \A q \in Base : ~Supplies(Head(agenda), q)
  BY DEF FinishSolve, Supplies
<1>1. Head(agenda).opts \in SUBSET Solved
  BY AgendaType DEF FinishSolve, Tasks, OrderInv, TypeOK
<1>2. Keeps /\ Return
  BY <1>1 DEF FinishSolve, Keeps, Quiet, Solved
<1> QED
  BY <1>0, <1>2, DoneStep

LEMMA BuildPRSSAOrder ==
    ASSUME OrderInv, TypeOK', agenda # <<>>, BuildPRSSA
    PROVE  OrderInv'
<1> DEFINE t == Task("finish", "PRSSA_MGR", {})
           s == Checks(<<"RPO">>) \o <<t>>
<1>0. /\ Head(agenda).op = "build" /\ Head(agenda).p = "PRSSA_MGR" /\ Replace(s)
      /\ \A q \in Base : ~Supplies(Head(agenda), q)
  BY DEF BuildPRSSA, Top, Supplies
<1>1. Keeps
  BY DEF BuildPRSSA, Keeps, Quiet
<1>2. Ready("DOM")
  <2>1. agenda \in Seq(Tasks) /\ 1 \in DOMAIN agenda /\ agenda[1] = Head(agenda)
        /\ 1..(1 - 1) = {}
    BY LenProperties, EmptySeq DEF OrderInv, TypeOK
  <2>2. "DOM" \in Needs(agenda[1])
    BY <1>0, <2>1 DEF Needs
  <2> QED
    BY <2>1, <2>2 DEF OrderInv, Supplied
<1>3. Ready("DOM")'
  BY <1>1, <1>2, KeepsReady DEF OrderInv, Base
<1>4. t \in Tasks /\ "RPO" \in Passes
  BY Names, TaskType
<1>5. t.op = "finish" /\ t.p = "PRSSA_MGR" /\ t.opts = {}
  BY TaskFields
<1> HIDE DEF t
<1>6. DropsLittle(t) /\ Needs(t) = {"RPO", "DOM"}
  BY <1>5, InputsAre DEF DropsLittle, Needs
<1>7. /\ Level("RPO") <= Level(Head(agenda).p) /\ Level("RPO") < Level(t.p)
      /\ Level(t.p) <= Level(Head(agenda).p)
  BY <1>0, <1>5, Levels
<1>8. \A q \in Needs(t) : Ready(q)' \/ Asks("RPO", q)
  BY <1>3, <1>6 DEF Asks
<1>9. Follows(s, Head(agenda))
  BY <1>4, <1>6, <1>7, <1>8, FollowsOne
<1> HIDE DEF s
<1> QED
  BY <1>0, <1>1, <1>9, WaitStep

LEMMA GiveUpPRSSAOrder ==
    ASSUME OrderInv, TypeOK', agenda # <<>>, GiveUpPRSSA
    PROVE  OrderInv'
<1>0. \A q \in Base : ~Supplies(Head(agenda), q)
  BY DEF GiveUpPRSSA, Top, Supplies
<1>1. CASE \E what : Assert(what)
  BY <1>1, StopStep
<1>2. CASE ~\E what : Assert(what)
  <2>0. okobj' = okobj \cup {"PRSSA_MGR"} /\ Return /\ Quiet
        /\ UNCHANGED <<bits, registered, rpolist>>
    BY <1>2, Zenon DEF GiveUpPRSSA
  <2>1. Keeps /\ Return
    BY <2>0 DEF Keeps, Quiet
  <2> QED
    BY <1>0, <2>1, DoneStep
<1> QED
  BY <1>1, <1>2

LEMMA FinishPRSSAOrder ==
    ASSUME OrderInv, TypeOK', agenda # <<>>, FinishPRSSA
    PROVE  OrderInv'
<1>0. \A q \in Base : ~Supplies(Head(agenda), q)
  BY DEF FinishPRSSA, Top, Supplies
<1>1. Keeps /\ Return
  BY DEF FinishPRSSA, Keeps, Quiet, Base
<1> QED
  BY <1>0, <1>1, DoneStep

LEMMA FinishMDSSAOrder ==
    ASSUME OrderInv, TypeOK', agenda # <<>>, FinishMDSSA
    PROVE  OrderInv'
<1>0. /\ Head(agenda).op = "finish" /\ Head(agenda).p = "MDSSA_MGR"
      /\ \A q \in Base : ~Supplies(Head(agenda), q)
  BY DEF FinishMDSSA, Top, Supplies
<1>1. CASE \E what : Assert(what)
  BY <1>1, StopStep
<1>2. CASE ~\E what : Assert(what)
  <2>1. Head(agenda).opts \subseteq {"GVN", "NONPRDU"}
    <3>1. agenda \in Seq(Tasks) /\ 1 \in DOMAIN agenda /\ agenda[1] = Head(agenda)
      BY LenProperties, EmptySeq DEF OrderInv, TypeOK
    <3>2. DropsLittle(agenda[1])
      BY <3>1 DEF OrderInv
    <3> QED
      BY <1>0, <3>1, <3>2 DEF DropsLittle
  <2>2. PICK built \in {{}, {"MDSSA_MGR"}} :
           /\ bits' = bits \ Head(agenda).opts
           /\ okobj' = (okobj \cup built) \ Head(agenda).opts
    BY <1>2 DEF FinishMDSSA
  <2>3. Return /\ Quiet /\ UNCHANGED <<registered, rpolist>>
    BY <1>2 DEF FinishMDSSA
  <2>4. /\ bits \ {"GVN", "NONPRDU"} \subseteq bits' /\ bits' \subseteq bits
        /\ okobj \ {"GVN", "NONPRDU"} \subseteq okobj'
    BY <2>1, <2>2
  <2>5. Keeps
    BY <2>3, <2>4 DEF Keeps, Quiet, Base
  <2> QED
    BY <1>0, <2>3, <2>5, DoneStep
<1> QED
  BY <1>1, <1>2

LEMMA RecomputeOrder ==
    ASSUME OrderInv, Recompute
    PROVE  OrderInv'
<1>1. TypeOK'
  BY RecomputeType DEF OrderInv
<1>2. agenda # <<>>
  BY DEF Recompute, CheckCFG, CheckRPO, CheckLoopInfo, CheckCDG,
         CheckSCC, CheckExprTab, RecomputeDU, StartSolve, CheckDUChain,
         FinishDUChain, FinishSolve, CheckDom, EnsureDom, CheckAAandDU,
         CheckPass, Finish, BuildPRSSA, GiveUpPRSSA, FinishPRSSA, FinishMDSSA, Top
<1> QED
  BY <1>1, <1>2, CheckCFGOrder, CheckRPOOrder, CheckDomOrder, EnsureDomOrder,
     CheckLoopInfoOrder, CheckCDGOrder, CheckSCCOrder, CheckExprTabOrder,
     CheckAAandDUOrder, RecomputeDUOrder, StartSolveOrder, CheckDUChainOrder,
     FinishDUChainOrder, FinishSolveOrder, CheckPassOrder, FinishOrder,
     BuildPRSSAOrder, GiveUpPRSSAOrder, FinishPRSSAOrder, FinishMDSSAOrder
     DEF Recompute

-----------------------------------------------------------------------------
(* The steps between two requests.                                         *)

\* A new agenda is in order by itself.
LEMMA StartOrder ==
    ASSUME TypeOK', CFGHasBB', NEW h, Follows(agenda', h)
    PROVE  OrderInv'
<1>1. DOMAIN agenda' = 1..Len(agenda')
  BY LenProperties DEF TypeOK
<1> QED
  BY <1>1 DEF OrderInv, Nesting, Supplied, Follows

\* Whatever list is asked for from outside.
LEMMA StartListOrder ==
    ASSUME TypeOK', CFGHasBB', NEW list \in Seq(Passes), agenda' = Checks(list)
    PROVE  OrderInv'
<1> DEFINE h == Task("check", "GVN", {})
<1>1. Level(h.p) = 4
  BY TaskFields, Levels
<1>2. \A i \in 1..Len(list) : Level(list[i]) <= Level(h.p)
  BY <1>1, LevelType
<1>3. Follows(Checks(list), h)
  BY <1>2, FollowsChecks
<1> QED
  BY <1>3, StartOrder

LEMMA StartEmptyOrder ==
    ASSUME TypeOK', CFGHasBB', agenda' = <<>>
    PROVE  OrderInv'
  BY StartOrder, FollowsNothing

LEMMA RequestOrder ==
    ASSUME OrderInv, Request \/ IPARequest
    PROVE  OrderInv'
<1>1. TypeOK' /\ CFGHasBB'
  BY RequestType DEF OrderInv, CFGHasBB, Request, IPARequest
<1>2. PICK list \in Requests \cup IPARequests : agenda' = Checks(list)
  BY DEF Request, IPARequest
<1>3. list \in Seq(Passes)
  BY OptCtxAssumption DEF OptCtxAssumption
<1> QED
  BY <1>1, <1>2, <1>3, StartListOrder

LEMMA DoMDSSAOrder ==
    ASSUME OrderInv, TypeOK', DoMDSSA
    PROVE  OrderInv'
<1> DEFINE t == Task("finish", "MDSSA_MGR", {"GVN", "NONPRDU"})
<1>1. CFGHasBB'
  BY DEF DoMDSSA, OrderInv, CFGHasBB
<1>2. CASE "MDSSA_MGR" \in okobj
  BY <1>1, <1>2, StartEmptyOrder DEF DoMDSSA, Idle
<1>3. CASE "MDSSA_MGR" \notin okobj
  <2>1. agenda' = Checks(<<"DOM">>) \o <<t>>
    BY <1>3 DEF DoMDSSA
  <2>2. t \in Tasks /\ "DOM" \in Passes
    BY Names, TaskType
  <2>3. t.op = "finish" /\ t.p = "MDSSA_MGR" /\ t.opts = {"GVN", "NONPRDU"}
    BY TaskFields
  <2> HIDE DEF t
  <2>4. DropsLittle(t) /\ Needs(t) = {"DOM"} /\ Level(t.p) = 4 /\ Level("DOM") = 1
    BY <2>3, Levels DEF DropsLittle, Needs
  <2>5. /\ Level("DOM") < Level(t.p) /\ Level("DOM") <= Level(t.p)
        /\ Level(t.p) <= Level(t.p)
    BY <2>4
  <2>6. Follows(Checks(<<"DOM">>) \o <<t>>, t)
    <3>1. \A q \in Needs(t) : Asks("DOM", q)
      BY <2>4 DEF Asks
    <3> QED
      BY <2>2, <2>4, <2>5, <3>1, FollowsOne
  <2>7. Follows(agenda', t)
    BY <2>1, <2>6
  <2> QED
    BY <1>1, <2>7, StartOrder
<1> QED
  BY <1>2, <1>3

LEMMA MDSSALostOrder ==
    ASSUME OrderInv, TypeOK', MDSSALost
    PROVE  OrderInv'
<1> DEFINE list == <<"MDSSA_MGR", "DOM", "LOOP_INFO", "CDG">>
<1>1. list \in Seq(Passes) /\ agenda' = Checks(list)
  BY Names DEF MDSSALost
<1>2. CFGHasBB'
  BY DEF MDSSALost, setInvalid, OrderInv, CFGHasBB
<1> QED
  BY <1>1, <1>2, StartListOrder

LEMMA EditOrder ==
    ASSUME OrderInv, Edit
    PROVE  OrderInv'
<1>1. TypeOK'
  BY EditType DEF OrderInv
<1>2. CASE DoMDSSA
  BY <1>1, <1>2, DoMDSSAOrder
<1>3. CASE MDSSALost
  BY <1>1, <1>3, MDSSALostOrder
<1>4. CASE Edit /\ ~DoMDSSA /\ ~MDSSALost
  <2>1. agenda' = <<>>
    BY <1>4 DEF Edit, CFGChanged, CFGChangedExcept, GlobalRefined,
       RedirectTrampoline, LiveChanged, Simplified, MDReferenced, Propagated,
       Hoisted, RegionDone, IPADestroyed, Edited, Idle
  <2>2. "CFG" \in bits' => "CFG" \in bits
    BY <1>4 DEF Edit, CFGChanged, CFGChangedExcept, GlobalRefined,
       RedirectTrampoline, LiveChanged, Simplified, MDReferenced, Propagated,
       Hoisted, RegionDone, IPADestroyed, setInvalid
  <2>3. nbb # "none" => nbb' # "none"
    BY <1>4 DEF Edit, CFGChanged, CFGChangedExcept, GlobalRefined,
       RedirectTrampoline, LiveChanged, Simplified, MDReferenced, Propagated,
       Hoisted, RegionDone, IPADestroyed, Resize
  <2>4. CFGHasBB'
    BY <2>2, <2>3 DEF OrderInv, CFGHasBB
  <2> QED
    BY <1>1, <2>1, <2>4, StartEmptyOrder
<1> QED
  BY <1>2, <1>3, <1>4

-----------------------------------------------------------------------------
LEMMA InitOrder == ASSUME Init PROVE OrderInv
<1>1. TypeOK
  BY OptCtxAssumption, EmptySeq DEF Init, TypeOK, OptCtxAssumption
<1>2. DOMAIN agenda = {} /\ bits = {}
  BY DEF Init
<1> QED
  BY <1>1, <1>2 DEF OrderInv, Nesting, Supplied, CFGHasBB

LEMMA StutterOrder == ASSUME OrderInv, UNCHANGED vars PROVE OrderInv'
<1>1. TypeOK' /\ Nesting' /\ CFGHasBB' /\ UNCHANGED agenda
  BY DEF vars, OrderInv, TypeOK, Nesting, CFGHasBB
<1>2. Supplied'
  BY DEF vars, OrderInv, Supplied, Ready, Valid
<1> QED
  BY <1>1, <1>2 DEF OrderInv

LEMMA OrderInvariant == Spec => []OrderInv
<1>1. Init => OrderInv
  BY InitOrder
<1>2. OrderInv /\ [Next]_vars => OrderInv'
  <2> SUFFICES ASSUME OrderInv, [Next]_vars
               PROVE  OrderInv'
    OBVIOUS
  <2> QED
    BY StutterOrder, RecomputeOrder, RequestOrder, EditOrder DEF Next
<1> QED
  BY <1>1, <1>2, PTL DEF Spec

\* No computation that waits for its inputs is asked for again before it ends,
\* whatever list is asked for: every nested request is for a result of a lower
\* level (PassMgr::checkValidAndRecomputePass and the passes it performs).
THEOREM NoReentry == Spec => []NoSelfDependence
<1>1. OrderInv => NoSelfDependence
  <2> SUFFICES ASSUME OrderInv, NEW i \in DOMAIN agenda, NEW j \in DOMAIN agenda,
                      i # j, agenda[i].op \in {"build", "finish"},
                      agenda[j].op \in {"build", "finish"},
                      agenda[i].p = agenda[j].p
               PROVE  FALSE
    BY DEF NoSelfDependence
  <2>1. i \in Nat /\ j \in Nat /\ 1 <= i /\ 1 <= j
    BY LenProperties DEF OrderInv, TypeOK
  <2>2. i \in 1..(j - 1) \/ j \in 1..(i - 1)
    BY <2>1
  <2>3. Level(agenda[i].p) < Level(agenda[j].p) \/ Level(agenda[j].p) < Level(agenda[i].p)
    BY <2>2 DEF OrderInv, Nesting
  <2> QED
    BY <2>3, LevelType
<1> QED
  BY <1>1, OrderInvariant, PTL

\* When a computation starts its real work, what it reads is valid and the RPO
\* list it walks is allocated, for every list, edit and size of the CFG
\* (the callees of checkValidAndRecomputePass, OptCtx::setInvalidPass).
THEOREM InputsAvailable == Spec => []InputsReady
<1>1. OrderInv => InputsReady
  <2> SUFFICES ASSUME OrderInv, agenda # <<>>,
                      Head(agenda).op \in {"build", "finish", "solved"},
                      Head(agenda).p \notin {"CLASSIC_DU_CHAIN", "MDSSA_MGR"},
                      NEW r \in IF Head(agenda).op = "solved"
                                THEN Head(agenda).opts ELSE {Head(agenda).p},
                      NEW q \in Inputs[r],
                      ~(Head(agenda).op = "build" /\ q = "RPO")
               PROVE  Ready(q)
    BY DEF InputsReady, Ready
  <2>1. agenda \in Seq(Tasks) /\ 1 \in DOMAIN agenda /\ agenda[1] = Head(agenda)
        /\ 1..(1 - 1) = {}
    BY LenProperties, EmptySeq DEF OrderInv, TypeOK
  <2>2. \A x \in Needs(Head(agenda)) : Ready(x)
    BY <2>1 DEF OrderInv, Supplied
  <2>3. CASE Head(agenda).op = "finish"
    BY <2>2, <2>3 DEF Needs
  <2>4. CASE Head(agenda).op = "solved"
    <3>1. r \in Solved
      BY <2>1, <2>4, AgendaType DEF Tasks
    <3> QED
      BY <2>2, <2>4, <3>1, InputsAre DEF Needs
  <2>5. CASE Head(agenda).op = "build"
    <3>1. Head(agenda).p = "PRSSA_MGR"
      BY <2>1, <2>5, AgendaType DEF Tasks
    <3> QED
      BY <2>2, <2>5, <3>1, InputsAre DEF Needs
  <2> QED
    BY <2>3, <2>4, <2>5
<1> QED
  BY <1>1, OrderInvariant, PTL

-----------------------------------------------------------------------------
(* What a request owes to its caller.                                      *)

\* The results listed by the outermost request.
Asked == {asked[i] : i \in DOMAIN asked}

\* Nothing is owed: the result is there, or computing it may be declined.
Settled(r) ==
    \/ r \in {"PRSSA_MGR", "MDSSA_MGR", "CLASSIC_DU_CHAIN"}
    \/ r = "GVN" /\ ~GVNReady
    \/ Valid(r)

\* The tasks that end with r valid.
Delivers(t, r) ==
    \/ t.op = "check" /\ t.p = r /\ r \in (CFGResults \cup {"CFG", "EXPR_TAB", "GVN"})
    \/ t.op = "check" /\ {t.p, r} \subseteq {"DOM", "PDOM"}
    \/ t.op = "check" /\ t.p = r /\ r \in t.opts \cap ({"AA", "MD_REF"} \cup Solved)
    \/ t.op \in {"ensure", "finish"} /\ t.p = r
    \/ t.op = "du" /\ r \in t.opts \cap ({"MD_REF"} \cup Solved)
    \/ t.op \in {"solve", "solved"} /\ r \in t.opts \cap Solved

Owed ==
    failed = "no" /\ nbb = "few" =>
        \A r \in Asked : Settled(r) \/ \E j \in DOMAIN agenda : Delivers(agenda[j], r)

\* A DU chain keeps the reach-definitions its request lists; nothing is
\* recomputed together with GVN but results of the CFG; the objects that
\* computations make valid are registered.
Calm == CFGResults \cup {"CFG", "EXPR_TAB", "GVN"}

Fit(t) ==
    /\ t.op \in {"check", "finish"} /\ t.p = "CLASSIC_DU_CHAIN" /\ "REACH_DEF" \in Asked
         => "REACH_DEF" \in t.opts
    /\ "GVN" \in Asked => t.p \in Calm /\ t.op \in {"check", "ensure", "finish"}
    /\ t.op = "finish" /\ t.p \in {"CDG", "GVN"} => t.p \in registered
FitTasks == {t \in Tasks : Fit(t)}

DeliverInv == OrderInv /\ agenda \in Seq(FitTasks) /\ Owed

\* What a step of a recomputation keeps of what was owed.
Preserves ==
    /\ bits \ {"REACH_DEF", "PRDU", "NONPRDU"} \subseteq bits'
    /\ "REACH_DEF" \in Asked \cap bits => "REACH_DEF" \in bits'
    /\ registered \subseteq registered' /\ UNCHANGED <<asked, nbb, failed>>
    /\ okobj \ {"GVN"} \subseteq okobj'
    /\ "GVN" \in Asked => ("GVN" \in okobj => "GVN" \in okobj') /\ (GVNReady' => GVNReady)

LEMMA PreservesSettled ==
    ASSUME Preserves, TypeOK, NEW r \in Asked, Settled(r)
    PROVE  Settled(r)'
<1>0. r \in Passes
  BY DEF TypeOK, Asked
<1>1. CASE r \in BitResults
  <2>1. r # "PRDU" /\ r # "NONPRDU" /\ r # "GVN"
    BY <1>0, <1>1 DEF Passes, BitResults
  <2> QED
    BY <1>1, <2>1 DEF Preserves, Settled, Valid
<1>2. CASE r \notin BitResults
  BY <1>2 DEF Preserves, Settled, Valid, TypeOK
<1> QED
  BY <1>1, <1>2

LEMMA FitHead ==
    ASSUME agenda \in Seq(FitTasks), agenda # <<>>
    PROVE  Head(agenda) \in Tasks /\ Fit(Head(agenda))
<1>1. Head(agenda) \in FitTasks
  OBVIOUS
<1> QED
  BY <1>1 DEF FitTasks

\* The tasks that were there remain fit.
LEMMA FitStep ==
    ASSUME agenda \in Seq(FitTasks), agenda # <<>>, asked' = asked,
           registered \subseteq registered',
           NEW s \in Seq(FitTasks'), agenda' = s \o Tail(agenda)
    PROVE  agenda' \in Seq(FitTasks')
<1>1. FitTasks \subseteq FitTasks'
  BY DEF FitTasks, Fit, Asked
<1>2. Tail(agenda) \in Seq(FitTasks)
  OBVIOUS
<1>3. Tail(agenda) \in Seq(FitTasks')
  BY <1>1, <1>2
<1> QED
  BY <1>3, ConcatProperties

LEMMA OwedStep ==
    ASSUME agenda \in Seq(Tasks), agenda # <<>>, Owed, TypeOK, Preserves,
           NEW s \in Seq(Tasks), agenda' = s \o Tail(agenda),
           nbb = "few" => \A r \in Asked : Delivers(Head(agenda), r) =>
               Settled(r)' \/ \E k \in 1..Len(s) : Delivers(s[k], r)
    PROVE  Owed'
<1>0. /\ Len(s) \in Nat /\ Len(agenda) \in Nat \ {0}
      /\ DOMAIN agenda = 1..Len(agenda) /\ agenda[1] = Head(agenda)
  BY LenProperties, EmptySeq
<1>a. Asked' = Asked /\ nbb' = nbb /\ failed' = failed
  BY DEF Preserves, Asked
<1> SUFFICES ASSUME failed = "no", nbb = "few", NEW r \in Asked, ~Settled(r)'
             PROVE  \E j \in DOMAIN agenda' : Delivers(agenda'[j], r)
  BY <1>a DEF Owed
<1>1. ~Settled(r)
  BY PreservesSettled
<1>2. PICK j \in DOMAIN agenda : Delivers(agenda[j], r)
  BY <1>1 DEF Owed
<1>3. DOMAIN agenda' = 1..(Len(s) + Len(agenda) - 1)
  BY Shift
<1>4. CASE j = 1
  <2>1. PICK k \in 1..Len(s) : Delivers(s[k], r)
    BY <1>0, <1>2, <1>4
  <2>2. k \in DOMAIN agenda' /\ agenda'[k] = s[k]
    BY <1>0, <1>3, Shift
  <2> QED
    BY <2>1, <2>2
<1>5. CASE j # 1
  <2>1. j \in 2..Len(agenda) /\ j + Len(s) - 1 \in DOMAIN agenda'
    BY <1>0, <1>3, <1>5
  <2>2. agenda'[j + Len(s) - 1] = agenda[j]
    BY <2>1, Shift
  <2> QED
    BY <1>2, <2>1, <2>2
<1> QED
  BY <1>4, <1>5

LEMMA FitTyped == FitTasks \subseteq Tasks /\ FitTasks' \subseteq Tasks
  BY DEF FitTasks

\* One step of a recomputation, in those terms.
LEMMA DeliverStep ==
    ASSUME DeliverInv, OrderInv', agenda # <<>>, Preserves,
           NEW s \in Seq(FitTasks'), Replace(s),
           nbb = "few" => \A r \in Asked : Delivers(Head(agenda), r) =>
               Settled(r)' \/ \E k \in 1..Len(s) : Delivers(s[k], r)
    PROVE  DeliverInv'
<1>1. s \in Seq(Tasks) /\ agenda \in Seq(Tasks) /\ TypeOK
  BY FitTyped DEF DeliverInv, OrderInv, TypeOK
<1>2. agenda' \in Seq(FitTasks')
  BY FitStep DEF DeliverInv, Preserves, Replace
<1>3. Owed'
  BY <1>1, OwedStep DEF DeliverInv, Replace
<1> QED
  BY <1>2, <1>3 DEF DeliverInv

LEMMA DeliverDone ==
    ASSUME DeliverInv, OrderInv', agenda # <<>>, Preserves, Return,
           nbb = "few" => \A r \in Asked : Delivers(Head(agenda), r) => Settled(r)'
    PROVE  DeliverInv'
<1>1. Tail(agenda) \in Seq(Tasks) /\ <<>> \in Seq(FitTasks')
  BY EmptySeq DEF DeliverInv, OrderInv, TypeOK
<1>2. Replace(<<>>)
  BY <1>1, ConcatEmptySeq DEF Replace, Return
<1> QED
  BY <1>1, <1>2, DeliverStep

LEMMA DeliverStop ==
    ASSUME OrderInv', NEW what \in Assertions, Assert(what)
    PROVE  DeliverInv'
<1>1. agenda' = <<>> /\ agenda' \in Seq(FitTasks')
  BY EmptySeq DEF Assert
<1>2. failed' # "no"
  BY DEF Assert, Assertions
<1> QED
  BY <1>1, <1>2 DEF DeliverInv, Owed

\* The step only adds results; those that would make GVN possible are not
\* among them unless no caller waits for GVN.
Adds ==
    /\ bits \subseteq bits' /\ okobj \subseteq okobj' /\ registered \subseteq registered'
    /\ UNCHANGED <<asked, nbb, failed>>
    /\ "GVN" \in Asked =>
          /\ bits' \cap {"MD_REF", "PRDU", "NONPRDU"} \subseteq bits
          /\ registered' \cap okobj' \cap {"PRSSA_MGR", "MDSSA_MGR"}
               \subseteq registered \cap okobj

LEMMA AddsPreserves == ASSUME Adds PROVE Preserves
  BY DEF Adds, Preserves, GVNReady

LEMMA SkipAdds == ASSUME Skip PROVE Adds /\ Return /\ \A r : Settled(r) => Settled(r)'
<1>1. UNCHANGED <<bits, registered, okobj>>
  BY DEF Skip
<1>2. \A r : Settled(r) => Settled(r)'
  BY <1>1 DEF Settled, Valid, GVNReady
<1> QED
  BY <1>1, <1>2 DEF Skip, Quiet, Adds

\* A computation may ask for these.
LEMMA FitChecks ==
    ASSUME NEW list \in Seq(Passes), asked' = asked,
           \A i \in 1..Len(list) : list[i] # "CLASSIC_DU_CHAIN"
                                     /\ ("GVN" \in Asked => list[i] \in Calm)
    PROVE  Checks(list) \in Seq(FitTasks')
<1>1. ASSUME NEW k \in 1..Len(list)
      PROVE  Checks(list)[k] \in FitTasks'
  <2>1. Checks(list)[k] = Task("check", list[k], OptsOf(list)) /\ Checks(list)[k] \in Tasks
    BY ChecksAt
  <2>2. Fit(Checks(list)[k])'
    BY <2>1, TaskFields DEF Fit, Asked
  <2> QED
    BY <2>1, <2>2 DEF FitTasks
<1>2. /\ DOMAIN Checks(list) = 1..Len(list) /\ Len(list) \in Nat
      /\ Checks(list) = [i \in 1..Len(list) |-> Checks(list)[i]]
  BY DEF Checks
<1>3. Checks(list) \in [1..Len(list) -> FitTasks']
  BY <1>1, <1>2
<1> QED
  BY <1>2, <1>3

LEMMA FitOne ==
    ASSUME NEW x \in Passes, x \in Calm, asked' = asked
    PROVE  Checks(<<x>>) \in Seq(FitTasks')
<1> DEFINE list == <<x>>
<1>1. list \in Seq(Passes) /\ Len(list) = 1 /\ list[1] = x
  OBVIOUS
<1>2. x # "CLASSIC_DU_CHAIN"
  BY DEF Calm, CFGResults
<1> HIDE DEF list
<1>3. \A i \in 1..Len(list) : list[i] = x
  BY <1>1
<1>4. Checks(list) \in Seq(FitTasks')
  BY <1>1, <1>2, <1>3, FitChecks
<1> QED
  BY <1>4 DEF list

\* A computation waits for a list and then ends with t.
LEMMA FitThen ==
    ASSUME NEW s \in Seq(FitTasks'), NEW t \in Tasks, Fit(t)'
    PROVE  /\ s \o <<t>> \in Seq(FitTasks')
           /\ \E k \in 1..Len(s \o <<t>>) : (s \o <<t>>)[k] = t
           /\ \A r : (\E k \in 1..Len(s) : Delivers(s[k], r)) =>
                        \E k \in 1..Len(s \o <<t>>) : Delivers((s \o <<t>>)[k], r)
<1>1. t \in FitTasks' /\ s \in Seq(Tasks)
  BY FitTyped DEF FitTasks
<1>2. s \o <<t>> \in Seq(FitTasks')
  <2>1. <<t>> \in Seq(FitTasks')
    BY <1>1
  <2> QED
    BY <2>1, ConcatProperties
<1>3. /\ Len(s) \in Nat /\ Len(s \o <<t>>) = Len(s) + 1
      /\ (s \o <<t>>)[Len(s) + 1] = t
      /\ \A k \in 1..Len(s) : (s \o <<t>>)[k] = s[k]
  BY <1>1, OneMore
<1> DEFINE u == s \o <<t>>
<1> HIDE DEF u
<1>4. /\ Len(s) \in Nat /\ Len(u) = Len(s) + 1 /\ u[Len(s) + 1] = t
      /\ \A k \in 1..Len(s) : u[k] = s[k]
  BY <1>3 DEF u
<1>5. /\ Len(s) + 1 \in 1..Len(u)
      /\ \A k \in 1..Len(s) : k \in 1..Len(u)
  BY <1>4
<1>6. /\ \E k \in 1..Len(u) : u[k] = t
      /\ \A r : (\E k \in 1..Len(s) : Delivers(s[k], r)) =>
                   \E k \in 1..Len(u) : Delivers(u[k], r)
  BY <1>4, <1>5
<1> QED
  BY <1>2, <1>6 DEF u

LEMMA CheckCFGDelivers ==
    ASSUME DeliverInv, OrderInv', agenda # <<>>, CheckCFG
    PROVE  DeliverInv'
<1>0. \A r : Delivers(Head(agenda), r) => r = "CFG"
  BY DEF CheckCFG, Top, Delivers
<1>1. Adds /\ Return
  BY SkipAdds DEF CheckCFG, setValid, Quiet, Adds
<1>2. nbb = "few" => Settled("CFG")'
  <2>1. CASE "CFG" \in bits
    BY <1>1, <2>1 DEF Adds, Settled, Valid, BitResults
  <2>2. CASE "CFG" \notin bits
    BY <2>2 DEF CheckCFG, setValid, Settled, Valid, BitResults
  <2> QED
    BY <2>1, <2>2
<1> QED
  BY <1>0, <1>1, <1>2, AddsPreserves, DeliverDone

LEMMA CheckRPODelivers ==
    ASSUME DeliverInv, OrderInv', agenda # <<>>, CheckRPO
    PROVE  DeliverInv'
<1>0. \A r : Delivers(Head(agenda), r) => r = "RPO"
  BY DEF CheckRPO, Top, Delivers
<1>1. CASE "CFG" \notin bits
  BY <1>1, DeliverStop DEF CheckRPO, Assertions
<1>2. CASE "CFG" \in bits
  <2>1. Adds /\ Return
    BY <1>2, SkipAdds DEF CheckRPO, setValid, Quiet, Adds
  <2>2. nbb = "few" => Settled("RPO")'
    <3>1. CASE "RPO" \in bits
      BY <2>1, <3>1 DEF Adds, Settled, Valid, BitResults
    <3>2. CASE "RPO" \notin bits
      BY <1>2, <3>2 DEF CheckRPO, setValid, Settled, Valid, BitResults
    <3> QED
      BY <3>1, <3>2
  <2> QED
    BY <1>0, <2>1, <2>2, AddsPreserves, DeliverDone
<1> QED
  BY <1>1, <1>2

LEMMA CheckSCCDelivers ==
    ASSUME DeliverInv, OrderInv', agenda # <<>>, CheckSCC
    PROVE  DeliverInv'
<1>0. \A r : Delivers(Head(agenda), r) => r = "SCC"
  BY DEF CheckSCC, Top, Delivers
<1>1. CASE ~isPassValid("SCC") /\ "CFG" \notin bits
  BY <1>1, DeliverStop DEF CheckSCC, Assertions
<1>2. CASE isPassValid("SCC")
  <2>1. Skip /\ Settled("SCC")
    BY <1>2 DEF CheckSCC, isPassValid, Settled, Valid, BitResults, DeliverInv,
       OrderInv, TypeOK
  <2> QED
    BY <1>0, <2>1, SkipAdds, AddsPreserves, DeliverDone
<1>3. CASE ~isPassValid("SCC") /\ "CFG" \in bits
  <2>1. setValid({"SCC"}, registered \cup {"SCC"}) /\ Return /\ Quiet
    BY <1>3 DEF CheckSCC
  <2>2. Adds /\ Settled("SCC")'
    BY <2>1 DEF setValid, Quiet, Adds, Settled, Valid, BitResults
  <2> QED
    BY <1>0, <2>1, <2>2, AddsPreserves, DeliverDone
<1> QED
  BY <1>1, <1>2, <1>3

LEMMA CheckExprTabDelivers ==
    ASSUME DeliverInv, OrderInv', agenda # <<>>, CheckExprTab
    PROVE  DeliverInv'
<1>0. \A r : Delivers(Head(agenda), r) => r = "EXPR_TAB"
  BY DEF CheckExprTab, Top, Delivers
<1>1. CASE isPassValid("EXPR_TAB") \/ nbb = "none"
  <2>1. Skip /\ (nbb = "few" => Settled("EXPR_TAB"))
    BY <1>1 DEF CheckExprTab, isPassValid, Settled, Valid, BitResults, DeliverInv,
       OrderInv, TypeOK
  <2> QED
    BY <1>0, <2>1, SkipAdds, AddsPreserves, DeliverDone
<1>2. CASE ~(isPassValid("EXPR_TAB") \/ nbb = "none")
  <2>1. setValid({"EXPR_TAB"}, registered \cup {"EXPR_TAB"}) /\ Return /\ Quiet
    BY <1>2 DEF CheckExprTab
  <2>2. Adds /\ Settled("EXPR_TAB")'
    BY <2>1 DEF setValid, Quiet, Adds, Settled, Valid, BitResults
  <2> QED
    BY <1>0, <2>1, <2>2, AddsPreserves, DeliverDone
<1> QED
  BY <1>1, <1>2

LEMMA CheckDomDelivers ==
    ASSUME DeliverInv, OrderInv', agenda # <<>>, NEW p \in {"DOM", "PDOM"}, CheckDom(p)
    PROVE  DeliverInv'
<1> DEFINE a == Task("ensure", "DOM", {})
           b == Task("ensure", "PDOM", {})
           s == <<a, b>>
<1>0. \A r : Delivers(Head(agenda), r) => r \in {"DOM", "PDOM"}
  BY DEF CheckDom, Top, Delivers
<1>1. Adds /\ Replace(s)
  BY DEF CheckDom, Quiet, Adds
<1>2. /\ a.op = "ensure" /\ a.p = "DOM" /\ b.op = "ensure" /\ b.p = "PDOM"
      /\ a \in Tasks /\ b \in Tasks
  <2>1. a \in Tasks /\ b \in Tasks
    BY Names, TaskType
  <2> QED
    BY <2>1, TaskFields
<1> HIDE DEF a, b
<1>3. a \in FitTasks' /\ b \in FitTasks'
  BY <1>2 DEF FitTasks, Fit, Calm, CFGResults
<1>4. s \in Seq(FitTasks') /\ Len(s) = 2 /\ s[1] = a /\ s[2] = b
  BY <1>3
<1> HIDE DEF s
<1>5. 1 \in 1..Len(s) /\ 2 \in 1..Len(s)
  BY <1>4
<1>6. Delivers(s[1], "DOM") /\ Delivers(s[2], "PDOM")
  BY <1>2, <1>4 DEF Delivers
<1>7. \A r : Delivers(Head(agenda), r) => \E k \in 1..Len(s) : Delivers(s[k], r)
  BY <1>0, <1>5, <1>6
<1> QED
  BY <1>1, <1>4, <1>7, AddsPreserves, DeliverStep

\* The head asks for x, and then its result p is computed.
LEMMA WaitDelivers ==
    ASSUME DeliverInv, OrderInv', agenda # <<>>, Adds,
           NEW x \in Passes, x \in Calm, NEW p \in Passes, p \in Calm,
           p \in {"CDG", "GVN"} => p \in registered',
           Replace(Checks(<<x>>) \o <<Task("finish", p, {})>>),
           \A r : Delivers(Head(agenda), r) => r = p
    PROVE  DeliverInv'
<1> DEFINE t == Task("finish", p, {})
           s == Checks(<<x>>) \o <<t>>
<1>1. asked' = asked
  BY DEF Adds
<1>2. t \in Tasks /\ t.op = "finish" /\ t.p = p /\ t.opts = {}
  <2>1. t \in Tasks
    BY TaskType
  <2> QED
    BY <2>1, TaskFields
<1> HIDE DEF t
<1>3. Fit(t)'
  BY <1>2 DEF Fit, Calm, CFGResults
<1>4. Checks(<<x>>) \in Seq(FitTasks')
  BY <1>1, FitOne
<1>5. s \in Seq(FitTasks') /\ \E k \in 1..Len(s) : s[k] = t
  BY <1>2, <1>3, <1>4, FitThen
<1> HIDE DEF s
<1>6. \E k \in 1..Len(s) : Delivers(s[k], p)
  BY <1>2, <1>5 DEF Delivers
<1>7. Replace(s)
  BY DEF s, t
<1> QED
  BY <1>5, <1>6, <1>7, AddsPreserves, DeliverStep

LEMMA EnsureDomDelivers ==
    ASSUME DeliverInv, OrderInv', agenda # <<>>, NEW p \in {"DOM", "PDOM"}, EnsureDom(p)
    PROVE  DeliverInv'
<1>0. \A r : Delivers(Head(agenda), r) => r = p
  BY DEF EnsureDom, Top, Delivers
<1>1. CASE p \in bits
  <2>1. Skip /\ Settled(p)
    BY <1>1 DEF EnsureDom, Settled, Valid, BitResults
  <2> QED
    BY <1>0, <2>1, SkipAdds, AddsPreserves, DeliverDone
<1>2. CASE p \notin bits /\ "CFG" \notin bits
  BY <1>2, DeliverStop DEF EnsureDom, Assertions
<1>3. CASE p \notin bits /\ "CFG" \in bits
  <2>1. nbb # "none"
    BY <1>3 DEF DeliverInv, OrderInv, CFGHasBB
  <2>2. Replace(Checks(<<"RPO">>) \o <<Task("finish", p, {})>>) /\ Adds
    BY <1>3, <2>1 DEF EnsureDom, Quiet, Adds
  <2>3. "RPO" \in Passes /\ p \in Passes /\ "RPO" \in Calm /\ p \in Calm
    BY Names DEF Calm, CFGResults
  <2> QED
    BY <1>0, <2>2, <2>3, WaitDelivers
<1> QED
  BY <1>1, <1>2, <1>3

LEMMA CheckLoopInfoDelivers ==
    ASSUME DeliverInv, OrderInv', agenda # <<>>, CheckLoopInfo
    PROVE  DeliverInv'
<1>0. \A r : Delivers(Head(agenda), r) => r = "LOOP_INFO"
  BY DEF CheckLoopInfo, Top, Delivers
<1>1. CASE "LOOP_INFO" \in bits
  <2>1. Skip /\ Settled("LOOP_INFO")
    BY <1>1 DEF CheckLoopInfo, Settled, Valid, BitResults
  <2> QED
    BY <1>0, <2>1, SkipAdds, AddsPreserves, DeliverDone
<1>2. CASE "LOOP_INFO" \notin bits /\ "CFG" \notin bits
  BY <1>2, DeliverStop DEF CheckLoopInfo, Assertions
<1>3. CASE "LOOP_INFO" \notin bits /\ "CFG" \in bits
  <2>1. nbb # "none"
    BY <1>3 DEF DeliverInv, OrderInv, CFGHasBB
  <2>2. Replace(Checks(<<"DOM">>) \o <<Task("finish", "LOOP_INFO", {})>>) /\ Adds
    BY <1>3, <2>1 DEF CheckLoopInfo, Quiet, Adds
  <2>3. /\ "DOM" \in Passes /\ "LOOP_INFO" \in Passes
        /\ "DOM" \in Calm /\ "LOOP_INFO" \in Calm
    BY Names DEF Calm, CFGResults
  <2> QED
    BY <1>0, <2>2, <2>3, WaitDelivers
<1> QED
  BY <1>1, <1>2, <1>3

LEMMA CheckCDGDelivers ==
    ASSUME DeliverInv, OrderInv', agenda # <<>>, CheckCDG
    PROVE  DeliverInv'
<1>0. \A r : Delivers(Head(agenda), r) => r = "CDG"
  BY DEF CheckCDG, Top, Delivers
<1>1. CASE "CDG" \in registered \cap okobj
  <2>1. Skip /\ Settled("CDG")
    BY <1>1 DEF CheckCDG, Settled, Valid, BitResults
  <2> QED
    BY <1>0, <2>1, SkipAdds, AddsPreserves, DeliverDone
<1>2. CASE "CDG" \notin registered \cap okobj /\ "CFG" \notin bits
  BY <1>2, DeliverStop DEF CheckCDG, Assertions
<1>3. CASE "CDG" \notin registered \cap okobj /\ "CFG" \in bits
  <2>1. nbb # "none"
    BY <1>3 DEF DeliverInv, OrderInv, CFGHasBB
  <2>2. /\ Replace(Checks(<<"PDOM">>) \o <<Task("finish", "CDG", {})>>) /\ Adds
        /\ "CDG" \in registered'
    BY <1>3, <2>1 DEF CheckCDG, Quiet, Adds
  <2>3. /\ "PDOM" \in Passes /\ "CDG" \in Passes /\ "PDOM" \in Calm /\ "CDG" \in Calm
    BY Names DEF Calm, CFGResults
  <2> QED
    BY <1>0, <2>2, <2>3, WaitDelivers
<1> QED
  BY <1>1, <1>2, <1>3

\* A task that is neither the start nor the end of a computation is fit
\* unless a caller waits for GVN.
LEMMA FitBetween ==
    ASSUME NEW t \in Tasks, t.op \in {"du", "solve", "solved"},
           asked' = asked, "GVN" \notin Asked
    PROVE  Fit(t)' /\ t \in FitTasks' /\ <<t>> \in Seq(FitTasks')
<1>1. Fit(t)'
  BY DEF Fit, Asked
<1> QED
  BY <1>1 DEF FitTasks

\* The requests of alias analysis and what follows them.
LEMMA FitAA ==
    ASSUME asked' = asked, "GVN" \notin Asked, NEW u \in Tasks, u.op = "du",
           NEW flow \in {<<>>, Checks(<<"RPO">>)}
    PROVE  LET s == Checks(<<"LOOP_INFO", "SCC">>) \o flow
                      \o <<Task("finish", "AA", {})>> \o <<u>>
           IN  /\ s \in Seq(FitTasks')
               /\ \E k \in 1..Len(s) : s[k] = u
               /\ \E k \in 1..Len(s) : Delivers(s[k], "AA")
<1> DEFINE list == <<"LOOP_INFO", "SCC">>
           t == Task("finish", "AA", {})
           pre == Checks(list) \o flow
<1>1. list \in Seq(Passes) /\ Len(list) = 2 /\ list[1] = "LOOP_INFO" /\ list[2] = "SCC"
  BY Names
<1>2. t \in Tasks
  BY Names, TaskType
<1>3. t.op = "finish" /\ t.p = "AA"
  BY TaskFields
<1>r. "RPO" \in Passes /\ "RPO" \in Calm
  BY Names DEF Calm, CFGResults
<1> HIDE DEF list, t
<1>4. Checks(list) \in Seq(FitTasks')
  BY <1>1, FitChecks
<1>5. pre \in Seq(FitTasks')
  <2>1. Checks(<<"RPO">>) \in Seq(FitTasks') /\ <<>> \in Seq(FitTasks')
    BY <1>r, FitOne, EmptySeq
  <2> QED
    BY <1>4, <2>1, ConcatProperties
<1>6. Fit(t)' /\ Fit(u)'
  BY <1>3, FitBetween DEF Fit, Asked
<1> HIDE DEF pre
<1> DEFINE v == pre \o <<t>>
<1>7. v \in Seq(FitTasks') /\ \E k \in 1..Len(v) : v[k] = t
  BY <1>2, <1>5, <1>6, FitThen
<1> HIDE DEF v
<1>8. \E k \in 1..Len(v) : Delivers(v[k], "AA")
  BY <1>3, <1>7 DEF Delivers
<1>9. /\ v \o <<u>> \in Seq(FitTasks')
      /\ \E k \in 1..Len(v \o <<u>>) : (v \o <<u>>)[k] = u
      /\ \E k \in 1..Len(v \o <<u>>) : Delivers((v \o <<u>>)[k], "AA")
  BY <1>6, <1>7, <1>8, FitThen
<1> QED
  BY <1>9 DEF v, pre, list, t

LEMMA CheckAAandDUDelivers ==
    ASSUME DeliverInv, OrderInv', agenda # <<>>, NEW p \in Passes, CheckAAandDU(p)
    PROVE  DeliverInv'
<1> DEFINE u == Task("du", p, Head(agenda).opts)
<1>0. /\ Head(agenda).op = "check" /\ Head(agenda).p = p
      /\ p \in {"AA", "MD_REF"} \cup Solved
  BY DEF CheckAAandDU, Top
<1>1. p \notin Calm /\ p # "DOM" /\ p # "PDOM"
  BY <1>0 DEF Calm, CFGResults, Solved
<1>2. "GVN" \notin Asked
  BY <1>0, <1>1, FitHead DEF DeliverInv, Fit
<1>3. \A r : Delivers(Head(agenda), r) => r = p /\ r \in Head(agenda).opts
  BY <1>0, <1>1 DEF Delivers, Calm
<1>4. u \in Tasks
  <2>1. Head(agenda).opts \in SUBSET (Passes \cup Results)
    BY AgendaType DEF DeliverInv, OrderInv, TypeOK
  <2> QED
    BY <2>1, TaskType
<1>5. u.op = "du" /\ u.opts = Head(agenda).opts
  BY TaskFields
<1> HIDE DEF u
<1>6. \A r : Delivers(Head(agenda), r) => r = "AA" \/ Delivers(u, r)
  BY <1>0, <1>3, <1>5 DEF Delivers
<1>7. CASE \E what \in Assertions : Assert(what)
  BY <1>7, DeliverStop
<1>8. CASE /\ "AA" \notin Head(agenda).opts \/ "AA" \in bits \/ nbb = "none"
           /\ Replace(<<u>>) /\ Quiet /\ UNCHANGED <<bits, registered, okobj, rpolist>>
  <2>1. Adds /\ asked' = asked
    BY <1>8 DEF Quiet, Adds
  <2>2. <<u>> \in Seq(FitTasks') /\ 1 \in 1..Len(<<u>>) /\ <<u>>[1] = u
    BY <1>2, <1>4, <1>5, <2>1, FitBetween
  <2>3. nbb = "few" /\ Delivers(Head(agenda), "AA") => Settled("AA")'
    BY <1>3, <1>8 DEF Settled, Valid, BitResults
  <2>4. nbb = "few" => \A r \in Asked : Delivers(Head(agenda), r) =>
            Settled(r)' \/ \E k \in 1..Len(<<u>>) : Delivers(<<u>>[k], r)
    BY <1>6, <2>2, <2>3
  <2> QED
    BY <1>8, <2>1, <2>2, <2>4, AddsPreserves, DeliverStep
<1>9. CASE /\ registered' = registered \cup {"AA"}
           /\ \E flow \in {<<>>, Checks(<<"RPO">>)} :
                 Replace(Checks(<<"LOOP_INFO", "SCC">>) \o flow
                           \o <<Task("finish", "AA", {})>> \o <<u>>)
           /\ Quiet /\ UNCHANGED <<bits, okobj, rpolist, stale>>
  <2>1. Adds /\ asked' = asked
    BY <1>9, <1>2 DEF Quiet, Adds
  <2>2. PICK flow \in {<<>>, Checks(<<"RPO">>)} :
            Replace(Checks(<<"LOOP_INFO", "SCC">>) \o flow
                      \o <<Task("finish", "AA", {})>> \o <<u>>)
    BY <1>9
  <2> DEFINE s == Checks(<<"LOOP_INFO", "SCC">>) \o flow
                    \o <<Task("finish", "AA", {})>> \o <<u>>
  <2>3. /\ s \in Seq(FitTasks')
        /\ \E k \in 1..Len(s) : s[k] = u
        /\ \E k \in 1..Len(s) : Delivers(s[k], "AA")
    BY <1>2, <1>4, <1>5, <2>1, FitAA
  <2>4. Replace(s)
    BY <2>2
  <2> HIDE DEF s
  <2>5. \A r : Delivers(Head(agenda), r) => \E k \in 1..Len(s) : Delivers(s[k], r)
    BY <1>6, <2>3
  <2> QED
    BY <2>1, <2>3, <2>4, <2>5, AddsPreserves, DeliverStep
<1> QED
  BY <1>0, <1>7, <1>8, <1>9 DEF CheckAAandDU, Assertions, u

LEMMA RecomputeDUDelivers ==
    ASSUME DeliverInv, OrderInv', agenda # <<>>, RecomputeDU
    PROVE  DeliverInv'
<1> DEFINE opts == Head(agenda).opts
           ref == "MD_REF" \in opts /\ "MD_REF" \notin bits
           flags == SolveFlags(opts)
           t == Task("solve", Head(agenda).p, flags \cup (opts \cap {"MD_REF"}))
           next == IF flags = {} THEN <<>> ELSE <<t>>
<1>0. Head(agenda).op = "du"
  BY DEF RecomputeDU
<1>1. "GVN" \notin Asked
  BY <1>0, FitHead DEF DeliverInv, Fit
<1>2. \A r : Delivers(Head(agenda), r) =>
          r \in opts /\ (r = "MD_REF" \/ r \in Solved) /\ r \in BitResults
  BY <1>0, Names DEF Delivers
<1>3. \A r \in Solved : r \in opts => r \in bits \/ r \in flags
  BY DEF SolveFlags
<1>4. CASE \E what \in Assertions : Assert(what)
  BY <1>4, DeliverStop
<1>5. CASE Skip /\ ((~ref /\ flags = {}) \/ nbb = "none")
  <2>1. nbb = "few" => \A r : Delivers(Head(agenda), r) => Settled(r)
    BY <1>2, <1>3, <1>5 DEF Settled, Valid
  <2>2. Adds /\ Return /\ \A r : Settled(r) => Settled(r)'
    BY <1>5, SkipAdds
  <2> QED
    BY <2>1, <2>2, AddsPreserves, DeliverDone
<1>6. CASE /\ nbb = "many" /\ registered' = registered \cup {"DU_MGR"}
           /\ Return /\ Quiet /\ UNCHANGED <<bits, okobj, rpolist, stale>>
  <2>1. Adds
    BY <1>1, <1>6 DEF Quiet, Adds
  <2> QED
    BY <1>6, <2>1, AddsPreserves, DeliverDone
<1>7. CASE /\ registered' = registered \cup {"DU_MGR"}
           /\ IF ref
              THEN bits' = bits \cup {"MD_REF"} /\ Recomputed({"MD_REF"})
              ELSE UNCHANGED <<bits, stale>>
           /\ Replace(next) /\ Quiet /\ UNCHANGED <<okobj, rpolist>>
  <2>1. Adds /\ asked' = asked
    BY <1>1, <1>7 DEF Quiet, Adds
  <2>2. t \in Tasks
    <3>1. opts \in SUBSET (Passes \cup Results) /\ Head(agenda).p \in Passes
      BY AgendaType DEF DeliverInv, OrderInv, TypeOK
    <3>2. flags \cup (opts \cap {"MD_REF"}) \in SUBSET (Passes \cup Results)
      BY <3>1, Names DEF SolveFlags
    <3> QED
      BY <3>1, <3>2, TaskType
  <2>3. t.op = "solve" /\ t.opts = flags \cup (opts \cap {"MD_REF"})
    BY TaskFields
  <2> HIDE DEF t
  <2>4. /\ <<t>> \in Seq(FitTasks') /\ <<>> \in Seq(FitTasks')
        /\ 1 \in 1..Len(<<t>>) /\ <<t>>[1] = t
    BY <1>1, <2>1, <2>2, <2>3, FitBetween, EmptySeq
  <2>5. next \in Seq(FitTasks')
    BY <2>4
  <2>6. \A r \in flags : r \in Solved => \E k \in 1..Len(next) : Delivers(next[k], r)
    <3>1. \A r \in flags : r \in Solved => Delivers(t, r)
      BY <2>3 DEF Delivers
    <3> QED
      BY <2>4, <3>1
  <2> HIDE DEF next
  <2>7. ("MD_REF" \in opts => "MD_REF" \in bits') /\ bits \subseteq bits'
    BY <1>7
  <2>8. \A r : Delivers(Head(agenda), r) =>
            Settled(r)' \/ \E k \in 1..Len(next) : Delivers(next[k], r)
    BY <1>2, <1>3, <2>6, <2>7 DEF Settled, Valid
  <2>9. Replace(next)
    BY <1>7
  <2> QED
    BY <2>1, <2>5, <2>8, <2>9, AddsPreserves, DeliverStep
<1> QED
  BY <1>4, <1>5, <1>6, <1>7 DEF RecomputeDU, Assertions

LEMMA StartSolveDelivers ==
    ASSUME DeliverInv, OrderInv', agenda # <<>>, StartSolve
    PROVE  DeliverInv'
<1> DEFINE task == Task("solved", Head(agenda).p, Head(agenda).opts \cap Solved)
<1>0. Head(agenda).op = "solve"
  BY DEF StartSolve
<1>1. "GVN" \notin Asked
  BY <1>0, FitHead DEF DeliverInv, Fit
<1>2. CASE \E what \in Assertions : Assert(what)
  BY <1>2, DeliverStop
<1>3. CASE /\ Replace(Checks(<<"RPO">>) \o <<task>>)
           /\ Quiet /\ UNCHANGED <<bits, registered, okobj, rpolist, stale>>
  <2>1. Adds /\ asked' = asked
    BY <1>3 DEF Quiet, Adds
  <2>t. task \in Tasks
    BY AgendaType DEF DeliverInv, OrderInv, TypeOK, Task, Tasks
  <2>2. PICK t \in Tasks : t = task
    BY <2>t
  <2>3. t.op = "solved" /\ t.opts = Head(agenda).opts \cap Solved
    BY <2>2, TaskFields
  <2> DEFINE s == Checks(<<"RPO">>) \o <<t>>
  <2>r. Replace(s)
    BY <1>3, <2>2
  <2>4. Fit(t)'
    <3>1. t.op \in {"du", "solve", "solved"}
      BY <2>3
    <3> QED
      BY <1>1, <2>1, <2>2, <3>1, FitBetween
  <2>5. Checks(<<"RPO">>) \in Seq(FitTasks')
    <3>1. "RPO" \in Passes /\ "RPO" \in Calm
      BY Names DEF Calm, CFGResults
    <3> QED
      BY <2>1, <3>1, FitOne
  <2>6. s \in Seq(FitTasks') /\ \E k \in 1..Len(s) : s[k] = t
    BY <2>2, <2>4, <2>5, FitThen
  <2> HIDE DEF s
  <2>7. \A r : Delivers(Head(agenda), r) => Delivers(t, r)
    BY <1>0, <2>3 DEF Delivers
  <2> QED
    BY <2>1, <2>6, <2>7, <2>r, AddsPreserves, DeliverStep
<1> QED
  BY <1>2, <1>3 DEF StartSolve, Assertions

LEMMA CheckDUChainDelivers ==
    ASSUME DeliverInv, OrderInv', agenda # <<>>, CheckDUChain
    PROVE  DeliverInv'
<1> DEFINE task == Task("finish", "CLASSIC_DU_CHAIN", Head(agenda).opts)
<1>0. Head(agenda).op = "check" /\ Head(agenda).p = "CLASSIC_DU_CHAIN"
  BY DEF CheckDUChain, Top
<1>1. /\ "GVN" \notin Asked
      /\ "REACH_DEF" \in Asked => "REACH_DEF" \in Head(agenda).opts
  BY <1>0, FitHead DEF DeliverInv, Fit, Calm, CFGResults
<1>2. \A r : ~Delivers(Head(agenda), r)
  BY <1>0 DEF Delivers, CFGResults, Solved
<1>3. CASE \E what \in Assertions : Assert(what)
  BY <1>3, DeliverStop
<1>4. CASE Skip
  BY <1>2, <1>4, SkipAdds, AddsPreserves, DeliverDone
<1>5. CASE /\ registered' = registered \cup {"DU_MGR"}
           /\ Replace(Checks(DUChainPrereqs) \o <<task>>)
           /\ Quiet /\ UNCHANGED <<bits, okobj, rpolist, stale>>
  <2>1. Adds /\ asked' = asked
    BY <1>1, <1>5 DEF Quiet, Adds
  <2>t. task \in Tasks
    BY Names, AgendaType, TaskType DEF DeliverInv, OrderInv, TypeOK
  <2>2. PICK t \in Tasks : t = task
    BY <2>t
  <2>3. t.op = "finish" /\ t.p = "CLASSIC_DU_CHAIN" /\ t.opts = Head(agenda).opts
    BY <2>2, TaskFields
  <2> DEFINE s == Checks(DUChainPrereqs) \o <<t>>
  <2>r. Replace(s)
    BY <1>5, <2>2
  <2>4. Fit(t)'
    <3>1. t.op \notin {"du", "solve", "solved"} /\ t.p \notin {"CDG", "GVN"}
      BY <2>3
    <3>2. "GVN" \notin Asked' /\ ("REACH_DEF" \in Asked' => "REACH_DEF" \in t.opts)
      BY <1>1, <2>1, <2>3 DEF Asked
    <3> QED
      BY <3>1, <3>2 DEF Fit
  <2>5. DUChainPrereqs \in Seq(Passes)
          /\ \A i \in 1..Len(DUChainPrereqs) : DUChainPrereqs[i] # "CLASSIC_DU_CHAIN"
    <3> DEFINE P == {"RPO", "DOM", "MD_REF", "REACH_DEF"}
    <3>1. /\ <<>> \in Seq(P) /\ <<"RPO", "DOM", "MD_REF">> \in Seq(P)
          /\ <<"RPO", "DOM", "MD_REF", "REACH_DEF">> \in Seq(P)
      BY EmptySeq
    <3>2. DUChainPrereqs \in Seq(P)
      BY <3>1, ConcatProperties DEF DUChainPrereqs
    <3>3. P \subseteq Passes /\ "CLASSIC_DU_CHAIN" \notin P
      BY Names DEF Solved
    <3> HIDE DEF P
    <3> QED
      BY <3>2, <3>3
  <2>6. Checks(DUChainPrereqs) \in Seq(FitTasks')
    BY <1>1, <2>1, <2>5, FitChecks
  <2>7. s \in Seq(FitTasks')
    BY <2>4, <2>6, FitThen
  <2> HIDE DEF s
  <2> QED
    BY <1>2, <2>1, <2>7, <2>r, AddsPreserves, DeliverStep
<1> QED
  BY <1>3, <1>4, <1>5 DEF CheckDUChain, Assertions

LEMMA FinishDUChainDelivers ==
    ASSUME DeliverInv, OrderInv', agenda # <<>>, FinishDUChain
    PROVE  DeliverInv'
<1>0. Head(agenda).op = "finish" /\ Head(agenda).p = "CLASSIC_DU_CHAIN"
  BY DEF FinishDUChain, Top
<1>1. /\ "GVN" \notin Asked
      /\ "REACH_DEF" \in Asked => "REACH_DEF" \in Head(agenda).opts
  BY <1>0, FitHead DEF DeliverInv, Fit, Calm, CFGResults
<1>2. \A r : Delivers(Head(agenda), r) => Settled(r)'
  BY <1>0 DEF Delivers, Settled
<1>3. CASE \E what \in Assertions : Assert(what)
  BY <1>3, DeliverStop
<1>4. CASE ~\E what \in Assertions : Assert(what)
  <2>1. /\ bits \ {"REACH_DEF"} \subseteq bits'
        /\ nbb # "many" /\ "REACH_DEF" \in Head(agenda).opts => bits \subseteq bits'
        /\ Return /\ Quiet /\ UNCHANGED <<registered, okobj, rpolist>>
    BY <1>4 DEF FinishDUChain, Assertions
  <2>2. CASE nbb = "many"
    <3>1. agenda' \in Seq(FitTasks')
      <4>1. /\ Tail(agenda) \in Seq(Tasks) /\ <<>> \in Seq(FitTasks')
            /\ agenda \in Seq(FitTasks)
        BY EmptySeq DEF DeliverInv, OrderInv, TypeOK
      <4>2. agenda' = <<>> \o Tail(agenda)
        BY <2>1, <4>1, ConcatEmptySeq DEF Return
      <4> QED
        BY <2>1, <4>1, <4>2, FitStep DEF Quiet
    <3> QED
      BY <2>1, <2>2, <3>1 DEF DeliverInv, Owed, Quiet
  <2>3. CASE nbb # "many"
    <3>1. Preserves
      BY <1>1, <2>1, <2>3 DEF Preserves, Quiet
    <3> QED
      BY <1>2, <2>1, <3>1, DeliverDone
  <2> QED
    BY <2>2, <2>3
<1> QED
  BY <1>3, <1>4

LEMMA CheckPassDelivers ==
    ASSUME DeliverInv, OrderInv', agenda # <<>>, NEW p \in Passes, CheckPass(p)
    PROVE  DeliverInv'
<1> DEFINE t == Task(WorkOf(p), p, {})
           s == Checks(PrereqsOf(p)) \o <<t>>
<1>0. /\ p \in {"GVN", "PRSSA_MGR", "MDSSA_MGR"}
      /\ Head(agenda).op = "check" /\ Head(agenda).p = p
  BY DEF CheckPass, Top
<1>1. p # "GVN" => "GVN" \notin Asked
  BY <1>0, FitHead DEF DeliverInv, Fit, Calm, CFGResults
<1>2. \A r : Delivers(Head(agenda), r) => r = p
  BY <1>0 DEF Delivers
<1>3. CASE p \in registered \cap okobj
  <2>1. Skip
    BY <1>3 DEF CheckPass
  <2>2. Settled(p)
    BY <1>0, <1>3 DEF Settled, Valid, BitResults
  <2> QED
    BY <1>2, <2>1, <2>2, SkipAdds, AddsPreserves, DeliverDone
<1>4. CASE p \notin registered \cap okobj
  <2>1. /\ registered' = registered \cup {p} /\ Quiet /\ UNCHANGED bits
        /\ okobj' = IF p = "PRSSA_MGR" THEN okobj \ {"GVN"} ELSE okobj
        /\ IF p = "GVN" /\ (nbb = "none" \/ ~GVNReady) THEN Return ELSE Replace(s)
    BY <1>4 DEF CheckPass
  <2>2. Preserves
    BY <1>1, <2>1 DEF Preserves, Quiet, GVNReady
  <2>3. CASE p = "GVN" /\ (nbb = "none" \/ ~GVNReady)
    <3>1. nbb = "few" => Settled("GVN")'
      BY <2>1, <2>3 DEF Settled, GVNReady
    <3> QED
      BY <1>2, <2>1, <2>2, <2>3, <3>1, DeliverDone
  <2>4. CASE ~(p = "GVN" /\ (nbb = "none" \/ ~GVNReady))
    <3>1. t \in Tasks
      BY WorkType
    <3>2. t.p = p /\ t.op = IF p = "PRSSA_MGR" THEN "build" ELSE "finish"
      BY TaskFields DEF WorkOf
    <3> HIDE DEF t
    <3>3. Fit(t)' /\ asked' = asked
      BY <1>0, <1>1, <2>1, <3>2 DEF Fit, Asked, Calm, Quiet
    <3>4. PrereqsOf(p) \in Seq(Passes)
            /\ \A i \in 1..Len(PrereqsOf(p)) : PrereqsOf(p)[i] \in {"RPO", "DOM"}
      <4>1. <<"RPO", "DOM">> \in Seq({"RPO", "DOM"}) /\ <<"DOM">> \in Seq({"RPO", "DOM"})
        OBVIOUS
      <4>2. PrereqsOf(p) \in Seq({"RPO", "DOM"})
        BY <4>1 DEF PrereqsOf
      <4>3. {"RPO", "DOM"} \subseteq Passes
        BY Names
      <4> QED
        BY <4>2, <4>3
    <3>5. {"RPO", "DOM"} \subseteq Calm \ {"CLASSIC_DU_CHAIN"}
      BY DEF Calm, CFGResults
    <3>6. Checks(PrereqsOf(p)) \in Seq(FitTasks')
      BY <3>3, <3>4, <3>5, FitChecks
    <3>7. s \in Seq(FitTasks') /\ \E k \in 1..Len(s) : s[k] = t
      BY <3>1, <3>3, <3>6, FitThen
    <3> HIDE DEF s
    <3>8. Delivers(t, p) \/ Settled(p)'
      BY <3>2 DEF Delivers, Settled
    <3> QED
      BY <1>2, <2>1, <2>2, <2>4, <3>7, <3>8, DeliverStep
  <2> QED
    BY <2>3, <2>4
<1> QED
  BY <1>3, <1>4

LEMMA FinishDelivers ==
    ASSUME DeliverInv, OrderInv', agenda # <<>>, NEW p \in Passes, Finish(p)
    PROVE  DeliverInv'
<1>0. /\ p \in {"DOM", "PDOM", "LOOP_INFO", "CDG", "AA", "GVN"}
      /\ Head(agenda).op = "finish" /\ Head(agenda).p = p
  BY DEF Finish, Top
<1>1. p \in {"CDG", "GVN"} => p \in registered
  BY <1>0, FitHead DEF DeliverInv, Fit
<1>2. \A r : Delivers(Head(agenda), r) => r = p
  BY <1>0 DEF Delivers
<1>3. CASE \E what \in Assertions : Assert(what)
  BY <1>3, DeliverStop
<1>4. CASE setValid({p}, registered) /\ Return /\ Quiet
  <2>1. Adds
    BY <1>0, <1>4 DEF setValid, Quiet, Adds
  <2>2. Settled(p)'
    BY <1>0, <1>1, <1>4 DEF setValid, Settled, Valid, BitResults
  <2> QED
    BY <1>2, <1>4, <2>1, <2>2, AddsPreserves, DeliverDone
<1> QED
  BY <1>3, <1>4 DEF Finish, Assertions

LEMMA FinishSolveDelivers ==
    ASSUME DeliverInv, OrderInv', agenda # <<>>, FinishSolve
    PROVE  DeliverInv'
<1>0. Head(agenda).op = "solved" /\ Head(agenda).opts \in SUBSET Solved
  BY AgendaType DEF FinishSolve, Tasks, DeliverInv, OrderInv, TypeOK
<1>1. "GVN" \notin Asked
  BY <1>0, FitHead DEF DeliverInv, Fit
<1>2. Adds /\ Return /\ bits' = bits \cup Head(agenda).opts
  BY <1>1 DEF FinishSolve, Quiet, Adds
<1>3. \A r : Delivers(Head(agenda), r) => Settled(r)'
  BY <1>0, <1>2, Names DEF Delivers, Settled, Valid
<1> QED
  BY <1>2, <1>3, AddsPreserves, DeliverDone

LEMMA BuildPRSSADelivers ==
    ASSUME DeliverInv, OrderInv', agenda # <<>>, BuildPRSSA
    PROVE  DeliverInv'
<1> DEFINE t == Task("finish", "PRSSA_MGR", {})
           s == Checks(<<"RPO">>) \o <<t>>
<1>0. /\ Head(agenda).op = "build" /\ Replace(s)
      /\ \A r : ~Delivers(Head(agenda), r)
  BY DEF BuildPRSSA, Top, Delivers
<1>1. "GVN" \notin Asked
  BY <1>0, FitHead DEF DeliverInv, Fit
<1>2. Adds /\ asked' = asked
  BY DEF BuildPRSSA, Quiet, Adds
<1>3. t \in Tasks
  BY Names, TaskType
<1>4. t.op = "finish" /\ t.p = "PRSSA_MGR"
  BY TaskFields
<1> HIDE DEF t
<1>5. Fit(t)'
  BY <1>1, <1>2, <1>4 DEF Fit, Asked
<1>6. Checks(<<"RPO">>) \in Seq(FitTasks')
  <2>1. "RPO" \in Passes /\ "RPO" \in Calm
    BY Names DEF Calm, CFGResults
  <2> QED
    BY <1>2, <2>1, FitOne
<1>7. s \in Seq(FitTasks')
  BY <1>3, <1>5, <1>6, FitThen
<1> HIDE DEF s
<1> QED
  BY <1>0, <1>2, <1>7, AddsPreserves, DeliverStep

\* A manager that PRSSA gave up on counts as delivered: it is marked valid.
LEMMA GiveUpPRSSADelivers ==
    ASSUME DeliverInv, OrderInv', agenda # <<>>, GiveUpPRSSA
    PROVE  DeliverInv'
<1>0. /\ Head(agenda).op = "build"
      /\ \A r : ~Delivers(Head(agenda), r)
  BY DEF GiveUpPRSSA, Top, Delivers
<1>1. "GVN" \notin Asked
  BY <1>0, FitHead DEF DeliverInv, Fit
<1>2. CASE \E what \in Assertions : Assert(what)
  BY <1>2, DeliverStop
<1>3. CASE ~\E what \in Assertions : Assert(what)
  <2>1. Adds /\ Return
    BY <1>1, <1>3 DEF GiveUpPRSSA, Assertions, Quiet, Adds
  <2> QED
    BY <1>0, <2>1, AddsPreserves, DeliverDone
<1> QED
  BY <1>2, <1>3

LEMMA FinishPRSSADelivers ==
    ASSUME DeliverInv, OrderInv', agenda # <<>>, FinishPRSSA
    PROVE  DeliverInv'
<1>0. Head(agenda).op = "finish" /\ Head(agenda).p = "PRSSA_MGR"
  BY DEF FinishPRSSA, Top
<1>1. "GVN" \notin Asked
  BY <1>0, FitHead DEF DeliverInv, Fit, Calm, CFGResults
<1>2. \A r : Delivers(Head(agenda), r) => Settled(r)'
  BY <1>0 DEF Delivers, Settled
<1>3. Preserves /\ Return
  BY <1>1 DEF FinishPRSSA, Preserves, Quiet
<1> QED
  BY <1>2, <1>3, DeliverDone

LEMMA FinishMDSSADelivers ==
    ASSUME DeliverInv, OrderInv', agenda # <<>>, FinishMDSSA
    PROVE  DeliverInv'
<1>0. Head(agenda).op = "finish" /\ Head(agenda).p = "MDSSA_MGR"
  BY DEF FinishMDSSA, Top
<1>1. "GVN" \notin Asked
  BY <1>0, FitHead DEF DeliverInv, Fit, Calm, CFGResults
<1>2. \A r : Delivers(Head(agenda), r) => Settled(r)'
  BY <1>0 DEF Delivers, Settled
<1>3. CASE \E what \in Assertions : Assert(what)
  BY <1>3, DeliverStop
<1>4. CASE ~\E what \in Assertions : Assert(what)
  <2>1. Head(agenda).opts \subseteq {"GVN", "NONPRDU"}
    <3>1. agenda \in Seq(Tasks) /\ 1 \in DOMAIN agenda /\ agenda[1] = Head(agenda)
      BY LenProperties, EmptySeq DEF DeliverInv, OrderInv, TypeOK
    <3>2. DropsLittle(agenda[1])
      BY <3>1 DEF DeliverInv, OrderInv
    <3> QED
      BY <1>0, <3>1, <3>2 DEF DropsLittle
  <2>2. PICK built \in {{}, {"MDSSA_MGR"}} :
           /\ bits' = bits \ Head(agenda).opts
           /\ okobj' = (okobj \cup built) \ Head(agenda).opts
    BY <1>4 DEF FinishMDSSA, Assertions
  <2>3. Return /\ Quiet /\ UNCHANGED <<registered, rpolist>>
    BY <1>4 DEF FinishMDSSA, Assertions
  <2>4. /\ bits \ {"GVN", "NONPRDU"} \subseteq bits' /\ "GVN" \notin bits
        /\ okobj \ {"GVN", "NONPRDU"} \subseteq okobj' /\ "NONPRDU" \notin okobj
    BY <2>1, <2>2 DEF DeliverInv, OrderInv, TypeOK, BitResults, Objects, ObjResults
  <2>5. Preserves
    BY <1>1, <2>3, <2>4 DEF Preserves, Quiet
  <2> QED
    BY <1>2, <2>3, <2>5, DeliverDone
<1> QED
  BY <1>3, <1>4

LEMMA RecomputeDelivers ==
    ASSUME DeliverInv, Recompute
    PROVE  DeliverInv'
<1>1. OrderInv'
  BY RecomputeOrder DEF DeliverInv
<1>2. agenda # <<>>
  BY DEF Recompute, CheckCFG, CheckRPO, CheckLoopInfo, CheckCDG,
         CheckSCC, CheckExprTab, RecomputeDU, StartSolve, CheckDUChain,
         FinishDUChain, FinishSolve, CheckDom, EnsureDom, CheckAAandDU,
         CheckPass, Finish, BuildPRSSA, GiveUpPRSSA, FinishPRSSA, FinishMDSSA, Top
<1> QED
  BY <1>1, <1>2, CheckCFGDelivers, CheckRPODelivers, CheckDomDelivers,
     EnsureDomDelivers, CheckLoopInfoDelivers, CheckCDGDelivers,
     CheckSCCDelivers, CheckExprTabDelivers, CheckAAandDUDelivers,
     RecomputeDUDelivers, StartSolveDelivers, CheckDUChainDelivers,
     FinishDUChainDelivers, FinishSolveDelivers, CheckPassDelivers,
     FinishDelivers, BuildPRSSADelivers, GiveUpPRSSADelivers, FinishPRSSADelivers,
     FinishMDSSADelivers DEF Recompute

\* What a list from outside names is asked for by a task of its own.
LEMMA StartOwed ==
    ASSUME NEW list \in Seq(Passes), agenda' = Checks(list), asked' = list,
           (\E i \in DOMAIN list : list[i] = "GVN") =>
               \A i \in DOMAIN list : list[i] \in Calm
    PROVE  agenda' \in Seq(FitTasks') /\ Owed'
<1> DEFINE tasks == Checks(list)
           opts == OptsOf(list)
<1>1. /\ Len(tasks) = Len(list) /\ DOMAIN list = 1..Len(list) /\ tasks \in Seq(Tasks)
      /\ \A i \in 1..Len(list) : tasks[i] = Task("check", list[i], opts)
  BY ChecksAt
<1>2. /\ Asked' = {list[i] : i \in DOMAIN list}
      /\ Asked' \subseteq opts
  BY DEF Asked, OptsOf
<1>3. agenda' = tasks
  OBVIOUS
<1> HIDE DEF tasks, opts
<1>4. \A i \in 1..Len(list) :
         tasks[i].op = "check" /\ tasks[i].p = list[i] /\ tasks[i].opts = opts
  BY <1>1, TaskFields
<1>5. Len(tasks) \in Nat /\ DOMAIN tasks = 1..Len(list) /\ tasks \in [1..Len(list) -> Tasks]
  BY <1>1, LenProperties
<1>6. ASSUME NEW i \in 1..Len(list)
      PROVE  tasks[i] \in FitTasks'
  <2>1. "GVN" \in Asked' => list[i] \in Calm
    BY <1>1, <1>2
  <2>2. "REACH_DEF" \in Asked' => "REACH_DEF" \in opts
    BY <1>2
  <2>3. Fit(tasks[i])'
    <3> DEFINE t == tasks[i]
    <3>1. PICK u : u = t /\ u.op = "check" /\ u.p = list[i] /\ u.opts = opts
      BY <1>4
    <3>2. Fit(u)'
      BY <2>1, <2>2, <3>1 DEF Fit
    <3> QED
      BY <3>1, <3>2
  <2>4. tasks[i] \in Tasks
    BY <1>5
  <2> QED
    BY <2>3, <2>4 DEF FitTasks
<1>7. agenda' \in Seq(FitTasks')
  <2>1. tasks \in [1..Len(list) -> FitTasks']
    BY <1>5, <1>6
  <2> QED
    BY <1>1, <1>3, <1>5, <2>1
<1>8. ASSUME NEW r \in Asked'
      PROVE  Settled(r)' \/ \E j \in DOMAIN agenda' : Delivers(agenda'[j], r)
  <2>1. PICK i \in 1..Len(list) : list[i] = r
    BY <1>1, <1>2
  <2>2. r \in Passes /\ r \in opts
    BY <1>1, <1>2, <2>1
  <2>3. \/ r \in {"PRSSA_MGR", "MDSSA_MGR", "CLASSIC_DU_CHAIN"}
        \/ r \in CFGResults \cup {"CFG", "EXPR_TAB", "GVN"}
        \/ r \in {"AA", "MD_REF"} \cup Solved
    BY <2>2 DEF Passes, Results, BitResults, ObjResults, CFGResults, Solved
  <2>4. r \in {"PRSSA_MGR", "MDSSA_MGR", "CLASSIC_DU_CHAIN"} => Settled(r)'
    BY DEF Settled
  <2>5. r \notin {"PRSSA_MGR", "MDSSA_MGR", "CLASSIC_DU_CHAIN"} => Delivers(tasks[i], r)
    BY <1>4, <2>1, <2>2, <2>3 DEF Delivers
  <2> QED
    BY <1>3, <1>5, <2>4, <2>5
<1> QED
  BY <1>7, <1>8 DEF Owed

LEMMA RequestDelivered ==
    ASSUME GVNWithCFGOnly, DeliverInv, Request \/ IPARequest
    PROVE  DeliverInv'
<1>1. PICK list \in Requests \cup IPARequests : agenda' = Checks(list) /\ asked' = list
  BY DEF Request, IPARequest
<1>2. list \in Seq(Passes)
  BY OptCtxAssumption DEF OptCtxAssumption
<1>3. (\E i \in DOMAIN list : list[i] = "GVN") => \A i \in DOMAIN list : list[i] \in Calm
  BY <1>1 DEF GVNWithCFGOnly, Calm
<1>4. OrderInv'
  BY RequestOrder DEF DeliverInv
<1> QED
  BY <1>1, <1>2, <1>3, <1>4, StartOwed DEF DeliverInv

LEMMA ToSeq ==
    ASSUME NEW S, NEW n \in Nat, NEW f \in [1..n -> S]
    PROVE  f \in Seq(S)
  OBVIOUS

LEMMA OneTask ==
    ASSUME NEW d \in Seq(Tasks), Len(d) = 1
    PROVE  d[1] \in Tasks /\ \A S : d[1] \in S => d \in Seq(S)
<1>1. d \in [1..1 -> Tasks] /\ d[1] \in Tasks
  OBVIOUS
<1>2. ASSUME NEW S, d[1] \in S
      PROVE  d \in Seq(S)
  <2>1. d \in [1..1 -> S]
    BY <1>1, <1>2
  <2>2. 1 \in Nat
    OBVIOUS
  <2> QED
    BY <2>1, <2>2, ToSeq
<1> QED
  BY <1>1, <1>2

\* After an edit nothing is owed.
LEMMA EditDelivered ==
    ASSUME DeliverInv, Edit
    PROVE  DeliverInv'
<1>1. OrderInv'
  BY EditOrder DEF DeliverInv
<1>2. CASE MDSSALost
  <2> DEFINE list == <<"MDSSA_MGR", "DOM", "LOOP_INFO", "CDG">>
  <2>1. list \in Seq(Passes) /\ agenda' = Checks(list) /\ asked' = list
    BY <1>2, Names DEF MDSSALost
  <2>2. \A i \in DOMAIN list : list[i] # "GVN"
    OBVIOUS
  <2> HIDE DEF list
  <2> QED
    BY <1>1, <2>1, <2>2, StartOwed DEF DeliverInv
<1>3. CASE Edit /\ ~MDSSALost
  <2>1. asked' = <<>>
    BY <1>3 DEF Edit, CFGChanged, CFGChangedExcept, GlobalRefined,
       RedirectTrampoline, LiveChanged, Simplified, MDReferenced, Propagated,
       Hoisted, RegionDone, IPADestroyed, Edited, DoMDSSA
  <2>2. Asked' = {}
    BY <2>1 DEF Asked
  <2>3. Owed'
    BY <2>2 DEF Owed
  <2>4. agenda' = <<>> \/ DoMDSSA
    BY <1>3 DEF Edit, CFGChanged, CFGChangedExcept, GlobalRefined,
       RedirectTrampoline, LiveChanged, Simplified, MDReferenced, Propagated,
       Hoisted, RegionDone, IPADestroyed, Edited, Idle
  <2>5. agenda' \in Seq(FitTasks')
    <3>1. CASE agenda' = <<>>
      BY <3>1, EmptySeq
    <3>2. CASE agenda' # <<>>
      <4>1. agenda' = Checks(<<"DOM">>) \o <<Task("finish", "MDSSA_MGR", {"GVN", "NONPRDU"})>>
        BY <2>4, <3>2 DEF DoMDSSA, Idle
      <4>2. "DOM" \in Passes /\ "MDSSA_MGR" \in Passes
            /\ Task("finish", "MDSSA_MGR", {"GVN", "NONPRDU"}) \in Tasks
        BY Names, TaskType
      <4>3. PICK t \in Tasks : t = Task("finish", "MDSSA_MGR", {"GVN", "NONPRDU"})
        BY <4>2
      <4>4. t.op = "finish" /\ t.p = "MDSSA_MGR"
        BY <4>3, TaskFields
      <4>5. Fit(t)'
        BY <2>2, <4>4 DEF Fit
      <4>6. Checks(<<"DOM">>) \in Seq(FitTasks')
        <5> DEFINE list == <<"DOM">>
        <5>1. /\ list \in Seq(Passes) /\ Len(list) = 1 /\ list[1] = "DOM"
          BY <4>2
        <5> HIDE DEF list
        <5>2. Checks(list) \in Seq(Tasks) /\ Len(Checks(list)) = 1
              /\ Checks(list)[1] = Task("check", "DOM", OptsOf(list))
          BY <5>1, ChecksAt
        <5> DEFINE s == Checks(list)
        <5>3. s[1].op = "check" /\ s[1].p = "DOM"
          BY <5>2, TaskFields
        <5>4. PICK d : d = s
          OBVIOUS
        <5>5. d \in Seq(Tasks) /\ Len(d) = 1 /\ d[1].op = "check" /\ d[1].p = "DOM"
          BY <5>2, <5>3, <5>4
        <5>6. PICK u \in Tasks : u = d[1]
          BY <5>5, OneTask
        <5>7. Fit(u)'
          BY <2>2, <5>5, <5>6 DEF Fit
        <5>8. d[1] \in FitTasks'
          BY <5>6, <5>7 DEF FitTasks
        <5>9. d \in Seq(FitTasks')
          BY <5>5, <5>8, OneTask
        <5> QED
          BY <5>4, <5>9 DEF list
      <4> QED
        BY <4>1, <4>3, <4>5, <4>6, FitThen
    <3> QED
      BY <3>1, <3>2
  <2> QED
    BY <1>1, <2>3, <2>5 DEF DeliverInv
<1> QED
  BY <1>2, <1>3

\* When a request returns, every result it listed is valid, whatever list it
\* was and whatever was edited before: a nested request of another entry, the
\* end of the DU chain or the construction of SSA does not take away what an
\* earlier entry had made valid (PassMgr::checkValidAndRecomputeImpl).  A list
\* that asks for GVN together with DU information is left out: such a list
\* may make GVN possible after GVN has given up.
THEOREM RequestsDeliver ==
    ASSUME GVNWithCFGOnly
    PROVE  Spec => []RequestDelivers
<1>1. Init => DeliverInv
  <2> SUFFICES ASSUME Init
               PROVE  DeliverInv
    OBVIOUS
  <2>1. OrderInv
    BY InitOrder
  <2>2. agenda \in Seq(FitTasks) /\ Asked = {}
    BY EmptySeq DEF Init, Asked
  <2> QED
    BY <2>1, <2>2 DEF DeliverInv, Owed
<1>2. DeliverInv /\ [Next]_vars => DeliverInv'
  <2> SUFFICES ASSUME DeliverInv, [Next]_vars
               PROVE  DeliverInv'
    OBVIOUS
  <2>1. CASE UNCHANGED vars
    <3>1. OrderInv'
      BY <2>1, StutterOrder DEF DeliverInv
    <3>2. Asked' = Asked /\ (GVNReady' <=> GVNReady) /\ \A r : Valid(r)' <=> Valid(r)
      BY <2>1 DEF vars, Asked, GVNReady, Valid
    <3>3. FitTasks' = FitTasks
      BY <2>1, <3>2 DEF vars, FitTasks, Fit
    <3>4. Owed'
      BY <2>1, <3>2 DEF vars, DeliverInv, Owed, Settled
    <3> QED
      BY <2>1, <3>1, <3>3, <3>4 DEF vars, DeliverInv
  <2>2. CASE Next
    BY <2>2, RecomputeDelivers, RequestDelivered, EditDelivered DEF Next
  <2> QED
    BY <2>1, <2>2
<1>3. DeliverInv => RequestDelivers
  <2> SUFFICES ASSUME DeliverInv, agenda = <<>>, failed = "no", nbb = "few",
                      NEW i \in DOMAIN asked
               PROVE  \/ asked[i] \in {"PRSSA_MGR", "MDSSA_MGR", "CLASSIC_DU_CHAIN"}
                      \/ asked[i] = "GVN" /\ ~GVNReady
                      \/ Valid(asked[i])
    BY DEF RequestDelivers
  <2>1. DOMAIN agenda = {} /\ asked[i] \in Asked
    BY DEF Asked
  <2>2. Settled(asked[i])
    BY <2>1 DEF DeliverInv, Owed
  <2> QED
    BY <2>2 DEF Settled
<1> QED
  BY <1>1, <1>2, <1>3, PTL DEF Spec
-----------------------------------------------------------------------------
(* Why no assertion fails when the passes of a region ask.                 *)

\* The data a task carries never leads it into an assertion: the CFG is there,
\* DU information is only maintained where MD references are, the DU chain and
\* reach-definitions that PRSSA makes superfluous are not asked for.
Safe(t) ==
    /\ "CFG" \in bits \/ (t.op = "check" /\ t.p = "CFG")
    /\ t.p # "CLASSIC_DU_CHAIN"
    /\ t.op \in {"check", "du", "solve"} =>
          /\ t.opts \cap (Solved \cup {"MD_REF"}) # {}
                => "MD_REF" \in t.opts /\ "MD_REF" \in bits
          /\ "CLASSIC_DU_CHAIN" \notin t.opts
          /\ "REACH_DEF" \in t.opts => ~ByPRSSA
    /\ t.op = "solve" => "MD_REF" \in bits
    /\ t.op \in {"check", "finish"} /\ t.p = "MDSSA_MGR" => "MD_REF" \in bits
SafeTasks == {t \in Tasks : Safe(t)}

\* A valid CFG is a valid object, and MD references have a manager.
Managed ==
    /\ "CFG" \in bits => "CFG" \in registered \cap okobj
    /\ "MD_REF" \in bits => "DU_MGR" \in registered

SafeInv == OrderInv /\ agenda \in Seq(SafeTasks) /\ Managed /\ failed = "no"
\* What every step of a recomputation keeps.
Kept ==
    /\ bits \cap {"CFG", "MD_REF"} \subseteq bits'
    /\ Managed' /\ failed' = "no"

LEMMA SafeHead ==
    ASSUME SafeInv, agenda # <<>>
    PROVE  /\ Head(agenda) \in Tasks /\ Safe(Head(agenda)) /\ agenda \in Seq(Tasks)
           /\ Managed /\ failed = "no" /\ OrderInv /\ TypeOK
<1>1. Head(agenda) \in SafeTasks
  BY DEF SafeInv
<1> QED
  BY <1>1 DEF SafeInv, SafeTasks, OrderInv, TypeOK

LEMMA SafeStep ==
    ASSUME SafeInv, OrderInv', agenda # <<>>, Kept,
           NEW s \in Seq(SafeTasks'), Replace(s)
    PROVE  SafeInv'
<1>1. SafeTasks \subseteq SafeTasks'
  BY DEF SafeTasks, Safe, Kept
<1>2. Tail(agenda) \in Seq(SafeTasks)
  BY DEF SafeInv
<1>3. Tail(agenda) \in Seq(SafeTasks')
  BY <1>1, <1>2
<1>4. agenda' \in Seq(SafeTasks')
  BY <1>3, ConcatProperties DEF Replace
<1> QED
  BY <1>4 DEF SafeInv, Kept

LEMMA SafeDone ==
    ASSUME SafeInv, OrderInv', agenda # <<>>, Kept, Return
    PROVE  SafeInv'
<1>1. Tail(agenda) \in Seq(Tasks) /\ <<>> \in Seq(SafeTasks')
  BY SafeHead, EmptySeq
<1>2. Replace(<<>>)
  BY <1>1, ConcatEmptySeq DEF Replace, Return
<1> QED
  BY <1>1, <1>2, SafeStep

LEMMA KeptSkip ==
    ASSUME Managed, failed = "no", Quiet, UNCHANGED <<bits, okobj>>,
           registered \subseteq registered'
    PROVE  Kept
  BY DEF Kept, Managed, Quiet

LEMMA KeptValid ==
    ASSUME Managed, failed = "no", Quiet, NEW S, "MD_REF" \notin S, NEW reg,
           registered \subseteq reg, "CFG" \in S => "CFG" \in reg, setValid(S, reg)
    PROVE  Kept
  BY DEF Kept, Managed, Quiet, setValid

LEMMA SafeSkip ==
    ASSUME SafeInv, OrderInv', agenda # <<>>, Skip
    PROVE  SafeInv'
  BY SafeHead, KeptSkip, SafeDone DEF Skip

\* Results of the CFG and value numbers can always be asked for.
LEMMA SafeChecks ==
    ASSUME NEW list \in Seq(Passes), "CFG" \in bits',
           \A i \in 1..Len(list) : list[i] \in Calm
    PROVE  Checks(list) \in Seq(SafeTasks')
<1>1. OptsOf(list) \subseteq Calm
  BY LenProperties DEF OptsOf, Calm, CFGResults
<1>2. PICK opts : opts = OptsOf(list) /\ opts \subseteq Calm
  BY <1>1
<1>3. Calm \cap (Solved \cup {"MD_REF", "CLASSIC_DU_CHAIN", "MDSSA_MGR"}) = {}
  BY DEF Calm, CFGResults, Solved
<1>4. ASSUME NEW k \in 1..Len(list)
      PROVE  Checks(list)[k] \in SafeTasks'
  <2>1. Checks(list)[k] = Task("check", list[k], opts) /\ Checks(list)[k] \in Tasks
    BY <1>2, ChecksAt
  <2>2. PICK t \in Tasks : t = Checks(list)[k]
    BY <2>1
  <2>3. t.op = "check" /\ t.p = list[k] /\ t.opts = opts
    BY <2>1, <2>2, TaskFields
  <2>4. "REACH_DEF" \in Solved
    BY DEF Solved
  <2>5. Safe(t)'
    BY <1>2, <1>3, <2>3, <2>4 DEF Safe
  <2> QED
    BY <2>2, <2>5 DEF SafeTasks
<1>5. /\ DOMAIN Checks(list) = 1..Len(list) /\ Len(list) \in Nat
      /\ Checks(list) = [i \in 1..Len(list) |-> Checks(list)[i]]
  BY DEF Checks
<1>6. Checks(list) \in [1..Len(list) -> SafeTasks']
  BY <1>4, <1>5
<1> QED
  BY <1>5, <1>6, ToSeq

LEMMA SafeOne ==
    ASSUME NEW x \in Passes, x \in Calm, "CFG" \in bits'
    PROVE  Checks(<<x>>) \in Seq(SafeTasks')
<1> DEFINE list == <<x>>
<1>1. list \in Seq(Passes) /\ Len(list) = 1 /\ list[1] = x
  OBVIOUS
<1> HIDE DEF list
<1>2. \A i \in 1..Len(list) : list[i] \in Calm
  BY <1>1
<1>3. Checks(list) \in Seq(SafeTasks')
  BY <1>1, <1>2, SafeChecks
<1> QED
  BY <1>3 DEF list

LEMMA SafeThen ==
    ASSUME NEW s \in Seq(SafeTasks'), NEW t \in Tasks, Safe(t)'
    PROVE  s \o <<t>> \in Seq(SafeTasks')
<1>1. t \in SafeTasks'
  BY DEF SafeTasks
<1>2. <<t>> \in Seq(SafeTasks')
  BY <1>1
<1> QED
  BY <1>2, ConcatProperties

LEMMA SafeLater ==
    ASSUME NEW t \in Tasks, "CFG" \in bits', t.p # "CLASSIC_DU_CHAIN",
           t.op \in {"ensure", "build", "finish", "solved"},
           t.op = "finish" /\ t.p = "MDSSA_MGR" => "MD_REF" \in bits'
    PROVE  Safe(t)'
  BY DEF Safe
LEMMA CheckCFGSafe ==
    ASSUME SafeInv, OrderInv', agenda # <<>>, CheckCFG
    PROVE  SafeInv'
<1>1. CASE "CFG" \in bits
  BY <1>1, SafeSkip DEF CheckCFG
<1>2. CASE "CFG" \notin bits /\ nbb = "none"
  BY <1>2, SafeHead, KeptSkip, SafeDone DEF CheckCFG
<1>3. CASE "CFG" \notin bits /\ nbb # "none"
  BY <1>3, SafeHead, KeptValid, SafeDone DEF CheckCFG
<1> QED
  BY <1>1, <1>2, <1>3

LEMMA CheckRPOSafe ==
    ASSUME SafeInv, OrderInv', agenda # <<>>, CheckRPO
    PROVE  SafeInv'
<1>1. "CFG" \in bits
  BY SafeHead DEF CheckRPO, Top, Safe
<1>2. CASE (("RPO" \in bits) /\ rpolist) \/ nbb = "none"
  BY <1>1, <1>2, SafeSkip DEF CheckRPO
<1>3. CASE ~((("RPO" \in bits) /\ rpolist) \/ nbb = "none")
  BY <1>1, <1>3, SafeHead, KeptValid, SafeDone DEF CheckRPO
<1> QED
  BY <1>2, <1>3

LEMMA CheckSCCSafe ==
    ASSUME SafeInv, OrderInv', agenda # <<>>, CheckSCC
    PROVE  SafeInv'
<1>1. "CFG" \in bits
  BY SafeHead DEF CheckSCC, Top, Safe
<1>2. CASE isPassValid("SCC")
  BY <1>2, SafeSkip DEF CheckSCC
<1>3. CASE ~isPassValid("SCC")
  BY <1>1, <1>3, SafeHead, KeptValid, SafeDone DEF CheckSCC
<1> QED
  BY <1>2, <1>3

LEMMA CheckExprTabSafe ==
    ASSUME SafeInv, OrderInv', agenda # <<>>, CheckExprTab
    PROVE  SafeInv'
<1>2. CASE isPassValid("EXPR_TAB") \/ nbb = "none"
  BY <1>2, SafeSkip DEF CheckExprTab
<1>3. CASE ~(isPassValid("EXPR_TAB") \/ nbb = "none")
  BY <1>3, SafeHead, KeptValid, SafeDone DEF CheckExprTab
<1> QED
  BY <1>2, <1>3

LEMMA CheckDomSafe ==
    ASSUME SafeInv, OrderInv', agenda # <<>>, NEW p \in {"DOM", "PDOM"}, CheckDom(p)
    PROVE  SafeInv'
<1>1. "CFG" \in bits
  BY SafeHead DEF CheckDom, Top, Safe
<1>2. Kept /\ Replace(<<Task("ensure", "DOM", {}), Task("ensure", "PDOM", {})>>)
  BY SafeHead, KeptSkip DEF CheckDom
<1>3. "CFG" \in bits'
  BY <1>1, <1>2 DEF Kept
<1>4. Task("ensure", "DOM", {}) \in Tasks /\ Task("ensure", "PDOM", {}) \in Tasks
  BY Names, TaskType
<1>5. PICK a \in Tasks, b \in Tasks :
          a = Task("ensure", "DOM", {}) /\ b = Task("ensure", "PDOM", {})
  BY <1>4
<1>6. a.op = "ensure" /\ a.p = "DOM" /\ b.op = "ensure" /\ b.p = "PDOM"
  BY <1>5, TaskFields
<1>7. a \in SafeTasks' /\ b \in SafeTasks'
  BY <1>3, <1>6, SafeLater DEF SafeTasks
<1>8. <<a, b>> \in Seq(SafeTasks')
  BY <1>7
<1> QED
  BY <1>2, <1>5, <1>8, SafeStep

\* The head asks for x, and then its result p is computed.
LEMMA WaitSafe ==
    ASSUME SafeInv, OrderInv', agenda # <<>>, Kept, "CFG" \in bits,
           NEW x \in Passes, x \in Calm, NEW p \in Passes,
           p # "CLASSIC_DU_CHAIN", p # "MDSSA_MGR",
           Replace(Checks(<<x>>) \o <<Task("finish", p, {})>>)
    PROVE  SafeInv'
<1>1. "CFG" \in bits'
  BY DEF Kept
<1>2. Task("finish", p, {}) \in Tasks
  BY TaskType
<1>3. PICK t \in Tasks : t = Task("finish", p, {})
  BY <1>2
<1>4. t.op = "finish" /\ t.p = p
  BY <1>3, TaskFields
<1>5. Safe(t)'
  BY <1>1, <1>4, SafeLater
<1>6. Checks(<<x>>) \in Seq(SafeTasks')
  BY <1>1, SafeOne
<1>7. Checks(<<x>>) \o <<t>> \in Seq(SafeTasks')
  BY <1>5, <1>6, SafeThen
<1> QED
  BY <1>3, <1>7, SafeStep

LEMMA EnsureDomSafe ==
    ASSUME SafeInv, OrderInv', agenda # <<>>, NEW p \in {"DOM", "PDOM"}, EnsureDom(p)
    PROVE  SafeInv'
<1>1. "CFG" \in bits
  BY SafeHead DEF EnsureDom, Top, Safe
<1>2. CASE p \in bits \/ nbb = "none"
  BY <1>1, <1>2, SafeSkip DEF EnsureDom
<1>3. CASE ~(p \in bits \/ nbb = "none")
  <2>1. /\ Replace(Checks(<<"RPO">>) \o <<Task("finish", p, {})>>)
        /\ Quiet /\ UNCHANGED <<bits, registered, okobj, rpolist, stale>>
    BY <1>1, <1>3 DEF EnsureDom
  <2>2. Kept
    BY <2>1, SafeHead, KeptSkip
  <2>3. "RPO" \in Passes /\ "RPO" \in Calm /\ p \in Passes
    BY Names DEF Calm, CFGResults
  <2> QED
    BY <1>1, <2>1, <2>2, <2>3, WaitSafe
<1> QED
  BY <1>2, <1>3

LEMMA CheckLoopInfoSafe ==
    ASSUME SafeInv, OrderInv', agenda # <<>>, CheckLoopInfo
    PROVE  SafeInv'
<1>1. "CFG" \in bits
  BY SafeHead DEF CheckLoopInfo, Top, Safe
<1>2. CASE "LOOP_INFO" \in bits \/ nbb = "none"
  BY <1>1, <1>2, SafeSkip DEF CheckLoopInfo
<1>3. CASE ~("LOOP_INFO" \in bits \/ nbb = "none")
  <2>1. /\ Replace(Checks(<<"DOM">>) \o <<Task("finish", "LOOP_INFO", {})>>)
        /\ Quiet /\ UNCHANGED <<bits, registered, okobj, rpolist, stale>>
    BY <1>1, <1>3 DEF CheckLoopInfo
  <2>2. Kept
    BY <2>1, SafeHead, KeptSkip
  <2>3. "DOM" \in Passes /\ "DOM" \in Calm /\ "LOOP_INFO" \in Passes
    BY Names DEF Calm, CFGResults
  <2> QED
    BY <1>1, <2>1, <2>2, <2>3, WaitSafe
<1> QED
  BY <1>2, <1>3

LEMMA CheckCDGSafe ==
    ASSUME SafeInv, OrderInv', agenda # <<>>, CheckCDG
    PROVE  SafeInv'
<1>1. "CFG" \in bits
  BY SafeHead DEF CheckCDG, Top, Safe
<1>2. CASE "CDG" \in registered \cap okobj
  BY <1>1, <1>2, SafeSkip DEF CheckCDG
<1>3. CASE "CDG" \notin registered \cap okobj
  <2>1. /\ registered' = registered \cup {"CDG"}
        /\ Quiet /\ UNCHANGED <<bits, okobj, rpolist, stale>>
        /\ \/ Return
           \/ Replace(Checks(<<"PDOM">>) \o <<Task("finish", "CDG", {})>>)
    BY <1>1, <1>3 DEF CheckCDG
  <2>2. Kept
    BY <2>1, SafeHead, KeptSkip
  <2>3. "PDOM" \in Passes /\ "PDOM" \in Calm /\ "CDG" \in Passes
    BY Names DEF Calm, CFGResults
  <2> QED
    BY <1>1, <2>1, <2>2, <2>3, WaitSafe, SafeDone
<1> QED
  BY <1>2, <1>3

LEMMA CheckAAandDUSafe ==
    ASSUME SafeInv, OrderInv', agenda # <<>>, NEW p \in Passes, CheckAAandDU(p)
    PROVE  SafeInv'
<1> DEFINE opts == Head(agenda).opts
           task == Task("du", p, opts)
<1>0. /\ Head(agenda).op = "check" /\ Head(agenda).p = p
      /\ p \in {"AA", "MD_REF"} \cup Solved
  BY DEF CheckAAandDU, Top
<1>1. "CFG" \in bits /\ "CFG" \in okobj
  <2>1. "CFG" \in bits
    BY <1>0, SafeHead DEF Safe, Solved
  <2> QED
    BY <2>1, SafeHead DEF Managed
<1>2. opts \in SUBSET (Passes \cup Results)
  BY SafeHead, AgendaType
<1>3. task \in Tasks
  BY <1>2, TaskType
<1>4. PICK u \in Tasks : u = task
  BY <1>3
<1>5. u.op = "du" /\ u.p = p /\ u.opts = Head(agenda).opts
  BY <1>4, TaskFields
<1>6. ASSUME Kept PROVE Safe(u)'
  <2>1. /\ opts \cap (Solved \cup {"MD_REF"}) # {} => "MD_REF" \in opts /\ "MD_REF" \in bits
        /\ "CLASSIC_DU_CHAIN" \notin opts /\ ("REACH_DEF" \in opts => ~ByPRSSA)
    BY <1>0, SafeHead DEF Safe
  <2>2. p # "CLASSIC_DU_CHAIN"
    BY <1>0 DEF Solved
  <2>3. "CFG" \in bits' /\ ("MD_REF" \in bits => "MD_REF" \in bits')
    BY <1>1, <1>6 DEF Kept
  <2> QED
    BY <1>5, <2>1, <2>2, <2>3 DEF Safe
<1>7. CASE "AA" \notin opts \/ "AA" \in bits \/ nbb = "none"
  <2>1. Replace(<<u>>) /\ Kept
    BY <1>4, <1>7, SafeHead, KeptSkip DEF CheckAAandDU
  <2>2. u \in SafeTasks'
    BY <1>6, <2>1 DEF SafeTasks
  <2>3. <<u>> \in Seq(SafeTasks')
    BY <2>2
  <2> QED
    BY <2>1, <2>3, SafeStep
<1>8. CASE ~("AA" \notin opts \/ "AA" \in bits \/ nbb = "none")
  <2>1. /\ registered' = registered \cup {"AA"}
        /\ \E flow \in {<<>>, Checks(<<"RPO">>)} :
              Replace(Checks(<<"LOOP_INFO", "SCC">>) \o flow
                        \o <<Task("finish", "AA", {})>> \o <<u>>)
        /\ Quiet /\ UNCHANGED <<bits, okobj, rpolist, stale>>
    BY <1>1, <1>4, <1>8 DEF CheckAAandDU
  <2>2. Kept
    BY <2>1, SafeHead, KeptSkip
  <2>3. "CFG" \in bits'
    BY <1>1, <2>2 DEF Kept
  <2>4. PICK flow \in {<<>>, Checks(<<"RPO">>)} :
            Replace(Checks(<<"LOOP_INFO", "SCC">>) \o flow
                      \o <<Task("finish", "AA", {})>> \o <<u>>)
    BY <2>1
  <2>5. Checks(<<"LOOP_INFO", "SCC">>) \in Seq(SafeTasks')
    <3> DEFINE list == <<"LOOP_INFO", "SCC">>
    <3>1. list \in Seq(Passes) /\ Len(list) = 2 /\ list[1] = "LOOP_INFO" /\ list[2] = "SCC"
      BY Names
    <3>2. "LOOP_INFO" \in Calm /\ "SCC" \in Calm
      BY DEF Calm, CFGResults
    <3> HIDE DEF list
    <3>3. \A i \in 1..Len(list) : list[i] \in Calm
      BY <3>1, <3>2
    <3>4. Checks(list) \in Seq(SafeTasks')
      BY <2>3, <3>1, <3>3, SafeChecks
    <3> QED
      BY <3>4 DEF list
  <2>6. flow \in Seq(SafeTasks')
    <3>1. "RPO" \in Passes /\ "RPO" \in Calm
      BY Names DEF Calm, CFGResults
    <3>2. Checks(<<"RPO">>) \in Seq(SafeTasks') /\ <<>> \in Seq(SafeTasks')
      BY <2>3, <3>1, SafeOne, EmptySeq
    <3> QED
      BY <3>2
  <2>7. Task("finish", "AA", {}) \in Tasks
    BY Names, TaskType
  <2>8. PICK t \in Tasks : t = Task("finish", "AA", {})
    BY <2>7
  <2>9. t.op = "finish" /\ t.p = "AA"
    BY <2>8, TaskFields
  <2>10. Safe(t)' /\ Safe(u)'
    BY <1>6, <2>2, <2>3, <2>9, SafeLater
  <2>11. Checks(<<"LOOP_INFO", "SCC">>) \o flow \in Seq(SafeTasks')
    BY <2>5, <2>6, ConcatProperties
  <2>12. Checks(<<"LOOP_INFO", "SCC">>) \o flow \o <<t>> \in Seq(SafeTasks')
    BY <2>10, <2>11, SafeThen
  <2>13. Checks(<<"LOOP_INFO", "SCC">>) \o flow \o <<t>> \o <<u>> \in Seq(SafeTasks')
    BY <2>10, <2>12, SafeThen
  <2> QED
    BY <2>2, <2>4, <2>8, <2>13, SafeStep
<1> QED
  BY <1>7, <1>8
LEMMA RecomputeDUSafe ==
    ASSUME SafeInv, OrderInv', agenda # <<>>, RecomputeDU
    PROVE  SafeInv'
<1> DEFINE opts == Head(agenda).opts
           flags == SolveFlags(opts)
           task == Task("solve", Head(agenda).p, flags \cup (opts \cap {"MD_REF"}))
<1>0. Head(agenda).op = "du"
  BY DEF RecomputeDU
<1>1. /\ "CFG" \in bits /\ Head(agenda).p # "CLASSIC_DU_CHAIN"
      /\ opts \cap (Solved \cup {"MD_REF"}) # {} => "MD_REF" \in opts /\ "MD_REF" \in bits
      /\ "CLASSIC_DU_CHAIN" \notin opts /\ ("REACH_DEF" \in opts => ~ByPRSSA)
  BY <1>0, SafeHead DEF Safe
<1>2. ~("MD_REF" \in opts /\ "MD_REF" \notin bits)
  BY <1>1
<1>3. flags \subseteq opts \cap Solved
  BY <1>1 DEF SolveFlags
<1>4. CASE flags = {} \/ nbb = "none"
  <2>1. Skip
    BY <1>2, <1>4 DEF RecomputeDU
  <2> QED
    BY <2>1, SafeSkip
<1>5. CASE ~(flags = {} \/ nbb = "none")
  <2>1. "MD_REF" \in opts /\ "MD_REF" \in bits
    BY <1>1, <1>3, <1>5
  <2>2. CanHaveDUMgr
    BY <2>1, SafeHead DEF Managed, CanHaveDUMgr
  <2>3. ~(ByPRSSA /\ "MD_REF" \in opts /\ "REACH_DEF" \in flags)
    BY <1>1, <1>3
  <2>4. /\ registered' = registered \cup {"DU_MGR"} /\ Quiet
        /\ UNCHANGED <<bits, okobj, rpolist, stale>>
        /\ Return \/ Replace(<<task>>)
    BY <1>1, <1>2, <1>5, <2>1, <2>2, <2>3 DEF RecomputeDU
  <2>5. Kept
    BY <2>4, SafeHead, KeptSkip
  <2>6. task \in Tasks
    <3>1. Head(agenda).opts \in SUBSET (Passes \cup Results) /\ Head(agenda).p \in Passes
      BY SafeHead, AgendaType
    <3>2. flags \cup (opts \cap {"MD_REF"}) \in SUBSET (Passes \cup Results)
      BY <1>3, <3>1
    <3> QED
      BY <3>1, <3>2, TaskType
  <2>7. PICK t \in Tasks : t = task
    BY <2>6
  <2>8. /\ t.op = "solve" /\ t.p = Head(agenda).p
        /\ t.opts = flags \cup (opts \cap {"MD_REF"})
    BY <2>7, TaskFields
  <2>9. /\ "MD_REF" \in t.opts /\ "CLASSIC_DU_CHAIN" \notin t.opts
        /\ "REACH_DEF" \in t.opts => ~ByPRSSA
    BY <1>1, <1>3, <2>1, <2>8
  <2>10. "CFG" \in bits' /\ "MD_REF" \in bits'
    BY <1>1, <2>1, <2>5 DEF Kept
  <2>11. Safe(t)'
    BY <1>1, <2>8, <2>9, <2>10 DEF Safe
  <2>12. <<t>> \in Seq(SafeTasks')
    <3>1. t \in SafeTasks'
      BY <2>11 DEF SafeTasks
    <3> QED
      BY <3>1
  <2> QED
    BY <2>4, <2>5, <2>7, <2>12, SafeDone, SafeStep
<1> QED
  BY <1>4, <1>5

LEMMA StartSolveSafe ==
    ASSUME SafeInv, OrderInv', agenda # <<>>, StartSolve
    PROVE  SafeInv'
<1> DEFINE opts == Head(agenda).opts
           task == Task("solved", Head(agenda).p, opts \cap Solved)
<1>0. Head(agenda).op = "solve"
  BY DEF StartSolve
<1>1. /\ "CFG" \in bits /\ "MD_REF" \in bits /\ Head(agenda).p # "CLASSIC_DU_CHAIN"
      /\ opts \cap (Solved \cup {"MD_REF"}) # {} => "MD_REF" \in opts
  BY <1>0, SafeHead DEF Safe
<1>2. ~("LIVE_EXPR" \in opts /\ "MD_REF" \notin opts)
  BY <1>1 DEF Solved
<1>3. /\ Replace(Checks(<<"RPO">>) \o <<task>>)
      /\ Quiet /\ UNCHANGED <<bits, registered, okobj, rpolist, stale>>
  BY <1>1, <1>2 DEF StartSolve
<1>4. Kept
  BY <1>3, SafeHead, KeptSkip
<1>5. "CFG" \in bits'
  BY <1>1, <1>4 DEF Kept
<1>6. task \in Tasks
  BY SafeHead, AgendaType DEF Task, Tasks
<1>7. PICK t \in Tasks : t = task
  BY <1>6
<1>8. t.op = "solved" /\ t.p # "CLASSIC_DU_CHAIN"
  BY <1>1, <1>7, TaskFields
<1>9. Safe(t)'
  BY <1>5, <1>8, SafeLater
<1>10. Checks(<<"RPO">>) \in Seq(SafeTasks')
  <2>1. "RPO" \in Passes /\ "RPO" \in Calm
    BY Names DEF Calm, CFGResults
  <2> QED
    BY <1>5, <2>1, SafeOne
<1>11. Checks(<<"RPO">>) \o <<t>> \in Seq(SafeTasks')
  BY <1>9, <1>10, SafeThen
<1> QED
  BY <1>3, <1>4, <1>7, <1>11, SafeStep

LEMMA FinishSolveSafe ==
    ASSUME SafeInv, OrderInv', agenda # <<>>, FinishSolve
    PROVE  SafeInv'
<1>1. Head(agenda).opts \in SUBSET Solved
  BY SafeHead DEF FinishSolve, Tasks
<1>2. /\ "CFG" \notin Head(agenda).opts /\ "MD_REF" \notin Head(agenda).opts
      /\ bits' = bits \cup Head(agenda).opts
      /\ Return /\ Quiet /\ UNCHANGED <<registered, okobj>>
  BY <1>1 DEF FinishSolve, Solved
<1>3. Kept
  BY <1>2, SafeHead DEF Kept, Managed, Quiet
<1> QED
  BY <1>2, <1>3, SafeDone

LEMMA CheckPassSafe ==
    ASSUME SafeInv, OrderInv', agenda # <<>>, NEW p \in Passes, CheckPass(p)
    PROVE  SafeInv'
<1> DEFINE task == Task(WorkOf(p), p, {})
<1>0. /\ Head(agenda).op = "check" /\ Head(agenda).p = p
      /\ p \in {"GVN", "PRSSA_MGR", "MDSSA_MGR"}
  BY DEF CheckPass, Top
<1>1. "CFG" \in bits /\ (p = "MDSSA_MGR" => "MD_REF" \in bits)
  BY <1>0, SafeHead DEF Safe
<1>2. CASE p \in registered \cap okobj
  BY <1>2, SafeSkip DEF CheckPass
<1>3. CASE p \notin registered \cap okobj
  <2>1. /\ registered' = registered \cup {p}
        /\ okobj' = IF p = "PRSSA_MGR" THEN okobj \ {"GVN"} ELSE okobj
        /\ Return \/ Replace(Checks(PrereqsOf(p)) \o <<task>>)
        /\ Quiet /\ UNCHANGED <<bits, rpolist>>
    BY <1>3 DEF CheckPass
  <2>2. Kept
    BY <2>1, SafeHead DEF Kept, Managed, Quiet
  <2>3. "CFG" \in bits' /\ (p = "MDSSA_MGR" => "MD_REF" \in bits')
    BY <1>1, <2>1
  <2>4. task \in Tasks
    BY WorkType
  <2>5. PICK t \in Tasks : t = task
    BY <2>4
  <2>6. t.op \in {"build", "finish"} /\ t.p = p
    BY <2>5, TaskFields DEF WorkOf
  <2>7. Safe(t)'
    BY <1>0, <2>3, <2>6, SafeLater
  <2>8. Checks(PrereqsOf(p)) \in Seq(SafeTasks')
    <3>1. <<"RPO", "DOM">> \in Seq({"RPO", "DOM"}) /\ <<"DOM">> \in Seq({"RPO", "DOM"})
      OBVIOUS
    <3>2. PrereqsOf(p) \in Seq({"RPO", "DOM"})
      BY <3>1 DEF PrereqsOf
    <3>3. {"RPO", "DOM"} \subseteq Passes /\ {"RPO", "DOM"} \subseteq Calm
      BY Names DEF Calm, CFGResults
    <3>4. PrereqsOf(p) \in Seq(Passes)
            /\ \A i \in 1..Len(PrereqsOf(p)) : PrereqsOf(p)[i] \in Calm
      BY <3>2, <3>3
    <3> QED
      BY <2>3, <3>4, SafeChecks
  <2>9. Checks(PrereqsOf(p)) \o <<t>> \in Seq(SafeTasks')
    BY <2>7, <2>8, SafeThen
  <2> QED
    BY <2>1, <2>2, <2>5, <2>9, SafeDone, SafeStep
<1> QED
  BY <1>2, <1>3

\* The end of a computation finds what it asserts.
LEMMA HeadReady ==
    ASSUME SafeInv, agenda # <<>>
    PROVE  \A q \in Needs(Head(agenda)) : Valid(q)
<1>1. agenda \in Seq(Tasks) /\ 1 \in DOMAIN agenda /\ agenda[1] = Head(agenda)
      /\ 1..(1 - 1) = {}
  BY SafeHead, LenProperties, EmptySeq
<1> QED
  BY <1>1, SafeHead DEF OrderInv, Supplied, Ready

LEMMA FinishSafe ==
    ASSUME SafeInv, OrderInv', agenda # <<>>, NEW p \in Passes, Finish(p)
    PROVE  SafeInv'
<1>0. /\ Head(agenda).op = "finish" /\ Head(agenda).p = p
      /\ p \in {"DOM", "PDOM", "LOOP_INFO", "CDG", "AA", "GVN"}
  BY DEF Finish, Top
<1>1. p = "AA" => Valid("LOOP_INFO") /\ Valid("SCC")
  BY <1>0, HeadReady, InputsAre DEF Needs
<1>2. setValid({p}, registered) /\ Return /\ Quiet
  BY <1>1 DEF Finish
<1>3. Kept
  BY <1>0, <1>2, SafeHead, KeptValid
<1> QED
  BY <1>2, <1>3, SafeDone

LEMMA BuildPRSSASafe ==
    ASSUME SafeInv, OrderInv', agenda # <<>>, BuildPRSSA
    PROVE  SafeInv'
<1>1. "CFG" \in bits
  BY SafeHead DEF BuildPRSSA, Top, Safe
<1>2. Kept
  BY SafeHead, KeptSkip DEF BuildPRSSA
<1>3. /\ "RPO" \in Passes /\ "RPO" \in Calm
      /\ "PRSSA_MGR" \in Passes
  BY Names DEF Calm, CFGResults
<1> QED
  BY <1>1, <1>2, <1>3, WaitSafe DEF BuildPRSSA

LEMMA FinishPRSSASafe ==
    ASSUME SafeInv, OrderInv', agenda # <<>>, FinishPRSSA
    PROVE  SafeInv'
<1>1. Kept /\ Return
  BY SafeHead DEF FinishPRSSA, Kept, Managed, Quiet
<1> QED
  BY <1>1, SafeDone

LEMMA FinishMDSSASafe ==
    ASSUME SafeInv, OrderInv', agenda # <<>>, FinishMDSSA
    PROVE  SafeInv'
<1>0. Head(agenda).op = "finish" /\ Head(agenda).p = "MDSSA_MGR"
  BY DEF FinishMDSSA, Top
<1>1. {"MD_REF", "DOM"} \subseteq bits
  <2>1. "MD_REF" \in bits
    BY <1>0, SafeHead DEF Safe
  <2>2. Valid("DOM")
    BY <1>0, HeadReady DEF Needs
  <2> QED
    BY <2>1, <2>2 DEF Valid, BitResults
<1>2. Head(agenda).opts \subseteq {"GVN", "NONPRDU"}
  <2>1. 1 \in DOMAIN agenda /\ agenda[1] = Head(agenda)
    BY SafeHead, LenProperties, EmptySeq
  <2>2. DropsLittle(agenda[1])
    BY <2>1, SafeHead DEF OrderInv
  <2> QED
    BY <1>0, <2>1, <2>2 DEF DropsLittle
<1>3. PICK built \in {{}, {"MDSSA_MGR"}} :
         /\ bits' = bits \ Head(agenda).opts
         /\ okobj' = (okobj \cup built) \ Head(agenda).opts
  BY <1>1 DEF FinishMDSSA
<1>4. Return /\ Quiet /\ UNCHANGED registered
  BY <1>1 DEF FinishMDSSA
<1>5. /\ bits \cap {"CFG", "MD_REF"} \subseteq bits' /\ bits' \subseteq bits
      /\ okobj \cap {"CFG"} \subseteq okobj'
  BY <1>2, <1>3
<1>6. Kept
  BY <1>4, <1>5, SafeHead DEF Kept, Managed, Quiet
<1> QED
  BY <1>4, <1>6, SafeDone

LEMMA RecomputeSafe ==
    ASSUME ~DensePRSSA, SafeInv, Recompute
    PROVE  SafeInv'
<1>1. OrderInv'
  BY RecomputeOrder DEF SafeInv
<1>2. agenda # <<>>
  BY DEF Recompute, CheckCFG, CheckRPO, CheckLoopInfo, CheckCDG,
         CheckSCC, CheckExprTab, RecomputeDU, StartSolve, CheckDUChain,
         FinishDUChain, FinishSolve, CheckDom, EnsureDom, CheckAAandDU,
         CheckPass, Finish, BuildPRSSA, GiveUpPRSSA, FinishPRSSA, FinishMDSSA, Top
<1>3. ~CheckDUChain /\ ~FinishDUChain /\ ~GiveUpPRSSA
  BY <1>2, SafeHead DEF CheckDUChain, FinishDUChain, GiveUpPRSSA, Top, Safe
<1> QED
  BY <1>1, <1>2, <1>3, CheckCFGSafe, CheckRPOSafe, CheckDomSafe, EnsureDomSafe,
     CheckLoopInfoSafe, CheckCDGSafe, CheckSCCSafe, CheckExprTabSafe,
     CheckAAandDUSafe, RecomputeDUSafe, StartSolveSafe, FinishSolveSafe,
     CheckPassSafe, FinishSafe, BuildPRSSASafe, FinishPRSSASafe,
     FinishMDSSASafe DEF Recompute

\* A list from outside.
LEMMA SafeStart ==
    ASSUME NEW list \in Seq(Passes), agenda' = Checks(list),
           "CFG" \in bits' \/ \A i \in 1..Len(list) : list[i] = "CFG",
           OptsOf(list) \cap (Solved \cup {"MD_REF"}) # {}
               => "MD_REF" \in OptsOf(list) /\ "MD_REF" \in bits',
           "CLASSIC_DU_CHAIN" \notin OptsOf(list),
           "REACH_DEF" \in OptsOf(list) => ~ByPRSSA,
           "MDSSA_MGR" \in OptsOf(list) => "MD_REF" \in bits'
    PROVE  agenda' \in Seq(SafeTasks')
<1>1. PICK opts : opts = OptsOf(list)
  OBVIOUS
<1>2. \A i \in 1..Len(list) : list[i] \in opts
  BY <1>1, LenProperties DEF OptsOf
<1>3. ASSUME NEW k \in 1..Len(list)
      PROVE  Checks(list)[k] \in SafeTasks'
  <2>1. Checks(list)[k] = Task("check", list[k], opts) /\ Checks(list)[k] \in Tasks
    BY <1>1, ChecksAt
  <2>2. PICK t \in Tasks : t = Checks(list)[k]
    BY <2>1
  <2>3. t.op = "check" /\ t.p = list[k] /\ t.opts = opts /\ t.p \in opts
    BY <1>2, <2>1, <2>2, TaskFields
  <2>4. "CFG" \in bits' \/ t.p = "CFG"
    BY <2>3
  <2>5. Safe(t)'
    BY <1>1, <2>3, <2>4 DEF Safe
  <2> QED
    BY <2>2, <2>5 DEF SafeTasks
<1>4. /\ DOMAIN Checks(list) = 1..Len(list) /\ Len(list) \in Nat
      /\ Checks(list) = [i \in 1..Len(list) |-> Checks(list)[i]]
  BY DEF Checks
<1>5. Checks(list) \in [1..Len(list) -> SafeTasks']
  BY <1>3, <1>4
<1> QED
  BY <1>4, <1>5, ToSeq

LEMMA RequestSafe ==
    ASSUME OwnRequests, SafeInv, Request \/ IPARequest
    PROVE  SafeInv'
<1>1. Request
  BY DEF IPARequest, OwnRequests
<1>2. PICK list \in Requests : CallerReady(list) /\ agenda' = Checks(list)
  BY <1>1 DEF Request
<1>3. list \in Seq(Passes)
  BY OptCtxAssumption DEF OptCtxAssumption
<1>4. UNCHANGED <<bits, registered, okobj, failed>>
  BY <1>1 DEF Request
<1> DEFINE S == {list[i] : i \in DOMAIN list}
<1>5. /\ list # <<>> /\ list[1] = "CFG" => Len(list) = 1
      /\ "CLASSIC_DU_CHAIN" \notin S
      /\ S \cap (Solved \cup {"MDSSA_MGR"}) # {} => "MD_REF" \in S
      /\ "REACH_DEF" \in S => ~ByPRSSA
  BY <1>2 DEF OwnRequests
<1>6. S \subseteq OptsOf(list) /\ OptsOf(list) \subseteq S \cup {"DOM", "PDOM"}
  BY DEF OptsOf
<1>7. DOMAIN list = 1..Len(list)
  BY <1>3, LenProperties
<1> HIDE DEF S
<1>8. /\ "CLASSIC_DU_CHAIN" \notin OptsOf(list)
      /\ "REACH_DEF" \in OptsOf(list) => ~ByPRSSA
      /\ OptsOf(list) \cap (Solved \cup {"MD_REF", "MDSSA_MGR"}) # {}
            => "MD_REF" \in OptsOf(list)
  BY <1>5, <1>6 DEF Solved
<1>9. CASE list # <<>> /\ list[1] = "CFG"
  <2>1. \A i \in 1..Len(list) : list[i] = "CFG"
    <3>1. Len(list) = 1 /\ list[1] = "CFG"
      BY <1>5, <1>9
    <3>2. \A i \in 1..1 : i = 1
      OBVIOUS
    <3> QED
      BY <3>1, <3>2
  <2>2. OptsOf(list) \subseteq {"CFG", "DOM", "PDOM"}
    BY <1>6, <1>7, <2>1 DEF S
  <2>3. agenda' \in Seq(SafeTasks')
    BY <1>2, <1>3, <1>8, <2>1, <2>2, SafeStart DEF Solved
  <2> QED
    BY <1>4, <2>3, RequestOrder DEF SafeInv, Managed
<1>10. CASE ~(list # <<>> /\ list[1] = "CFG")
  <2>1. "CFG" \in bits /\ ("MD_REF" \in OptsOf(list) => "MD_REF" \in bits)
    BY <1>2, <1>10 DEF CallerReady
  <2>2. agenda' \in Seq(SafeTasks')
    BY <1>2, <1>3, <1>4, <1>8, <2>1, SafeStart
  <2> QED
    BY <1>4, <2>2, RequestOrder DEF SafeInv, Managed
<1> QED
  BY <1>9, <1>10

LEMMA EditSafe ==
    ASSUME OwnRequests, SafeInv, Edit
    PROVE  SafeInv'
<1>1. OrderInv' /\ Managed /\ failed = "no"
  BY EditOrder DEF SafeInv
<1>2. ~IPADestroyed
  BY DEF OwnRequests, IPADestroyed, Edited
<1>3. failed' = "no"
  BY <1>1 DEF Edit, CFGChanged, CFGChangedExcept, GlobalRefined,
     RedirectTrampoline, LiveChanged, Simplified, MDReferenced, Propagated,
     Hoisted, RegionDone, IPADestroyed, DoMDSSA, MDSSALost, Edited
<1>4. Managed'
  <2>1. CASE MDReferenced
    BY <1>1, <2>1 DEF MDReferenced, Managed
  <2>2. CASE RegionDone
    BY <2>2 DEF RegionDone, Managed
  <2>3. CASE DoMDSSA
    BY <1>1, <2>3 DEF DoMDSSA, Managed
  <2>4. CASE Edit /\ ~MDReferenced /\ ~RegionDone /\ ~DoMDSSA
    <3>1. bits' \subseteq bits /\ registered' = registered
      BY <1>2, <2>4 DEF Edit, CFGChanged, CFGChangedExcept, GlobalRefined,
         RedirectTrampoline, LiveChanged, Simplified, Propagated, Hoisted,
         MDSSALost, setInvalid
    <3>2. "CFG" \in okobj => "CFG" \in okobj'
      <4>1. CASE RedirectTrampoline
        BY <4>1 DEF RedirectTrampoline, setInvalid, CFGResults
      <4>2. CASE CFGChanged \/ CFGChangedExcept \/ GlobalRefined
        BY <4>2 DEF CFGChanged, CFGChangedExcept, GlobalRefined, setInvalid,
           CFGResults, InvalidatedExcept
      <4>3. CASE Simplified
        BY <4>3 DEF Simplified, CFGResults
      <4>4. CASE Hoisted
        BY <4>4 DEF Hoisted, Solved
      <4>5. CASE LiveChanged \/ Propagated \/ MDSSALost
        BY <4>5 DEF LiveChanged, Propagated, MDSSALost, setInvalid, Solved
      <4> QED
        BY <1>2, <2>4, <4>1, <4>2, <4>3, <4>4, <4>5 DEF Edit
    <3> QED
      BY <1>1, <3>1, <3>2 DEF Managed
  <2> QED
    BY <2>1, <2>2, <2>3, <2>4
<1>5. CASE MDSSALost
  <2> DEFINE list == <<"MDSSA_MGR", "DOM", "LOOP_INFO", "CDG">>
  <2>1. list \in Seq(Passes) /\ agenda' = Checks(list)
    BY <1>5, Names DEF MDSSALost
  <2>2. "CFG" \in bits' /\ "MD_REF" \in bits'
    BY <1>5 DEF MDSSALost, setInvalid, BitsOf
  <2>3. OptsOf(list) \subseteq {"MDSSA_MGR", "DOM", "PDOM", "LOOP_INFO", "CDG"}
    BY DEF OptsOf
  <2> HIDE DEF list
  <2>4. agenda' \in Seq(SafeTasks')
    BY <2>1, <2>2, <2>3, SafeStart DEF Solved
  <2> QED
    BY <1>1, <1>3, <1>4, <2>4 DEF SafeInv
<1>6. CASE ~MDSSALost
  <2>1. agenda' = <<>> \/ DoMDSSA
    BY <1>6 DEF Edit, CFGChanged, CFGChangedExcept, GlobalRefined,
       RedirectTrampoline, LiveChanged, Simplified, MDReferenced, Propagated,
       Hoisted, RegionDone, IPADestroyed, Edited, Idle
  <2>2. agenda' \in Seq(SafeTasks')
    <3>1. CASE agenda' = <<>>
      BY <3>1, EmptySeq
    <3>2. CASE agenda' # <<>>
      <4>1. /\ agenda' = Checks(<<"DOM">>)
                           \o <<Task("finish", "MDSSA_MGR", {"GVN", "NONPRDU"})>>
            /\ "CFG" \in bits' /\ "MD_REF" \in bits'
        BY <2>1, <3>2 DEF DoMDSSA, Idle
      <4>2. Task("finish", "MDSSA_MGR", {"GVN", "NONPRDU"}) \in Tasks
        BY Names, TaskType
      <4>3. PICK t \in Tasks : t = Task("finish", "MDSSA_MGR", {"GVN", "NONPRDU"})
        BY <4>2
      <4>4. t.op = "finish" /\ t.p = "MDSSA_MGR"
        BY <4>3, TaskFields
      <4>5. Safe(t)'
        BY <4>1, <4>4, SafeLater
      <4>6. "DOM" \in Passes /\ "DOM" \in Calm
        BY Names DEF Calm, CFGResults
      <4>7. Checks(<<"DOM">>) \in Seq(SafeTasks')
        BY <4>1, <4>6, SafeOne
      <4> QED
        BY <4>1, <4>3, <4>5, <4>7, SafeThen
    <3> QED
      BY <3>1, <3>2
  <2> QED
    BY <1>1, <1>3, <1>4, <2>2 DEF SafeInv
<1> QED
  BY <1>5, <1>6

\* No request of a region's own passes runs into an assertion, however the
\* program was edited and results were invalidated before it: the assertions of
\* PassMgr::checkValidAndRecomputePass, DUMgr::perform, SolveSetMgr::perform,
\* AliasAnalysis::perform and MDSSAMgr::construction all hold.  What is left
\* out are the graphs whose dominance frontier is beyond the threshold of
\* DfMgr: there PRSSAMgr::constructByDomTree goes on without versions.
THEOREM NoRequestAsserts ==
    ASSUME OwnRequests, ~DensePRSSA
    PROVE  Spec => []NoAssertFails
<1>1. Init => SafeInv
  <2> SUFFICES ASSUME Init
               PROVE  SafeInv
    OBVIOUS
  <2>1. OrderInv
    BY InitOrder
  <2> QED
    BY <2>1, EmptySeq DEF SafeInv, Init, Managed
<1>2. SafeInv /\ [Next]_vars => SafeInv'
  <2> SUFFICES ASSUME SafeInv, [Next]_vars
               PROVE  SafeInv'
    OBVIOUS
  <2>1. CASE UNCHANGED vars
    <3>2. OrderInv'
      BY <2>1, StutterOrder DEF SafeInv
    <3>3. SafeTasks' = SafeTasks
      BY <2>1 DEF vars, SafeTasks, Safe
    <3> QED
      BY <2>1, <3>2, <3>3 DEF vars, SafeInv, Managed
  <2>2. CASE Next
    BY <2>2, RecomputeSafe, RequestSafe, EditSafe DEF Next
  <2> QED
    BY <2>1, <2>2
<1>3. SafeInv => NoAssertFails
  BY DEF SafeInv, NoAssertFails
<1> QED
  BY <1>1, <1>2, <1>3, PTL DEF Spec
=============================================================================
