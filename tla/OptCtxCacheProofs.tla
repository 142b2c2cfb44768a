-------------------------- MODULE OptCtxCacheProofs --------------------------
(***************************************************************************)
(* For every choice of request lists, exclusion lists, edits and BB counts *)
(* that avoids the exceptions of CleanUse: no valid result is stale, and   *)
(* OptCtx implements AnalysisCache.  Every step, from a state that         *)
(* satisfies CacheInv, maps to a step of the abstract cache or to a        *)
(* stutter.                                                                *)
(***************************************************************************)
EXTENDS OptCtxCache, OptCtxProofs

\* The results promised by pending tasks; the validity of each is a bit.
Core == {"RPO", "DOM", "PDOM", "MD_REF"}

LEMMA WantedIsCore == \A t : Wanted(t) \subseteq Core
  BY DEF Wanted, Core, Inputs, Results, BitResults, ObjResults, Solved

LEMMA CoreIsBit ==
    \A q \in Core : /\ UpToDate(q) <=> (q \in bits /\ q \notin stale)
                    /\ UpToDate(q)' <=> (q \in bits' /\ q \notin stale')
  BY DEF Core, UpToDate, Valid, BitResults

\* The head of the agenda has nobody left to wait for.
LEMMA HeadIsReady ==
    ASSUME PromisesKept, agenda \in Seq(Tasks), agenda # <<>>
    PROVE  \A q \in Wanted(Head(agenda)) : UpToDate(q)
<1>1. 1 \in DOMAIN agenda /\ agenda[1] = Head(agenda) /\ 1..(1 - 1) = {}
  OBVIOUS
<1> QED
  BY <1>1 DEF PromisesKept

\* Promises survive a step that forgets no core result, provides what the
\* head promised and promises what the new tasks want.
LEMMA PromiseStep ==
    ASSUME agenda \in Seq(Tasks), agenda # <<>>, PromisesKept,
           NEW s \in Seq(Tasks), agenda' = s \o Tail(agenda),
           \A q \in Core : UpToDate(q) => UpToDate(q)',
           \A q \in Core : Provides(Head(agenda), q) =>
               UpToDate(q)' \/ \E k \in 1..Len(s) : Provides(s[k], q),
           \A k \in 1..Len(s) : \A q \in Wanted(s[k]) :
               UpToDate(q)' \/ \E j \in 1..(k - 1) : Provides(s[j], q)
    PROVE  PromisesKept'
<1>0. /\ Len(s) \in Nat /\ Len(agenda) \in Nat \ {0}
      /\ DOMAIN agenda = 1..Len(agenda) /\ agenda[1] = Head(agenda)
  BY LenProperties, EmptySeq
<1> SUFFICES ASSUME NEW i \in DOMAIN agenda', NEW q \in Wanted(agenda'[i]),
                    ~UpToDate(q)'
             PROVE  \E j \in 1..(i - 1) : Provides(agenda'[j], q)
  BY DEF PromisesKept
<1>1. i \in 1..(Len(s) + Len(agenda) - 1) /\ i \in Nat
  BY <1>0, Shift
<1>2. q \in Core
  BY WantedIsCore
<1>3. CASE i <= Len(s)
  <2>1. i \in 1..Len(s) /\ agenda'[i] = s[i]
    BY <1>0, <1>1, <1>3, Shift
  <2>2. PICK j \in 1..(i - 1) : Provides(s[j], q)
    <3>1. q \in Wanted(s[i])
      BY <2>1
    <3> QED
      BY <2>1, <3>1
  <2>3. j \in 1..Len(s) /\ agenda'[j] = s[j]
    BY <1>0, <2>1, <2>2, Shift
  <2> QED
    BY <2>2, <2>3
<1>4. CASE ~(i <= Len(s))
  <2> DEFINE o == i - Len(s) + 1
  <2>1. o \in 2..Len(agenda) /\ o + Len(s) - 1 = i
    BY <1>0, <1>1, <1>4
  <2>2. agenda'[i] = agenda[o]
    BY <2>1, Shift
  <2>3. q \in Wanted(agenda[o]) /\ o \in DOMAIN agenda
    BY <1>0, <2>1, <2>2
  <2>4. PICK j \in 1..(o - 1) : Provides(agenda[j], q)
    BY <1>2, <2>3 DEF PromisesKept
  <2>5. CASE j = 1
    <3>1. PICK k \in 1..Len(s) : Provides(s[k], q)
      BY <1>0, <1>2, <2>4, <2>5
    <3>2. k \in 1..(i - 1) /\ agenda'[k] = s[k]
      BY <1>0, <1>1, <1>4, Shift
    <3> QED
      BY <3>1, <3>2
  <2>6. CASE j # 1
    <3>0. /\ j \in Nat /\ 2 <= j /\ j <= o - 1 /\ o \in Nat
          /\ o <= Len(agenda) /\ o + Len(s) - 1 = i
      BY <2>1, <2>6
    <3>1. j \in 2..Len(agenda) /\ j + Len(s) - 1 \in 1..(i - 1)
      <4> HIDE DEF o
      <4>1. \A L, n \in Nat : /\ j + L - 1 \in Nat /\ 1 <= j + L - 1
                               /\ o + L - 1 = n => j + L - 1 <= n - 1
        BY <3>0
      <4>2. j + Len(s) - 1 \in Nat /\ 1 <= j + Len(s) - 1
            /\ j + Len(s) - 1 <= i - 1
        BY <1>0, <1>1, <3>0, <4>1
      <4> QED
        BY <1>0, <1>1, <3>0, <4>2
    <3>2. agenda'[j + Len(s) - 1] = agenda[j]
      BY <3>1, Shift
    <3> QED
      BY <2>4, <3>1, <3>2
  <2> QED
    BY <2>5, <2>6
<1> QED
  BY <1>0, <1>1, <1>3, <1>4

LEMMA SSAStep ==
    ASSUME agenda \in Seq(Tasks), agenda # <<>>, SSATasks,
           NEW s \in Seq(Tasks), agenda' = s \o Tail(agenda),
           registered \subseteq registered',
           \A k \in 1..Len(s) : SSATask(s[k], registered')
    PROVE  SSATasks'
<1>0. /\ Len(s) \in Nat /\ Len(agenda) \in Nat \ {0}
      /\ DOMAIN agenda = 1..Len(agenda)
  BY LenProperties, EmptySeq
<1> SUFFICES ASSUME NEW i \in DOMAIN agenda'
             PROVE  SSATask(agenda'[i], registered')
  BY DEF SSATasks
<1>1. i \in 1..(Len(s) + Len(agenda) - 1) /\ i \in Nat
  BY <1>0, Shift
<1>2. CASE i <= Len(s)
  <2>1. i \in 1..Len(s) /\ agenda'[i] = s[i]
    BY <1>0, <1>1, <1>2, Shift
  <2> QED
    BY <2>1
<1>3. CASE ~(i <= Len(s))
  <2> DEFINE o == i - Len(s) + 1
  <2>1. o \in 2..Len(agenda) /\ o + Len(s) - 1 = i
    BY <1>0, <1>1, <1>3
  <2>2. agenda'[i] = agenda[o]
    BY <2>1, Shift
  <2>3. SSATask(agenda[o], registered)
    BY <1>0, <2>1 DEF SSATasks
  <2> QED
    BY <2>2, <2>3 DEF SSATask
<1> QED
  BY <1>0, <1>1, <1>2, <1>3

-----------------------------------------------------------------------------
(* Tasks that rely on nothing, and lists of them.                          *)

InertTasks == {t \in Tasks :
    /\ Wanted(t) = {} /\ t.op # "build"
    /\ t.op = "check" => t.p # "MDSSA_MGR"
    /\ t.op = "finish" => t.p \notin {"PRSSA_MGR", "MDSSA_MGR"}}

LEMMA InertTask ==
    ASSUME NEW op \in {"check", "ensure", "finish", "du", "solve"},
           NEW p \in Passes, NEW opts \in SUBSET (Passes \cup Results),
           op = "check" => p # "MDSSA_MGR",
           op = "finish" => p \in {"AA", "CLASSIC_DU_CHAIN"}
    PROVE  Task(op, p, opts) \in InertTasks
<1>1. Task(op, p, opts) \in Tasks
  BY TaskType
<1>2. Wanted(Task(op, p, opts)) = {}
  BY DEF Wanted, Task
<1> QED
  BY <1>1, <1>2 DEF InertTasks, Task

\* A list that does not name MDSSA asks with inert tasks.
LEMMA ChecksInert ==
    ASSUME NEW list \in Seq(Passes), \A i \in DOMAIN list : list[i] # "MDSSA_MGR"
    PROVE  Checks(list) \in Seq(InertTasks)
<1>1. ASSUME NEW i \in DOMAIN list
      PROVE  Task("check", list[i], OptsOf(list)) \in InertTasks
  <2>1. OptsOf(list) \in SUBSET (Passes \cup Results) /\ list[i] \in Passes
    BY OptsType
  <2> QED
    BY <2>1, InertTask
<1>2. DOMAIN list = 1..Len(list) /\ Len(list) \in Nat
  OBVIOUS
<1>3. Checks(list) \in [1..Len(list) -> InertTasks]
  BY <1>1, <1>2 DEF Checks
<1> QED
  BY <1>2, <1>3

\* The lists the computations ask for.
LEMMA InertLists ==
    /\ Checks(<<"RPO">>) \in Seq(InertTasks)
    /\ Checks(<<"DOM">>) \in Seq(InertTasks)
    /\ Checks(<<"PDOM">>) \in Seq(InertTasks)
    /\ Checks(<<"RPO", "DOM">>) \in Seq(InertTasks)
    /\ Checks(<<"LOOP_INFO">>) \in Seq(InertTasks)
    /\ Checks(<<"LOOP_INFO", "SCC">>) \in Seq(InertTasks)
    /\ Checks(DUChainPrereqs) \in Seq(InertTasks)
<1> DEFINE P == {"RPO", "DOM", "PDOM", "LOOP_INFO", "SCC", "MD_REF", "REACH_DEF"}
<1>1. P \subseteq Passes /\ "MDSSA_MGR" \notin P
  BY Names DEF CFGResults, Solved
<1>2. ASSUME NEW list \in Seq(P)
      PROVE  Checks(list) \in Seq(InertTasks)
  <2>1. list \in Seq(Passes) /\ \A i \in DOMAIN list : list[i] # "MDSSA_MGR"
    BY <1>1
  <2> QED
    BY <2>1, ChecksInert
<1>3. /\ <<"RPO">> \in Seq(P) /\ <<"DOM">> \in Seq(P) /\ <<"PDOM">> \in Seq(P)
      /\ <<"RPO", "DOM">> \in Seq(P) /\ <<"LOOP_INFO">> \in Seq(P)
      /\ <<"LOOP_INFO", "SCC">> \in Seq(P)
  OBVIOUS
<1>4. DUChainPrereqs \in Seq(P)
  <2>1. /\ <<>> \in Seq(P) /\ <<"RPO", "DOM", "MD_REF">> \in Seq(P)
        /\ <<"RPO", "DOM", "MD_REF", "REACH_DEF">> \in Seq(P)
    BY EmptySeq
  <2> QED
    BY <2>1, ConcatProperties DEF DUChainPrereqs
<1> QED
  BY <1>2, <1>3, <1>4

LEMMA First ==
    ASSUME NEW list \in Seq(Passes), list # <<>>
    PROVE  Checks(list)[1] = Task("check", list[1], OptsOf(list))
             /\ 1 \in 1..Len(Checks(list))
<1>1. 1 \in DOMAIN list /\ DOMAIN list = 1..Len(list) /\ Len(list) \in Nat
  OBVIOUS
<1>2. DOMAIN Checks(list) = 1..Len(list)
  BY <1>1 DEF Checks
<1>3. Len(Checks(list)) = Len(list)
  BY <1>1, <1>2, ChecksType, LenProperties
<1> QED
  BY <1>1, <1>3 DEF Checks

-----------------------------------------------------------------------------
(* One step of the recomputation.                                          *)

\* What a step may do to validity and to the history: S is brought up to
\* date, whatever else becomes stale is not valid afterwards.
Refreshes(S) ==
    /\ bits' \subseteq bits \cup S
    /\ okobj' \cap ObjResults \subseteq (okobj \cup S) \cap registered'
    /\ \A r \in stale' : \/ r \in stale /\ r \notin S
                         \/ r \notin bits' /\ r \notin okobj'
    /\ "CFG" \in bits' => nbb' # "none"

LEMMA Fresh ==
    ASSUME ValidNotStale, ObjectsRegistered, NEW S, Refreshes(S)
    PROVE  ValidNotStale' /\ ObjectsRegistered' /\ CFGHasBB'
<1>1. ObjectsRegistered' /\ CFGHasBB'
  BY DEF Refreshes, ObjectsRegistered, CFGHasBB
<1>2. ASSUME NEW r \in Results, Valid(r)', r \in stale'
      PROVE  FALSE
  <2>1. CASE r \in BitResults
    <3>1. r \in bits' /\ r \in stale /\ r \notin S
      BY <1>2, <2>1 DEF Valid, Refreshes
    <3>2. r \in bits
      BY <3>1 DEF Refreshes
    <3> QED
      BY <2>1, <3>1, <3>2 DEF ValidNotStale, Valid
  <2>2. CASE r \notin BitResults
    <3>1. r \in okobj' /\ r \in ObjResults
      BY <1>2, <2>2 DEF Valid, Results
    <3>2. r \in stale /\ r \notin S /\ r \in okobj
      BY <1>2, <3>1 DEF Refreshes
    <3>3. r \in registered
      BY <3>1, <3>2 DEF ObjectsRegistered
    <3> QED
      BY <2>2, <3>2, <3>3 DEF ValidNotStale, Valid
  <2> QED
    BY <2>1, <2>2
<1> QED
  BY <1>1, <1>2 DEF ValidNotStale

LEMMA CoreFresh ==
    ASSUME ValidNotStale'
    PROVE  \A q \in Core : q \in bits' => UpToDate(q)'
  BY CoreIsBit DEF ValidNotStale, Valid, Core, BitResults, Results

\* The head is replaced by the tasks s: the promises and the SSA tasks hold
\* again if what the head provided, and what s wants, is there or provided.
LEMMA Step ==
    ASSUME CacheInv, TypeOK', agenda # <<>>, NEW s \in Seq(Tasks),
           agenda' = s \o Tail(agenda), NEW S, Refreshes(S),
           bits \cap Core \subseteq bits', registered \subseteq registered',
           \A q \in Core : Provides(Head(agenda), q) =>
               q \in bits' \/ \E k \in 1..Len(s) : Provides(s[k], q),
           \A k \in 1..Len(s) : \A q \in Wanted(s[k]) :
               q \in bits' \/ \E j \in 1..(k - 1) : Provides(s[j], q),
           \A k \in 1..Len(s) : SSATask(s[k], registered')
    PROVE  CacheInv'
<1>1. ValidNotStale' /\ ObjectsRegistered' /\ CFGHasBB'
  BY Fresh DEF CacheInv
<1>2. \A q \in Core : q \in bits' => UpToDate(q)'
  BY <1>1, CoreFresh
<1>3. agenda \in Seq(Tasks)
  BY DEF CacheInv, TypeOK
<1>4. SSATasks'
  BY <1>3, SSAStep DEF CacheInv
<1>5. \A q \in Core : UpToDate(q) => UpToDate(q)'
  BY <1>2, CoreIsBit
<1>6. \A q \in Core : Provides(Head(agenda), q) =>
          UpToDate(q)' \/ \E k \in 1..Len(s) : Provides(s[k], q)
  BY <1>2
<1>7. \A k \in 1..Len(s) : \A q \in Wanted(s[k]) :
          UpToDate(q)' \/ \E j \in 1..(k - 1) : Provides(s[j], q)
  BY <1>2, WantedIsCore
<1>8. PromisesKept'
  BY <1>3, <1>5, <1>6, <1>7, PromiseStep DEF CacheInv
<1> QED
  BY <1>1, <1>4, <1>8 DEF CacheInv

LEMMA InertSSA ==
    ASSUME NEW t \in InertTasks, NEW reg
    PROVE  SSATask(t, reg) /\ Wanted(t) = {} /\ t \in Tasks
  BY DEF InertTasks, SSATask

\* The new tasks rely on nothing.
LEMMA StepInert ==
    ASSUME CacheInv, TypeOK', agenda # <<>>, NEW s \in Seq(InertTasks),
           agenda' = s \o Tail(agenda), NEW S, Refreshes(S),
           bits \cap Core \subseteq bits', registered \subseteq registered',
           \A q \in Core : Provides(Head(agenda), q) =>
               q \in bits' \/ \E k \in 1..Len(s) : Provides(s[k], q)
    PROVE  CacheInv'
<1>1. \A k \in 1..Len(s) : s[k] \in InertTasks
  OBVIOUS
<1>2. s \in Seq(Tasks)
  BY DEF InertTasks
<1>3. \A k \in 1..Len(s) : Wanted(s[k]) = {} /\ SSATask(s[k], registered')
  BY <1>1, InertSSA
<1> QED
  BY <1>2, <1>3, Step

\* The task is done.
LEMMA StepReturn ==
    ASSUME CacheInv, TypeOK', agenda # <<>>, Return, NEW S, Refreshes(S),
           bits \cap Core \subseteq bits', registered \subseteq registered',
           \A q \in Core : Provides(Head(agenda), q) => q \in bits'
    PROVE  CacheInv'
<1>1. <<>> \in Seq(InertTasks) /\ <<>> \o Tail(agenda) = Tail(agenda)
  <2>1. Tail(agenda) \in Seq(Tasks)
    BY DEF CacheInv, TypeOK
  <2> QED
    BY <2>1, EmptySeq, ConcatEmptySeq
<1> QED
  BY <1>1, StepInert DEF Return

\* The task waits for the requests of list, then runs t.
LEMMA StepWait ==
    ASSUME CacheInv, TypeOK', agenda # <<>>,
           NEW pre \in Seq(InertTasks), NEW t \in Tasks,
           agenda' = (pre \o <<t>>) \o Tail(agenda), NEW S, Refreshes(S),
           bits \cap Core \subseteq bits', registered \subseteq registered',
           \A q \in Core : Provides(Head(agenda), q) => q \in bits' \/ Provides(t, q),
           \A q \in Wanted(t) :
               q \in bits' \/ \E j \in 1..Len(pre) : Provides(pre[j], q),
           SSATask(t, registered')
    PROVE  CacheInv'
<1> DEFINE s == pre \o <<t>>
<1>1. pre \in Seq(Tasks) /\ Len(pre) \in Nat
  BY DEF InertTasks
<1>2. s \in Seq(Tasks)
  BY <1>1, ThenType
<1>3. /\ Len(s) = Len(pre) + 1
      /\ \A k \in 1..Len(pre) : s[k] = pre[k]
      /\ s[Len(pre) + 1] = t
  <2>1. <<t>> \in Seq(Tasks) /\ Len(<<t>>) = 1 /\ <<t>>[1] = t
    BY ThenType
  <2>2. Len(s) = Len(pre) + 1
    BY <1>1, <2>1, ConcatProperties
  <2>3. \A k \in 1..(Len(pre) + 1) :
           s[k] = IF k <= Len(pre) THEN pre[k] ELSE <<t>>[k - Len(pre)]
    BY <1>1, <2>1, ConcatProperties
  <2>4. /\ Len(pre) + 1 \in 1..(Len(pre) + 1) /\ ~(Len(pre) + 1 <= Len(pre))
        /\ (Len(pre) + 1) - Len(pre) = 1
    BY <1>1
  <2>5. s[Len(pre) + 1] = t
    BY <2>1, <2>3, <2>4
  <2>6. \A k \in 1..Len(pre) : s[k] = pre[k]
    BY <1>1, <2>3
  <2> QED
    BY <2>2, <2>5, <2>6
<1>4. ASSUME NEW k \in 1..Len(s)
      PROVE  \/ k \in 1..Len(pre) /\ s[k] \in InertTasks
             \/ k = Len(pre) + 1 /\ s[k] = t
  <2> HIDE DEF s
  <2>1. k \in 1..Len(pre) \/ k = Len(pre) + 1
    BY <1>1, <1>3
  <2>2. \A j \in 1..Len(pre) : pre[j] \in InertTasks
    OBVIOUS
  <2> QED
    BY <1>3, <2>1, <2>2
<1> HIDE DEF s
<1>5. \A k \in 1..Len(s) : SSATask(s[k], registered')
  BY <1>4, InertSSA
<1>6. ASSUME NEW k \in 1..Len(s), NEW q \in Wanted(s[k])
      PROVE  q \in bits' \/ \E j \in 1..(k - 1) : Provides(s[j], q)
  <2>1. k = Len(pre) + 1 /\ s[k] = t /\ k - 1 = Len(pre)
    BY <1>1, <1>4, <1>6, InertSSA
  <2>2. q \in bits' \/ \E j \in 1..Len(pre) : Provides(pre[j], q)
    BY <1>6, <2>1
  <2> QED
    BY <1>3, <2>1, <2>2
<1>7. \A q \in Core : Provides(Head(agenda), q) =>
          q \in bits' \/ \E k \in 1..Len(s) : Provides(s[k], q)
  <2>1. Len(pre) + 1 \in 1..Len(s) /\ s[Len(pre) + 1] = t
    BY <1>1, <1>3
  <2> QED
    BY <2>1
<1>8. agenda' = s \o Tail(agenda)
  BY DEF s
<1> QED
  BY <1>2, <1>5, <1>6, <1>7, <1>8, Step

\* A failed assertion, and a task with nothing to do.
LEMMA AssertInv ==
    ASSUME CacheInv, NEW what \in Assertions, Assert(what)
    PROVE  CacheInv'
<1>1. TypeOK' /\ DOMAIN agenda' = {}
  BY AssertType DEF Assert, CacheInv
<1>2. Refreshes({})
  BY DEF Refreshes, Assert, CacheInv, ObjectsRegistered, CFGHasBB
<1>3. ValidNotStale' /\ ObjectsRegistered' /\ CFGHasBB'
  BY <1>2, Fresh DEF CacheInv
<1> QED
  BY <1>1, <1>3 DEF CacheInv, PromisesKept, SSATasks

LEMMA SameRefreshes ==
    ASSUME CacheInv, UNCHANGED <<bits, okobj, nbb, stale>>,
           registered \subseteq registered'
    PROVE  Refreshes({})
  BY DEF Refreshes, CacheInv, ObjectsRegistered, CFGHasBB

LEMMA SkipInv ==
    ASSUME CacheInv, agenda # <<>>, Skip,
           \A q \in Core : Provides(Head(agenda), q) => q \in bits
    PROVE  CacheInv'
<1>1. TypeOK'
  BY SkipType DEF CacheInv
<1>2. Refreshes({})
  BY SameRefreshes DEF Skip, Quiet
<1> QED
  BY <1>1, <1>2, StepReturn DEF Skip

LEMMA RecomputedFresh ==
    ASSUME NEW S, Recomputed(S), \A r \in S : \A q \in Inputs[r] : UpToDate(q)
    PROVE  stale' = stale \ S
  BY DEF Recomputed

\* A task computes S from results that are up to date, and is done.
LEMMA ComputedInv ==
    ASSUME CacheInv, TypeOK', agenda # <<>>, Return, nbb' = nbb,
           NEW S \in SUBSET Results, bits' = bits \cup (S \cap BitResults),
           okobj' = okobj \cup (S \cap registered'), registered \subseteq registered',
           Recomputed(S), \A r \in S : \A q \in Inputs[r] : UpToDate(q),
           "CFG" \in S => nbb # "none",
           \A q \in Core : Provides(Head(agenda), q) => q \in bits'
    PROVE  CacheInv'
<1>1. stale' = stale \ S
  BY RecomputedFresh
<1>2. Refreshes(S)
  BY <1>1 DEF Refreshes, CacheInv, ObjectsRegistered, CFGHasBB
<1> QED
  BY <1>2, StepReturn

\* A task asks for results and waits.
LEMMA WaitInv ==
    ASSUME CacheInv, TypeOK', agenda # <<>>,
           NEW pre \in Seq(InertTasks), NEW t \in Tasks, Replace(pre \o <<t>>),
           UNCHANGED <<bits, okobj, nbb, stale>>, registered \subseteq registered',
           \A q \in Core : Provides(Head(agenda), q) => q \in bits \/ Provides(t, q),
           \A q \in Wanted(t) :
               q \in bits \/ \E j \in 1..Len(pre) : Provides(pre[j], q),
           SSATask(t, registered')
    PROVE  CacheInv'
<1>1. Refreshes({})
  BY SameRefreshes
<1> QED
  BY <1>1, StepWait DEF Replace

\* A task asks for results, or just records an object, and is done.
LEMMA AskInv ==
    ASSUME CacheInv, TypeOK', agenda # <<>>,
           NEW s \in Seq(InertTasks), Replace(s),
           UNCHANGED <<bits, okobj, nbb, stale>>, registered \subseteq registered',
           \A q \in Core : Provides(Head(agenda), q) =>
               q \in bits \/ \E k \in 1..Len(s) : Provides(s[k], q)
    PROVE  CacheInv'
<1>1. Refreshes({})
  BY SameRefreshes
<1> QED
  BY <1>1, StepInert DEF Replace

LEMMA DoneInv ==
    ASSUME CacheInv, TypeOK', agenda # <<>>, Return,
           UNCHANGED <<bits, okobj, nbb, stale>>, registered \subseteq registered',
           \A q \in Core : Provides(Head(agenda), q) => q \in bits
    PROVE  CacheInv'
<1>1. Refreshes({})
  BY SameRefreshes
<1> QED
  BY <1>1, StepReturn

\* What the first request of a computation provides.
LEMMA Provided ==
    /\ \E j \in 1..Len(Checks(<<"RPO">>)) : Provides(Checks(<<"RPO">>)[j], "RPO")
    /\ \A q \in {"DOM", "PDOM"} :
          \E j \in 1..Len(Checks(<<"DOM">>)) : Provides(Checks(<<"DOM">>)[j], q)
    /\ \A q \in {"DOM", "PDOM"} :
          \E j \in 1..Len(Checks(<<"PDOM">>)) : Provides(Checks(<<"PDOM">>)[j], q)
    /\ \A q \in {"RPO", "DOM"} :
          \E j \in 1..Len(Checks(<<"RPO", "DOM">>)) :
              Provides(Checks(<<"RPO", "DOM">>)[j], q)
<1> DEFINE P == {"RPO", "DOM", "PDOM"}
<1>1. P \subseteq Passes
  BY Names
<1>2. /\ <<"RPO">> \in Seq(Passes) /\ <<"DOM">> \in Seq(Passes)
      /\ <<"PDOM">> \in Seq(Passes) /\ <<"RPO", "DOM">> \in Seq(Passes)
  <2>1. /\ <<"RPO">> \in Seq(P) /\ <<"DOM">> \in Seq(P)
        /\ <<"PDOM">> \in Seq(P) /\ <<"RPO", "DOM">> \in Seq(P)
    OBVIOUS
  <2> QED
    BY <1>1, <2>1
<1>3. ASSUME NEW p \in P, NEW list \in Seq(Passes), list # <<>>, list[1] = p,
             NEW q, p = "RPO" => q = "RPO", p # "RPO" => q \in {"DOM", "PDOM"}
      PROVE  \E j \in 1..Len(Checks(list)) : Provides(Checks(list)[j], q)
  <2>1. Checks(list)[1] = Task("check", p, OptsOf(list)) /\ 1 \in 1..Len(Checks(list))
    BY <1>3, First
  <2>2. Provides(Task("check", p, OptsOf(list)), q)
    BY <1>3 DEF Provides, Task
  <2> QED
    BY <2>1, <2>2
<1>4. \E j \in 1..Len(Checks(<<"RPO">>)) : Provides(Checks(<<"RPO">>)[j], "RPO")
  BY <1>2, <1>3
<1>5. \A q \in {"DOM", "PDOM"} :
         \E j \in 1..Len(Checks(<<"DOM">>)) : Provides(Checks(<<"DOM">>)[j], q)
  BY <1>2, <1>3
<1>6. \A q \in {"DOM", "PDOM"} :
         \E j \in 1..Len(Checks(<<"PDOM">>)) : Provides(Checks(<<"PDOM">>)[j], q)
  BY <1>2, <1>3
<1>7. \E j \in 1..Len(Checks(<<"RPO", "DOM">>)) :
          Provides(Checks(<<"RPO", "DOM">>)[j], "RPO")
  BY <1>2, <1>3
<1>8. \E j \in 1..Len(Checks(<<"RPO", "DOM">>)) :
          Provides(Checks(<<"RPO", "DOM">>)[j], "DOM")
  <2> DEFINE list == <<"RPO", "DOM">>
  <2>1. 2 \in DOMAIN list /\ list[2] = "DOM" /\ DOMAIN list = 1..2
    OBVIOUS
  <2>2. Checks(list)[2] = Task("check", "DOM", OptsOf(list))
    BY <2>1 DEF Checks
  <2>3. DOMAIN Checks(list) = 1..2
    BY <2>1 DEF Checks
  <2>4. 2 \in 1..Len(Checks(list))
    <3> HIDE DEF list
    <3>1. Checks(list) \in Seq(Tasks)
      BY <1>2, ChecksType DEF list
    <3> QED
      BY <2>3, <3>1, LenProperties
  <2>5. Provides(Task("check", "DOM", OptsOf(list)), "DOM")
    BY DEF Provides, Task
  <2> QED
    BY <2>2, <2>4, <2>5
<1> QED
  BY <1>4, <1>5, <1>6, <1>7, <1>8

-----------------------------------------------------------------------------
(* The actions of the recomputation.                                       *)

\* What the tasks that finish a computation rely on.
LEMMA FinishTask ==
    ASSUME NEW p \in {"DOM", "PDOM", "LOOP_INFO", "CDG", "GVN"}, NEW reg
    PROVE  LET t == Task("finish", p, {})
           IN  /\ t \in Tasks
               /\ Wanted(t) = Inputs[p]
               /\ SSATask(t, reg)
<1>1. Task("finish", p, {}) \in Tasks
  BY Names, TaskType
<1> QED
  BY <1>1 DEF Wanted, Task, SSATask

LEMMA CheckCFGInv ==
    ASSUME CacheInv, TypeOK', agenda # <<>>, CheckCFG
    PROVE  CacheInv'
<1>1. \A q \in Core : ~Provides(Head(agenda), q)
  BY DEF CheckCFG, Top, Provides, Core
<1>2. CASE "CFG" \in bits
  BY <1>1, <1>2, SkipInv DEF CheckCFG
<1>3. CASE "CFG" \notin bits /\ nbb = "none"
  <2>1. /\ Return /\ UNCHANGED <<bits, okobj, nbb, stale>>
        /\ registered \subseteq registered'
    BY <1>3 DEF CheckCFG, Quiet
  <2> QED
    BY <1>1, <2>1, DoneInv
<1>4. CASE "CFG" \notin bits /\ nbb # "none"
  <2>1. /\ Return /\ nbb' = nbb /\ Recomputed({"CFG"})
        /\ setValid({"CFG"}, registered \cup {"CFG"})
    BY <1>4 DEF CheckCFG, Quiet
  <2>2. {"CFG"} \in SUBSET Results /\ Inputs["CFG"] = {}
    BY InputsAre DEF Results, BitResults, ObjResults, Solved
  <2> QED
    BY <1>1, <1>4, <2>1, <2>2, ComputedInv DEF setValid
<1> QED
  BY <1>2, <1>3, <1>4

LEMMA CheckRPOInv ==
    ASSUME CacheInv, TypeOK', agenda # <<>>, CheckRPO
    PROVE  CacheInv'
<1>1. \A q \in Core : Provides(Head(agenda), q) => q = "RPO"
  BY DEF CheckRPO, Top, Provides, Core
<1>2. CASE "CFG" \notin bits
  BY <1>2, AssertInv DEF CheckRPO, Assertions
<1>3. CASE "CFG" \in bits /\ "RPO" \in bits /\ rpolist
  BY <1>1, <1>3, SkipInv DEF CheckRPO
<1>4. CASE "CFG" \in bits /\ ~("RPO" \in bits /\ rpolist)
  <2>1. nbb # "none"
    BY <1>4 DEF CacheInv, CFGHasBB
  <2>2. /\ Return /\ nbb' = nbb /\ Recomputed({"RPO"})
        /\ setValid({"RPO"}, registered)
    BY <1>4, <2>1 DEF CheckRPO, Quiet
  <2>3. {"RPO"} \in SUBSET Results /\ Inputs["RPO"] = {} /\ "RPO" \in BitResults
    BY InputsAre DEF Results, BitResults, ObjResults, Solved
  <2> QED
    BY <1>1, <1>4, <2>1, <2>2, <2>3, ComputedInv DEF setValid
<1> QED
  BY <1>2, <1>3, <1>4

LEMMA CheckDomInv ==
    ASSUME CacheInv, TypeOK', agenda # <<>>,
           NEW p \in {"DOM", "PDOM"}, CheckDom(p)
    PROVE  CacheInv'
<1> DEFINE a == Task("ensure", "DOM", {})
           b == Task("ensure", "PDOM", {})
<1>1. \A q \in Core : Provides(Head(agenda), q) => q \in {"DOM", "PDOM"}
  BY DEF CheckDom, Top, Provides, Core
<1>2. a \in InertTasks /\ b \in InertTasks
  BY Names, InertTask
<1>3. Provides(a, "DOM") /\ Provides(b, "PDOM")
  BY DEF Provides, Task
<1>4. Replace(<<a, b>>) /\ UNCHANGED <<bits, registered, okobj, nbb, stale>>
  BY DEF CheckDom, Quiet
<1> HIDE DEF a, b
<1>5. <<a, b>> \in Seq(InertTasks) /\ Len(<<a, b>>) = 2
      /\ <<a, b>>[1] = a /\ <<a, b>>[2] = b
  BY <1>2
<1>6. \A q \in Core : Provides(Head(agenda), q) =>
          \E k \in 1..Len(<<a, b>>) : Provides(<<a, b>>[k], q)
  BY <1>1, <1>3, <1>5
<1> QED
  BY <1>4, <1>5, <1>6, AskInv

LEMMA EnsureDomInv ==
    ASSUME CacheInv, TypeOK', agenda # <<>>,
           NEW p \in {"DOM", "PDOM"}, EnsureDom(p)
    PROVE  CacheInv'
<1>1. \A q \in Core : Provides(Head(agenda), q) => q = p
  BY DEF EnsureDom, Top, Provides, Core
<1>2. CASE p \in bits
  BY <1>1, <1>2, SkipInv DEF EnsureDom
<1>3. CASE p \notin bits /\ "CFG" \notin bits
  BY <1>3, AssertInv DEF EnsureDom, Assertions
<1>4. CASE p \notin bits /\ "CFG" \in bits
  <2> DEFINE t == Task("finish", p, {})
  <2>1. nbb # "none"
    BY <1>4 DEF CacheInv, CFGHasBB
  <2>2. /\ Replace(Checks(<<"RPO">>) \o <<t>>)
        /\ UNCHANGED <<bits, registered, okobj, nbb, stale>>
    BY <1>4, <2>1 DEF EnsureDom, Quiet
  <2>3. t \in Tasks /\ Wanted(t) = {"RPO"} /\ SSATask(t, registered')
    BY FinishTask, InputsAre
  <2>4. Provides(t, p)
    BY DEF Task, Provides
  <2> HIDE DEF t
  <2> QED
    BY <1>1, <2>2, <2>3, <2>4, InertLists, Provided, WaitInv
<1> QED
  BY <1>2, <1>3, <1>4

LEMMA CheckLoopInfoInv ==
    ASSUME CacheInv, TypeOK', agenda # <<>>, CheckLoopInfo
    PROVE  CacheInv'
<1>1. \A q \in Core : ~Provides(Head(agenda), q)
  BY DEF CheckLoopInfo, Top, Provides, Core
<1>2. CASE "LOOP_INFO" \in bits
  BY <1>1, <1>2, SkipInv DEF CheckLoopInfo
<1>3. CASE "LOOP_INFO" \notin bits /\ "CFG" \notin bits
  BY <1>3, AssertInv DEF CheckLoopInfo, Assertions
<1>4. CASE "LOOP_INFO" \notin bits /\ "CFG" \in bits
  <2> DEFINE t == Task("finish", "LOOP_INFO", {})
  <2>1. nbb # "none"
    BY <1>4 DEF CacheInv, CFGHasBB
  <2>2. /\ Replace(Checks(<<"DOM">>) \o <<t>>)
        /\ UNCHANGED <<bits, registered, okobj, nbb, stale>>
    BY <1>4, <2>1 DEF CheckLoopInfo, Quiet
  <2>3. t \in Tasks /\ Wanted(t) = {"DOM"} /\ SSATask(t, registered')
    BY FinishTask, InputsAre
  <2> HIDE DEF t
  <2> QED
    BY <1>1, <2>2, <2>3, InertLists, Provided, WaitInv
<1> QED
  BY <1>2, <1>3, <1>4

LEMMA CheckCDGInv ==
    ASSUME CacheInv, TypeOK', agenda # <<>>, CheckCDG
    PROVE  CacheInv'
<1>1. \A q \in Core : ~Provides(Head(agenda), q)
  BY DEF CheckCDG, Top, Provides, Core
<1>2. CASE "CDG" \in registered \cap okobj
  BY <1>1, <1>2, SkipInv DEF CheckCDG
<1>3. CASE "CDG" \notin registered \cap okobj /\ "CFG" \notin bits
  BY <1>3, AssertInv DEF CheckCDG, Assertions
<1>4. CASE "CDG" \notin registered \cap okobj /\ "CFG" \in bits
  <2> DEFINE t == Task("finish", "CDG", {})
  <2>1. nbb # "none"
    BY <1>4 DEF CacheInv, CFGHasBB
  <2>2. /\ Replace(Checks(<<"PDOM">>) \o <<t>>)
        /\ UNCHANGED <<bits, okobj, nbb, stale>>
        /\ registered \subseteq registered'
    BY <1>4, <2>1 DEF CheckCDG, Quiet
  <2>3. t \in Tasks /\ Wanted(t) = {"PDOM"} /\ SSATask(t, registered')
    BY FinishTask, InputsAre
  <2> HIDE DEF t
  <2> QED
    BY <1>1, <2>2, <2>3, InertLists, Provided, WaitInv
<1> QED
  BY <1>2, <1>3, <1>4

LEMMA CheckSCCInv ==
    ASSUME CacheInv, TypeOK', agenda # <<>>, CheckSCC \/ CheckExprTab
    PROVE  CacheInv'
<1>1. \A q \in Core : ~Provides(Head(agenda), q)
  BY DEF CheckSCC, CheckExprTab, Top, Provides, Core
<1>2. CASE Skip
  BY <1>1, <1>2, SkipInv
<1>3. CASE \E what \in Assertions : Assert(what)
  BY <1>3, AssertInv
<1>4. CASE \E r \in {"SCC", "EXPR_TAB"} :
               /\ Return /\ Quiet /\ Recomputed({r})
               /\ setValid({r}, registered \cup {r})
  <2>1. PICK r \in {"SCC", "EXPR_TAB"} :
               /\ Return /\ nbb' = nbb /\ Recomputed({r})
               /\ setValid({r}, registered \cup {r})
    BY <1>4 DEF Quiet
  <2>2. {r} \in SUBSET Results /\ Inputs[r] = {} /\ r # "CFG"
    BY InputsAre DEF Results, BitResults, ObjResults, Solved
  <2> QED
    BY <1>1, <2>1, <2>2, ComputedInv DEF setValid
<1>5. CASE CheckSCC
  BY <1>2, <1>3, <1>4, <1>5 DEF CheckSCC, Assertions
<1>6. CASE CheckExprTab
  BY <1>2, <1>4, <1>6 DEF CheckExprTab
<1> QED
  BY <1>5, <1>6

LEMMA CheckAAandDUInv ==
    ASSUME CacheInv, TypeOK', agenda # <<>>,
           NEW p \in Passes, CheckAAandDU(p)
    PROVE  CacheInv'
<1> DEFINE d == Task("du", p, Head(agenda).opts)
           f == Task("finish", "AA", {})
<1>1. \A q \in Core : ~Provides(Head(agenda), q)
  BY DEF CheckAAandDU, Top, Provides, Core, Solved
<1>2. d \in InertTasks /\ f \in InertTasks
  <2>1. Head(agenda).opts \in SUBSET (Passes \cup Results)
    BY AgendaType DEF CacheInv, TypeOK
  <2>2. "AA" \in Passes
    BY Names
  <2>3. d \in InertTasks
    BY <2>1, InertTask
  <2>4. f \in InertTasks
    BY <2>2, InertTask
  <2> QED
    BY <2>3, <2>4
<1>3. /\ <<d>> \in Seq(InertTasks)
      /\ \A flow \in {<<>>, Checks(<<"RPO">>)} :
            Checks(<<"LOOP_INFO", "SCC">>) \o flow \o <<f>> \o <<d>> \in Seq(InertTasks)
  <2> HIDE DEF d, f
  <2>1. <<d>> \in Seq(InertTasks) /\ <<f>> \in Seq(InertTasks)
    BY <1>2
  <2>2. <<>> \in Seq(InertTasks)
    BY EmptySeq
  <2> QED
    BY <2>1, <2>2, InertLists, ConcatProperties
<1>4. CASE \E what \in Assertions : Assert(what)
  BY <1>4, AssertInv
<1>5. CASE ~\E what \in Assertions : Assert(what)
  <2> DEFINE New == {<<d>>, Checks(<<"LOOP_INFO", "SCC">>) \o <<>> \o <<f>> \o <<d>>,
                     Checks(<<"LOOP_INFO", "SCC">>) \o Checks(<<"RPO">>)
                       \o <<f>> \o <<d>>}
  <2>1. /\ UNCHANGED <<bits, okobj, nbb, stale>> /\ registered \subseteq registered'
        /\ \E s \in New : Replace(s)
    BY <1>5 DEF CheckAAandDU, Quiet, Assertions
  <2>2. New \subseteq Seq(InertTasks)
    BY <1>3
  <2> HIDE DEF New
  <2> QED
    BY <1>1, <2>1, <2>2, AskInv
<1> QED
  BY <1>4, <1>5

LEMMA RecomputeDUInv ==
    ASSUME CacheInv, TypeOK', agenda # <<>>, RecomputeDU
    PROVE  CacheInv'
<1> DEFINE opts  == Head(agenda).opts
           ref   == "MD_REF" \in opts /\ "MD_REF" \notin bits
           flags == SolveFlags(opts)
           t     == Task("solve", Head(agenda).p, flags \cup (opts \cap {"MD_REF"}))
           s     == IF flags = {} THEN <<>> ELSE <<t>>
<1>1. \A q \in Core : ~Provides(Head(agenda), q)
  BY DEF RecomputeDU, Provides, Core
<1>2. s \in Seq(InertTasks)
  <2>1. Head(agenda).p \in Passes
    BY AgendaType DEF CacheInv, TypeOK
  <2>2. flags \cup (opts \cap {"MD_REF"}) \in SUBSET (Passes \cup Results)
    BY Names DEF SolveFlags, Solved
  <2>3. t \in InertTasks
    BY <2>1, <2>2, InertTask
  <2> HIDE DEF t, flags
  <2> QED
    BY <2>3, EmptySeq
<1>3. CASE Skip
  BY <1>1, <1>3, SkipInv
<1>4. CASE \E what \in Assertions : Assert(what)
  BY <1>4, AssertInv
<1>5. CASE /\ Return /\ Quiet /\ registered \subseteq registered'
           /\ UNCHANGED <<bits, okobj, stale>>
  <2>1. UNCHANGED <<bits, okobj, nbb, stale>>
    BY <1>5 DEF Quiet
  <2> QED
    BY <1>1, <1>5, <2>1, DoneInv
<1>6. CASE /\ Replace(s) /\ Quiet /\ registered \subseteq registered'
           /\ UNCHANGED <<bits, okobj, stale>>
  <2>1. UNCHANGED <<bits, okobj, nbb, stale>>
    BY <1>6 DEF Quiet
  <2> HIDE DEF s
  <2> QED
    BY <1>1, <1>2, <1>6, <2>1, AskInv
<1>7. CASE /\ Replace(s) /\ Quiet /\ registered \subseteq registered'
           /\ "AA" \in bits /\ bits' = bits \cup {"MD_REF"}
           /\ Recomputed({"MD_REF"}) /\ okobj' = okobj
  <2>1. UpToDate("AA")
    BY <1>7 DEF CacheInv, ValidNotStale, UpToDate, Valid, Results, BitResults
  <2>2. stale' = stale \ {"MD_REF"}
    BY <1>7, <2>1, InputsAre, RecomputedFresh
  <2>3. Refreshes({"MD_REF"})
    BY <1>7, <2>2 DEF Refreshes, CacheInv, ObjectsRegistered, CFGHasBB, Quiet
  <2>4. agenda' = s \o Tail(agenda) /\ bits \cap Core \subseteq bits'
    BY <1>7 DEF Replace
  <2> HIDE DEF s
  <2> QED
    BY <1>1, <1>2, <1>7, <2>3, <2>4, StepInert
<1> HIDE DEF s
<1> QED
  BY <1>3, <1>4, <1>5, <1>6, <1>7 DEF RecomputeDU, Assertions, s

LEMMA StartSolveInv ==
    ASSUME CacheInv, TypeOK', agenda # <<>>, StartSolve
    PROVE  CacheInv'
<1> DEFINE t == Task("solved", Head(agenda).p, Head(agenda).opts \cap Solved)
<1>1. \A q \in Core : ~Provides(Head(agenda), q)
  BY DEF StartSolve, Provides, Core
<1>2. CASE \E what \in Assertions : Assert(what)
  BY <1>2, AssertInv
<1>3. CASE ~\E what \in Assertions : Assert(what)
  <2>1. /\ "MD_REF" \in bits /\ Replace(Checks(<<"RPO">>) \o <<t>>)
        /\ UNCHANGED <<bits, okobj, nbb, stale>> /\ registered \subseteq registered'
    BY <1>3 DEF StartSolve, Quiet, Assertions
  <2>2. t \in Tasks
    BY AgendaType DEF CacheInv, TypeOK, Task, Tasks
  <2>3. Wanted(t) = {"RPO", "MD_REF"} /\ SSATask(t, registered')
    BY DEF Wanted, Task, SSATask
  <2> HIDE DEF t
  <2> QED
    BY <1>1, <2>1, <2>2, <2>3, InertLists, Provided, WaitInv
<1> QED
  BY <1>2, <1>3

LEMMA CheckDUChainInv ==
    ASSUME CacheInv, TypeOK', agenda # <<>>, CheckDUChain
    PROVE  CacheInv'
<1> DEFINE t == Task("finish", "CLASSIC_DU_CHAIN", Head(agenda).opts)
<1>1. \A q \in Core : ~Provides(Head(agenda), q)
  BY DEF CheckDUChain, Top, Provides, Core
<1>2. CASE Skip
  BY <1>1, <1>2, SkipInv
<1>3. CASE \E what \in Assertions : Assert(what)
  BY <1>3, AssertInv
<1>4. CASE ~Skip /\ ~\E what \in Assertions : Assert(what)
  <2>1. /\ Replace(Checks(DUChainPrereqs) \o <<t>>)
        /\ UNCHANGED <<bits, okobj, nbb, stale>> /\ registered \subseteq registered'
    BY <1>4 DEF CheckDUChain, Quiet, Assertions
  <2>2. t \in InertTasks
    <3>1. Head(agenda).opts \in SUBSET (Passes \cup Results)
      BY AgendaType DEF CacheInv, TypeOK
    <3>2. "CLASSIC_DU_CHAIN" \in Passes
      BY Names
    <3> QED
      BY <3>1, <3>2, InertTask
  <2> HIDE DEF t
  <2>3. t \in Tasks /\ Wanted(t) = {} /\ SSATask(t, registered')
    BY <2>2, InertSSA
  <2> QED
    BY <1>1, <2>1, <2>3, InertLists, WaitInv
<1> QED
  BY <1>2, <1>3, <1>4

LEMMA FinishDUChainInv ==
    ASSUME CacheInv, TypeOK', agenda # <<>>, FinishDUChain
    PROVE  CacheInv'
<1>1. \A q \in Core : ~Provides(Head(agenda), q)
  BY DEF FinishDUChain, Top, Provides, Core
<1>2. CASE \E what \in Assertions : Assert(what)
  BY <1>2, AssertInv
<1>3. CASE ~\E what \in Assertions : Assert(what)
  <2>1. /\ {"MD_REF", "REACH_DEF"} \subseteq bits
        /\ Return /\ UNCHANGED <<registered, okobj, nbb>>
    BY <1>3 DEF FinishDUChain, Quiet, Assertions
  <2>2. UpToDate("MD_REF") /\ UpToDate("REACH_DEF")
    BY <2>1 DEF CacheInv, ValidNotStale, UpToDate, Valid, Results, BitResults
  <2> DEFINE S == {"PRDU", "NONPRDU"} \ bits
  <2>3. stale' \subseteq stale /\ stale' \cap (bits' \ bits) = {}
    <3>1. CASE nbb = "many"
      BY <1>3, <3>1 DEF FinishDUChain, Assertions
    <3>2. CASE nbb # "many"
      <4>1. Recomputed(S) /\ bits' \subseteq bits \cup {"PRDU", "NONPRDU"}
        BY <1>3, <3>2 DEF FinishDUChain, Assertions
      <4>2. stale' = stale \ S
        BY <2>2, <4>1, InputsAre, RecomputedFresh
      <4> QED
        BY <4>1, <4>2
    <3> QED
      BY <3>1, <3>2
  <2>4. bits' \subseteq bits \cup {"PRDU", "NONPRDU"} /\ bits \ {"REACH_DEF"} \subseteq bits'
    BY <1>3 DEF FinishDUChain, Assertions
  <2>5. Refreshes(bits' \ bits)
    BY <2>1, <2>3, <2>4 DEF Refreshes, CacheInv, ObjectsRegistered, CFGHasBB
  <2>6. bits \cap Core \subseteq bits'
    BY <2>4 DEF Core
  <2> QED
    BY <1>1, <2>1, <2>5, <2>6, StepReturn
<1> QED
  BY <1>2, <1>3

LEMMA FinishSolveInv ==
    ASSUME CacheInv, TypeOK', agenda # <<>>, FinishSolve
    PROVE  CacheInv'
<1> DEFINE S == Head(agenda).opts
<1>0. agenda \in Seq(Tasks) /\ PromisesKept /\ Head(agenda).op = "solved"
  BY DEF CacheInv, TypeOK, FinishSolve
<1>1. \A q \in Core : ~Provides(Head(agenda), q)
  BY <1>0 DEF Provides, Core
<1>2. S \in SUBSET Solved
  <2>1. Head(agenda) \in Tasks
    BY <1>0
  <2> QED
    BY <1>0, <2>1 DEF Tasks
<1>3. UpToDate("RPO") /\ UpToDate("MD_REF")
  <2>1. Wanted(Head(agenda)) = {"RPO", "MD_REF"}
    BY <1>0 DEF Wanted
  <2> QED
    BY <1>0, <2>1, HeadIsReady
<1>4. \A r \in S : \A q \in Inputs[r] : UpToDate(q)
  BY <1>2, <1>3, InputsAre
<1>5. stale' = stale \ S /\ bits' = bits \cup S /\ Return
      /\ UNCHANGED <<registered, okobj, nbb>>
  BY <1>4, RecomputedFresh DEF FinishSolve, Quiet
<1>6. Refreshes(S)
  <2>1. "CFG" \notin S
    BY <1>2 DEF Solved
  <2> QED
    BY <1>5, <2>1 DEF Refreshes, CacheInv, ObjectsRegistered, CFGHasBB
<1> QED
  BY <1>1, <1>5, <1>6, StepReturn

LEMMA HeadSSA ==
    ASSUME CacheInv, agenda # <<>>
    PROVE  SSATask(Head(agenda), registered)
<1>1. 1 \in DOMAIN agenda /\ agenda[1] = Head(agenda)
  BY DEF CacheInv, TypeOK
<1> QED
  BY <1>1 DEF CacheInv, SSATasks

LEMMA CheckPassInv ==
    ASSUME CacheInv, TypeOK', agenda # <<>>,
           NEW p \in Passes, CheckPass(p)
    PROVE  CacheInv'
<1>1. \A q \in Core : ~Provides(Head(agenda), q)
  BY DEF CheckPass, Top, Provides, Core
<1>2. p \in {"GVN", "PRSSA_MGR"}
  BY HeadSSA DEF CheckPass, Top, SSATask
<1>3. CASE p \in registered \cap okobj
  BY <1>1, <1>3, SkipInv DEF CheckPass
<1>4. CASE p \notin registered \cap okobj /\ p = "GVN"
  <2> DEFINE t == Task("finish", "GVN", {})
  <2>1. UNCHANGED <<bits, okobj, nbb, stale>> /\ registered \subseteq registered'
    BY <1>4 DEF CheckPass, Quiet
  <2>2. CASE nbb = "none" \/ ~GVNReady
    <3>1. Return
      BY <1>4, <2>2 DEF CheckPass
    <3> QED
      BY <1>1, <2>1, <3>1, DoneInv
  <2>3. CASE ~(nbb = "none" \/ ~GVNReady)
    <3>1. Replace(Checks(<<"RPO", "DOM">>) \o <<t>>)
      BY <1>4, <2>3 DEF CheckPass, PrereqsOf, WorkOf
    <3>2. "MD_REF" \in bits
      BY <2>3 DEF GVNReady
    <3>3. t \in Tasks /\ Wanted(t) = {"RPO", "DOM", "MD_REF"} /\ SSATask(t, registered')
      BY FinishTask, InputsAre
    <3> HIDE DEF t
    <3> QED
      BY <1>1, <2>1, <3>1, <3>2, <3>3, InertLists, Provided, WaitInv
  <2> QED
    BY <2>2, <2>3
<1>5. CASE p \notin registered \cap okobj /\ p = "PRSSA_MGR"
  <2> DEFINE t == Task("build", "PRSSA_MGR", {})
  <2>1. /\ Replace(Checks(<<"DOM">>) \o <<t>>) /\ UNCHANGED <<bits, nbb>>
        /\ registered' = registered \cup {"PRSSA_MGR"}
        /\ okobj' = okobj \ {"GVN"} /\ stale' = stale \cup {"GVN"}
    BY <1>5 DEF CheckPass, PrereqsOf, WorkOf, Quiet
  <2>2. t \in Tasks
    BY DEF Task, Tasks
  <2>3. Wanted(t) = {"DOM"} /\ SSATask(t, registered')
    BY <2>1 DEF Wanted, Task, SSATask
  <2>4. "GVN" \notin bits
    BY DEF CacheInv, TypeOK, BitResults
  <2>5. Refreshes({})
    BY <2>1, <2>4 DEF Refreshes, CacheInv, ObjectsRegistered, CFGHasBB
  <2> HIDE DEF t
  <2>6. agenda' = (Checks(<<"DOM">>) \o <<t>>) \o Tail(agenda)
        /\ registered \subseteq registered'
    BY <2>1 DEF Replace
  <2> QED
    BY <1>1, <2>1, <2>2, <2>3, <2>5, <2>6, InertLists, Provided, StepWait
<1> QED
  BY <1>2, <1>3, <1>4, <1>5

LEMMA FinishInv ==
    ASSUME CacheInv, TypeOK', agenda # <<>>,
           NEW p \in Passes, Finish(p)
    PROVE  CacheInv'
<1>0. /\ agenda \in Seq(Tasks) /\ PromisesKept
      /\ Head(agenda).op = "finish" /\ Head(agenda).p = p
      /\ p \in {"DOM", "PDOM", "LOOP_INFO", "CDG", "AA", "GVN"}
  BY DEF CacheInv, TypeOK, Finish, Top
<1>1. \A q \in Core : Provides(Head(agenda), q) => q = p /\ p \in {"DOM", "PDOM"}
  BY <1>0 DEF Provides, Core
<1>2. CASE \E what \in Assertions : Assert(what)
  BY <1>2, AssertInv
<1>3. CASE ~\E what \in Assertions : Assert(what)
  <2>1. /\ setValid({p}, registered) /\ Recomputed({p}) /\ Return /\ nbb' = nbb
        /\ p = "AA" => Valid("LOOP_INFO") /\ Valid("SCC")
    BY <1>3 DEF Finish, Quiet, Assertions
  <2>2. \A q \in Inputs[p] : UpToDate(q)
    <3>1. CASE p = "AA"
      BY <2>1, <3>1, InputsAre DEF CacheInv, ValidNotStale, UpToDate, Results,
         BitResults, ObjResults
    <3>2. CASE p # "AA"
      <4>1. Wanted(Head(agenda)) = Inputs[p]
        BY <1>0, <3>2 DEF Wanted
      <4> QED
        BY <1>0, <4>1, HeadIsReady
    <3> QED
      BY <3>1, <3>2
  <2>3. p \in Results /\ p # "CFG" /\ (p \in {"DOM", "PDOM"} => p \in BitResults)
    BY <1>0 DEF Results, BitResults, ObjResults
  <2>4. /\ bits' = bits \cup ({p} \cap BitResults) /\ registered' = registered
        /\ okobj' = okobj \cup ({p} \cap registered')
    BY <2>1 DEF setValid
  <2> QED
    BY <1>1, <2>1, <2>2, <2>3, <2>4, ComputedInv
<1> QED
  BY <1>2, <1>3

LEMMA BuildPRSSAInv ==
    ASSUME CacheInv, TypeOK', agenda # <<>>, BuildPRSSA
    PROVE  CacheInv'
<1> DEFINE t == Task("finish", "PRSSA_MGR", {})
<1>0. /\ agenda \in Seq(Tasks) /\ PromisesKept
      /\ Head(agenda).op = "build" /\ Head(agenda).p = "PRSSA_MGR"
  BY DEF CacheInv, TypeOK, BuildPRSSA, Top
<1>1. \A q \in Core : ~Provides(Head(agenda), q)
  BY <1>0 DEF Provides, Core
<1>2. "DOM" \in bits
  <2>1. "DOM" \in Wanted(Head(agenda)) /\ "DOM" \in Core
    BY <1>0 DEF Wanted, Core
  <2> QED
    BY <1>0, <2>1, HeadIsReady, CoreIsBit
<1>3. /\ Replace(Checks(<<"RPO">>) \o <<t>>)
      /\ UNCHANGED <<bits, okobj, nbb, stale>> /\ registered' = registered
  BY DEF BuildPRSSA, Quiet
<1>4. "PRSSA_MGR" \in registered
  BY <1>0, HeadSSA DEF SSATask
<1>5. t \in Tasks
  BY Names, TaskType
<1>6. Wanted(t) = {"RPO", "DOM"} /\ SSATask(t, registered')
  BY <1>3, <1>4, InputsAre DEF Wanted, Task, SSATask
<1> HIDE DEF t
<1> QED
  BY <1>1, <1>2, <1>3, <1>5, <1>6, InertLists, Provided, WaitInv

LEMMA FinishPRSSAInv ==
    ASSUME CacheInv, TypeOK', agenda # <<>>, FinishPRSSA
    PROVE  CacheInv'
<1>0. /\ agenda \in Seq(Tasks) /\ PromisesKept
      /\ Head(agenda).op = "finish" /\ Head(agenda).p = "PRSSA_MGR"
  BY DEF CacheInv, TypeOK, FinishPRSSA, Top
<1>1. \A q \in Core : ~Provides(Head(agenda), q)
  BY <1>0 DEF Provides, Core
<1>2. "PRSSA_MGR" \in registered
  BY <1>0, HeadSSA DEF SSATask
<1>3. \A q \in Inputs["PRSSA_MGR"] : UpToDate(q)
  <2>1. Wanted(Head(agenda)) = Inputs["PRSSA_MGR"]
    BY <1>0 DEF Wanted
  <2> QED
    BY <1>0, <2>1, HeadIsReady
<1>4. stale' = stale \ {"PRSSA_MGR"}
  BY <1>3, RecomputedFresh DEF FinishPRSSA
<1>5. /\ bits' = bits \ {"PRDU"} /\ okobj' = okobj \cup {"PRSSA_MGR"}
      /\ Return /\ UNCHANGED <<registered, nbb>>
  BY DEF FinishPRSSA, Quiet
<1>6. Refreshes({"PRSSA_MGR"})
  BY <1>2, <1>4, <1>5 DEF Refreshes, CacheInv, ObjectsRegistered, CFGHasBB
<1>7. bits \cap Core \subseteq bits'
  BY <1>5 DEF Core
<1> QED
  BY <1>1, <1>5, <1>6, <1>7, StepReturn

LEMMA FinishMDSSAInv ==
    ASSUME CacheInv, TypeOK', agenda # <<>>, FinishMDSSA
    PROVE  CacheInv'
<1>0. /\ agenda \in Seq(Tasks)
      /\ Head(agenda).op = "finish" /\ Head(agenda).p = "MDSSA_MGR"
  BY DEF CacheInv, TypeOK, FinishMDSSA, Top
<1>1. \A q \in Core : ~Provides(Head(agenda), q)
  BY <1>0 DEF Provides, Core
<1>2. /\ "MDSSA_MGR" \in registered /\ Head(agenda).opts \subseteq {"GVN", "NONPRDU"}
      /\ "GVN" \in Head(agenda).opts
  BY <1>0, HeadSSA DEF SSATask
<1>3. CASE \E what \in Assertions : Assert(what)
  BY <1>3, AssertInv
<1>4. CASE ~\E what \in Assertions : Assert(what)
  <2>1. PICK built \in {{}, {"MDSSA_MGR"}} :
           LET dropped == Head(agenda).opts
               renamed == IF "NONPRDU" \notin bits THEN {"GVN"} ELSE {}
           IN  /\ bits' = bits \ dropped
               /\ okobj' = (okobj \cup built) \ dropped
               /\ stale' = {r \in stale \cup renamed \cup built :
                              r \in built => \E q \in Inputs[r] : ~UpToDate(q)}
    BY <1>4 DEF FinishMDSSA, Assertions
  <2>2. /\ {"MD_REF", "DOM"} \subseteq bits
        /\ Return /\ UNCHANGED <<registered, nbb>>
    BY <1>4 DEF FinishMDSSA, Quiet, Assertions
  <2>3. \A q \in Inputs["MDSSA_MGR"] : UpToDate(q)
    BY <2>2, InputsAre DEF CacheInv, ValidNotStale, UpToDate, Valid,
       Results, BitResults
  <2>4. /\ bits' \subseteq bits /\ bits \ {"GVN", "NONPRDU"} \subseteq bits'
        /\ okobj' \subseteq okobj \cup built
        /\ "GVN" \notin bits' /\ "GVN" \notin okobj'
    BY <1>2, <2>1
  <2>5. stale' \subseteq (stale \ built) \cup {"GVN"}
    <3>1. \A r \in built : ~\E q \in Inputs[r] : ~UpToDate(q)
      BY <2>3
    <3> QED
      BY <2>1, <3>1
  <2>6. Refreshes(built)
    BY <1>2, <2>2, <2>4, <2>5 DEF Refreshes, CacheInv, ObjectsRegistered, CFGHasBB
  <2>7. bits \cap Core \subseteq bits'
    BY <2>4 DEF Core
  <2> QED
    BY <1>1, <2>2, <2>6, <2>7, StepReturn
<1> QED
  BY <1>3, <1>4

LEMMA RecomputeInv ==
    ASSUME ~DensePRSSA, CacheInv, Recompute
    PROVE  CacheInv'
<1>1. TypeOK'
  BY RecomputeType DEF CacheInv
<1>2. agenda # <<>>
  BY DEF Recompute, CheckCFG, CheckRPO, CheckLoopInfo, CheckCDG,
         CheckSCC, CheckExprTab, RecomputeDU, StartSolve, CheckDUChain,
         FinishDUChain, FinishSolve, CheckDom, EnsureDom, CheckAAandDU,
         CheckPass, Finish, BuildPRSSA, GiveUpPRSSA, FinishPRSSA, FinishMDSSA, Top
<1>3. ~GiveUpPRSSA
  BY DEF GiveUpPRSSA
<1> QED
  BY <1>1, <1>2, <1>3, CheckCFGInv, CheckRPOInv, CheckDomInv, EnsureDomInv,
     CheckLoopInfoInv, CheckCDGInv, CheckSCCInv, CheckAAandDUInv, RecomputeDUInv,
     StartSolveInv, CheckDUChainInv, FinishDUChainInv, FinishSolveInv,
     CheckPassInv, FinishInv, BuildPRSSAInv, FinishPRSSAInv, FinishMDSSAInv
     DEF Recompute

-----------------------------------------------------------------------------
(* What the passes do between two requests.                                *)

\* A request starts: its tasks rely on nothing.
LEMMA StartInv ==
    ASSUME CacheInv, TypeOK', NEW S, Refreshes(S),
           \A i \in DOMAIN agenda' :
               Wanted(agenda'[i]) = {} /\ SSATask(agenda'[i], registered')
    PROVE  CacheInv'
<1>1. ValidNotStale' /\ ObjectsRegistered' /\ CFGHasBB'
  BY Fresh DEF CacheInv
<1> QED
  BY <1>1 DEF CacheInv, PromisesKept, SSATasks

LEMMA StartListInv ==
    ASSUME CleanUse, CacheInv, TypeOK', NEW list \in Requests \cup IPARequests,
           agenda' = Checks(list), NEW S, Refreshes(S)
    PROVE  CacheInv'
<1>1. list \in Seq(Passes) /\ \A i \in DOMAIN list : list[i] # "MDSSA_MGR"
  BY OptCtxAssumption DEF OptCtxAssumption, CleanUse
<1>2. agenda' \in Seq(InertTasks)
  BY <1>1, ChecksInert
<1>3. \A i \in DOMAIN agenda' : agenda'[i] \in InertTasks
  BY <1>2
<1> QED
  BY <1>3, InertSSA, StartInv

LEMMA RequestInv ==
    ASSUME CleanUse, CacheInv, TypeOK', Request \/ IPARequest
    PROVE  CacheInv'
<1>1. /\ UNCHANGED <<bits, okobj, nbb, stale>> /\ registered \subseteq registered'
      /\ \E list \in Requests \cup IPARequests : agenda' = Checks(list)
  BY DEF Request, IPARequest
<1> QED
  BY <1>1, SameRefreshes, StartListInv

\* An edit leaves nothing pending.
LEMMA EditedInv ==
    ASSUME CacheInv, TypeOK', NEW kind, Edited(kind), NEW S, Refreshes(S)
    PROVE  CacheInv'
<1>1. DOMAIN agenda' = {}
  BY DEF Edited, Idle
<1> QED
  BY <1>1, StartInv

\* Invalidating at least what became stale is enough.
LEMMA InvalidInv ==
    ASSUME CacheInv, TypeOK', NEW kind, Edited(kind), NEW S, setInvalid(S),
           stale' \subseteq stale \cup S, nbb # "none" => nbb' # "none"
    PROVE  CacheInv'
<1>1. /\ bits' \subseteq bits \ S /\ okobj' = okobj \ S /\ registered' = registered
  BY DEF setInvalid, BitsOf
<1>2. Refreshes({})
  BY <1>1 DEF Refreshes, CacheInv, ObjectsRegistered, CFGHasBB
<1> QED
  BY <1>2, EditedInv

LEMMA DoMDSSAInv ==
    ASSUME CacheInv, TypeOK', DoMDSSA
    PROVE  CacheInv'
<1> DEFINE t == Task("finish", "MDSSA_MGR", {"GVN", "NONPRDU"})
<1>1. /\ UNCHANGED <<okobj, nbb, stale>> /\ bits' \subseteq bits
      /\ registered' = registered \cup {"MDSSA_MGR"}
  BY DEF DoMDSSA
<1>2. Refreshes({})
  BY <1>1 DEF Refreshes, CacheInv, ObjectsRegistered, CFGHasBB
<1>3. CASE "MDSSA_MGR" \in okobj
  <2>1. DOMAIN agenda' = {}
    BY <1>3 DEF DoMDSSA, Idle
  <2> QED
    BY <1>2, <2>1, StartInv
<1>4. CASE "MDSSA_MGR" \notin okobj
  <2>1. agenda' = Checks(<<"DOM">>) \o <<t>>
    BY <1>4 DEF DoMDSSA
  <2>2. Wanted(t) = {} /\ SSATask(t, registered')
    BY <1>1 DEF Wanted, Task, SSATask
  <2> HIDE DEF t
  <2>3. agenda' \in Seq(InertTasks \cup {t})
    <3>1. Checks(<<"DOM">>) \in Seq(InertTasks \cup {t})
      BY InertLists
    <3>2. <<t>> \in Seq(InertTasks \cup {t})
      OBVIOUS
    <3> QED
      BY <2>1, <3>1, <3>2, ConcatProperties
  <2>4. \A i \in DOMAIN agenda' : agenda'[i] \in InertTasks \cup {t}
    BY <2>3
  <2> QED
    BY <1>2, <2>2, <2>4, InertSSA, StartInv
<1> QED
  BY <1>3, <1>4

LEMMA EditInv ==
    ASSUME CleanUse, CacheInv, TypeOK', Edit
    PROVE  CacheInv'
<1>0. /\ bits \subseteq BitResults /\ "GVN" \notin BitResults
      /\ CFGResults \subseteq Results
  BY Names DEF CacheInv, TypeOK, BitResults
<1>n. Resize /\ nbb # "none" => nbb' # "none"
  BY DEF Resize
<1>1. CASE CFGChanged
  BY <1>1, <1>n, InvalidInv DEF CFGChanged
<1>2. CASE CFGChangedExcept
  <2>1. PICK ex \in Excludes : /\ setInvalid(InvalidatedExcept(ex))
                               /\ stale' = stale \cup (CFGResults \ ex)
    BY <1>2 DEF CFGChangedExcept
  <2>2. InvalidatedExcept(ex) = CFGResults \ ex
    BY <2>1 DEF CleanUse, InvalidatedExcept
  <2> QED
    BY <1>2, <1>n, <2>1, <2>2, InvalidInv DEF CFGChangedExcept
<1>3. CASE GlobalRefined
  <2>1. Refreshes({})
    BY <1>3 DEF GlobalRefined, Refreshes, CacheInv, ObjectsRegistered, CFGHasBB
  <2> QED
    BY <1>3, <2>1, EditedInv DEF GlobalRefined
<1>4. CASE RedirectTrampoline \/ MDSSALost
  BY <1>4 DEF RedirectTrampoline, MDSSALost, Edited, CleanUse
<1>5. CASE LiveChanged
  <2>1. /\ setInvalid({"EXPR_TAB"} \cup Solved) /\ Edited("live") /\ nbb' = nbb
        /\ stale' \subseteq stale \cup ({"EXPR_TAB"} \cup Solved)
    BY <1>5 DEF LiveChanged
  <2> QED
    BY <2>1, InvalidInv
<1>6. CASE Simplified
  <2>1. PICK gone : /\ bits' = bits \ gone
                    /\ okobj' \subseteq (okobj \ gone) \cup {"CFG"}
                    /\ stale' = stale \cup gone /\ "CFG" \notin gone
                    /\ UNCHANGED <<registered, nbb>> /\ Edited("simplify")
    <3>1. PICK rebuilt \in BOOLEAN :
            LET gone == (IF rebuilt THEN CFGResults ELSE {})
                          \cup {"AA", "PRDU", "NONPRDU", "REACH_DEF",
                                "AVAIL_REACH_DEF"}
            IN  /\ bits' = bits \ gone
                /\ okobj' = (okobj \ gone) \cup (IF rebuilt THEN {"CFG"} ELSE {})
                /\ rpolist' = (rpolist /\ ~rebuilt)
                /\ stale' = stale \cup gone
      BY <1>6 DEF Simplified
    <3> QED
      BY <1>6, <3>1 DEF Simplified, CFGResults
  <2>2. Refreshes({})
    BY <2>1 DEF Refreshes, CacheInv, ObjectsRegistered, CFGHasBB, ObjResults
  <2> QED
    BY <2>1, <2>2, EditedInv
<1>7. CASE MDReferenced
  <2>1. "AA" \in bits /\ UpToDate("AA")
    BY <1>7 DEF MDReferenced, CacheInv, ValidNotStale, UpToDate, Valid, Results,
       BitResults
  <2>2. stale' = stale \ {"MD_REF"}
    BY <1>7, <2>1, InputsAre, RecomputedFresh DEF MDReferenced
  <2>3. Refreshes({"MD_REF"})
    BY <1>7, <2>2 DEF MDReferenced, Refreshes, CacheInv, ObjectsRegistered, CFGHasBB
  <2> QED
    BY <1>7, <2>3, EditedInv DEF MDReferenced
<1>8. CASE DoMDSSA
  BY <1>8, DoMDSSAInv
<1>9. CASE Propagated
  <2>1. /\ setInvalid({"EXPR_TAB", "AA"}) /\ Edited("cp") /\ nbb' = nbb
        /\ stale' \subseteq stale \cup {"EXPR_TAB", "AA"}
    BY <1>9 DEF Propagated
  <2> QED
    BY <2>1, InvalidInv
<1>10. CASE Hoisted
  <2>1. PICK gone : /\ bits' = bits \ gone /\ okobj' \subseteq okobj \ gone
                    /\ stale' = stale \cup gone
                    /\ UNCHANGED <<registered, nbb>> /\ Edited("licm")
    <3>1. PICK duset_changed, use_gvn \in BOOLEAN :
            LET gone == {"EXPR_TAB"} \cup (IF duset_changed THEN Solved ELSE {})
            IN  /\ bits' = bits \ gone
                /\ okobj' = okobj \ (gone \cup IF duset_changed /\ use_gvn
                                               THEN {"GVN"} ELSE {})
                /\ stale' = stale \cup gone
      BY <1>10 DEF Hoisted
    <3> QED
      BY <1>10, <3>1 DEF Hoisted
  <2>2. Refreshes({})
    BY <2>1 DEF Refreshes, CacheInv, ObjectsRegistered, CFGHasBB
  <2> QED
    BY <2>1, <2>2, EditedInv
<1>11. CASE RegionDone
  <2>1. Refreshes({})
    BY <1>11 DEF RegionDone, Refreshes
  <2> QED
    BY <1>11, <2>1, EditedInv DEF RegionDone
<1>12. CASE IPADestroyed
  <2>1. Refreshes({})
    BY <1>12 DEF IPADestroyed, Refreshes, CacheInv, ObjectsRegistered, CFGHasBB,
       ObjResults
  <2> QED
    BY <1>12, <2>1, EditedInv DEF IPADestroyed
<1> QED
  BY <1>1, <1>2, <1>3, <1>4, <1>5, <1>6, <1>7, <1>8, <1>9, <1>10, <1>11,
     <1>12 DEF Edit

-----------------------------------------------------------------------------
\* Every pending computation finds what it relies on up to date when its turn
\* comes, whatever ran in between (PassMgr::checkValidAndRecompute and the
\* computations it calls), as long as the exceptions of CleanUse are avoided:
\* edits and lists that leave a result stale, and graphs so dense that PRSSA
\* gives up and is marked valid nevertheless (constructByDomTree).
THEOREM CacheCorrect == ASSUME CleanUse PROVE Spec => []CacheInv
<1>1. Init => CacheInv
  <2> SUFFICES ASSUME Init
               PROVE  CacheInv
    OBVIOUS
  <2>1. TypeOK
    BY OptCtxAssumption, EmptySeq DEF Init, TypeOK, OptCtxAssumption
  <2>2. DOMAIN agenda = {}
    BY DEF Init
  <2> QED
    BY <2>1, <2>2 DEF Init, CacheInv, ValidNotStale, PromisesKept, SSATasks,
       ObjectsRegistered, CFGHasBB
<1>2. CacheInv /\ [Next]_vars => CacheInv'
  <2> SUFFICES ASSUME CacheInv, [Next]_vars
               PROVE  CacheInv'
    OBVIOUS
  <2>1. CASE UNCHANGED vars
    <3>1. TypeOK' /\ ValidNotStale'
      BY <2>1 DEF vars, CacheInv, TypeOK, ValidNotStale, Valid
    <3>2. PromisesKept'
      BY <2>1 DEF vars, CacheInv, PromisesKept, UpToDate, Valid
    <3> QED
      BY <2>1, <3>1, <3>2 DEF vars, CacheInv, SSATasks, ObjectsRegistered, CFGHasBB
  <2>2. CASE Recompute
    BY <2>2, RecomputeInv DEF CleanUse
  <2>3. CASE Request \/ IPARequest
    BY <2>3, RequestType, RequestInv DEF CacheInv
  <2>4. CASE Edit
    BY <2>4, EditType, EditInv DEF CacheInv
  <2> QED
    BY <2>1, <2>2, <2>3, <2>4 DEF Next
<1> QED
  BY <1>1, <1>2, PTL DEF Spec

\* No result a consumer takes as valid is stale, and no computation finds its
\* inputs stale, for every list, edit and size of the CFG outside the
\* exceptions of CleanUse (OptCtx::setInvalidPass and its callers).  Where
\* PRSSA gives up the statement is false of the code, see MCOptCtxGiveUp.
THEOREM Consistent == ASSUME CleanUse PROVE Spec => []ValidNotStale
<1>1. CacheInv => ValidNotStale
  BY DEF CacheInv
<1> QED
  BY <1>1, CacheCorrect, PTL

-----------------------------------------------------------------------------
(* The abstract cache                                                      *)

LEMMA InputsAreResults == \A r \in Results : Inputs[r] \subseteq Results
<1>1. Results = {"CFG", "RPO", "SCC", "EXPR_TAB", "DOM", "PDOM", "LOOP_INFO", "CDG",
                 "AA", "MD_REF", "PRDU", "NONPRDU", "GVN", "PRSSA_MGR",
                 "MDSSA_MGR"} \cup Solved
  BY DEF Results, BitResults, ObjResults, Solved
<1>2. {"RPO", "DOM", "PDOM", "LOOP_INFO", "SCC", "AA", "MD_REF", "REACH_DEF"}
         \subseteq Results
  BY DEF Results, BitResults, ObjResults
<1> QED
  BY <1>1, <1>2, InputsAre

\* CacheInv makes a trusted result up to date, and the other way round.
LEMMA TrustedIsUpToDate ==
    ASSUME CacheInv
    PROVE  \A q \in Results : q \in Trusted <=> UpToDate(q)
  BY DEF CacheInv, ValidNotStale, Trusted, UpToDate

LEMMA SoundStep == ASSUME CacheInv' PROVE Promise!Sound
  BY DEF CacheInv, ValidNotStale, Trusted, Promise!Sound

\* A step that makes at most S valid, whose inputs are valid, is well founded.
LEMMA FoundedStep ==
    ASSUME CacheInv, NEW S,
           bits' \subseteq bits \cup S, okobj' \cap ObjResults \subseteq okobj \cup S,
           \A r \in S \cap Results : \A q \in Inputs[r] : UpToDate(q)
    PROVE  Promise!Founded
<1> SUFFICES ASSUME NEW r \in Results, Valid(r)', ~Valid(r)
             PROVE  Inputs[r] \subseteq Trusted
  BY DEF Promise!Founded, Trusted
<1>1. r \in S
  <2>1. CASE r \in BitResults
    BY <2>1 DEF Valid
  <2>2. CASE r \notin BitResults
    <3>1. r \in ObjResults /\ r \in okobj'
      BY <2>2 DEF Valid, Results
    <3>2. r \notin okobj
      BY <2>2, <3>1 DEF Valid, CacheInv, ObjectsRegistered
    <3> QED
      BY <3>1, <3>2
  <2> QED
    BY <2>1, <2>2
<1> QED
  BY <1>1, InputsAreResults, TrustedIsUpToDate

\* A task that computes S, the inputs of which are up to date.
LEMMA ServeStep ==
    ASSUME CacheInv, CacheInv', agenda # <<>>, NEW S,
           bits' \subseteq bits \cup S, okobj' \cap ObjResults \subseteq okobj \cup S,
           \A r \in S \cap Results : \A q \in Inputs[r] : UpToDate(q),
           stale' \subseteq stale \cup {"GVN"}
    PROVE  Promise!Next
<1>1. Promise!Founded
  BY FoundedStep
<1> QED
  BY <1>1, SoundStep DEF Promise!Next, Promise!Serve

LEMMA ComputeStep ==
    ASSUME CacheInv, CacheInv', agenda # <<>>, NEW S, NEW reg,
           setValid(S, reg), Recomputed(S),
           \A r \in S : \A q \in Inputs[r] : UpToDate(q)
    PROVE  Promise!Next
<1>1. stale' = stale \ S
  BY RecomputedFresh
<1> QED
  BY <1>1, ServeStep DEF setValid

\* A task that makes nothing valid.
LEMMA IdleStep ==
    ASSUME CacheInv, CacheInv', agenda # <<>>,
           bits' \subseteq bits, okobj' \subseteq okobj,
           stale' \subseteq stale \cup {"GVN"}
    PROVE  Promise!Next
<1> DEFINE S == {}
<1>1. \A r \in S \cap Results : \A q \in Inputs[r] : UpToDate(q)
  OBVIOUS
<1>2. bits' \subseteq bits \cup S /\ okobj' \cap ObjResults \subseteq okobj \cup S
  OBVIOUS
<1> HIDE DEF S
<1> QED
  BY <1>1, <1>2, ServeStep

LEMMA PlainStep ==
    ASSUME CacheInv, CacheInv', agenda # <<>>, UNCHANGED <<bits, okobj, stale>>
    PROVE  Promise!Next
  BY IdleStep

LEMMA AssertStep ==
    ASSUME CacheInv, CacheInv', agenda # <<>>, NEW what, Assert(what)
    PROVE  Promise!Next
  BY PlainStep DEF Assert

LEMMA SkipStep ==
    ASSUME CacheInv, CacheInv', agenda # <<>>, Skip
    PROVE  Promise!Next
  BY PlainStep DEF Skip

-----------------------------------------------------------------------------
(* The recomputations that compute something.                              *)

LEMMA RecomputeDUStep ==
    ASSUME CacheInv, CacheInv', agenda # <<>>, RecomputeDU
    PROVE  Promise!Next
<1>1. CASE UNCHANGED <<bits, okobj, stale>>
  BY <1>1, PlainStep
<1>2. CASE ~UNCHANGED <<bits, okobj, stale>>
  <2>1. /\ "AA" \in bits /\ bits' = bits \cup {"MD_REF"}
        /\ Recomputed({"MD_REF"}) /\ okobj' = okobj
    BY <1>2 DEF RecomputeDU, Skip, Assert
  <2>2. UpToDate("AA")
    BY <2>1 DEF CacheInv, ValidNotStale, UpToDate, Valid, Results, BitResults
  <2>3. \A q \in Inputs["MD_REF"] : UpToDate(q)
    BY <2>2, InputsAre
  <2>4. stale' = stale \ {"MD_REF"}
    BY <2>1, <2>3, RecomputedFresh
  <2> QED
    BY <2>1, <2>3, <2>4, ServeStep
<1> QED
  BY <1>1, <1>2

LEMMA FinishDUChainStep ==
    ASSUME CacheInv, CacheInv', agenda # <<>>, FinishDUChain
    PROVE  Promise!Next
<1> DEFINE S == {"PRDU", "NONPRDU"} \ bits
<1>1. CASE \E what : Assert(what)
  BY <1>1, AssertStep
<1>2. CASE ~\E what : Assert(what)
  <2>1. {"MD_REF", "REACH_DEF"} \subseteq bits /\ okobj' = okobj
    BY <1>2 DEF FinishDUChain, Quiet
  <2>2. UpToDate("MD_REF") /\ UpToDate("REACH_DEF")
    BY <2>1 DEF CacheInv, ValidNotStale, UpToDate, Valid, Results, BitResults
  <2>3. \A r \in S : \A q \in Inputs[r] : UpToDate(q)
    BY <2>2, InputsAre
  <2>4. bits' \subseteq bits \cup S /\ stale' \subseteq stale
    <3>1. CASE nbb = "many"
      BY <1>2, <3>1 DEF FinishDUChain
    <3>2. CASE nbb # "many"
      <4>1. Recomputed(S) /\ bits' \subseteq bits \cup {"PRDU", "NONPRDU"}
        BY <1>2, <3>2 DEF FinishDUChain
      <4>2. stale' = stale \ S
        BY <2>3, <4>1, RecomputedFresh
      <4> QED
        BY <4>1, <4>2
    <3> QED
      BY <3>1, <3>2
  <2> QED
    BY <2>1, <2>3, <2>4, ServeStep
<1> QED
  BY <1>1, <1>2

LEMMA FinishSolveStep ==
    ASSUME CacheInv, CacheInv', agenda # <<>>, FinishSolve
    PROVE  Promise!Next
<1> DEFINE S == Head(agenda).opts
<1>1. agenda \in Seq(Tasks) /\ PromisesKept /\ Head(agenda).op = "solved"
  BY DEF CacheInv, TypeOK, FinishSolve
<1>2. S \in SUBSET Solved
  BY <1>1 DEF Tasks
<1>3. UpToDate("RPO") /\ UpToDate("MD_REF")
  <2>1. Wanted(Head(agenda)) = {"RPO", "MD_REF"}
    BY <1>1 DEF Wanted
  <2> QED
    BY <1>1, <2>1, HeadIsReady
<1>4. \A r \in S : \A q \in Inputs[r] : UpToDate(q)
  BY <1>2, <1>3, InputsAre
<1>5. stale' = stale \ S /\ bits' = bits \cup S /\ okobj' = okobj
  BY <1>4, RecomputedFresh DEF FinishSolve, Quiet
<1> QED
  BY <1>4, <1>5, ServeStep

LEMMA FinishStep ==
    ASSUME CacheInv, CacheInv', agenda # <<>>, NEW p \in Passes, Finish(p)
    PROVE  Promise!Next
<1>0. /\ agenda \in Seq(Tasks) /\ PromisesKept
      /\ Head(agenda).op = "finish" /\ Head(agenda).p = p
      /\ p \in {"DOM", "PDOM", "LOOP_INFO", "CDG", "AA", "GVN"}
  BY DEF CacheInv, TypeOK, Finish, Top
<1>1. CASE \E what : Assert(what)
  BY <1>1, AssertStep
<1>2. CASE ~\E what : Assert(what)
  <2>1. /\ setValid({p}, registered) /\ Recomputed({p})
        /\ p = "AA" => Valid("LOOP_INFO") /\ Valid("SCC")
    BY <1>2 DEF Finish
  <2>2. \A q \in Inputs[p] : UpToDate(q)
    <3>1. CASE p = "AA"
      BY <2>1, <3>1, InputsAre DEF CacheInv, ValidNotStale, UpToDate, Results,
         BitResults, ObjResults
    <3>2. CASE p # "AA"
      <4>1. Wanted(Head(agenda)) = Inputs[p]
        BY <1>0, <3>2 DEF Wanted
      <4> QED
        BY <1>0, <4>1, HeadIsReady
    <3> QED
      BY <3>1, <3>2
  <2> QED
    BY <2>1, <2>2, ComputeStep
<1> QED
  BY <1>1, <1>2

LEMMA FinishPRSSAStep ==
    ASSUME CacheInv, CacheInv', agenda # <<>>, FinishPRSSA
    PROVE  Promise!Next
<1>0. /\ agenda \in Seq(Tasks) /\ PromisesKept
      /\ Head(agenda).op = "finish" /\ Head(agenda).p = "PRSSA_MGR"
  BY DEF CacheInv, TypeOK, FinishPRSSA, Top
<1>1. \A q \in Inputs["PRSSA_MGR"] : UpToDate(q)
  <2>1. Wanted(Head(agenda)) = Inputs["PRSSA_MGR"]
    BY <1>0 DEF Wanted
  <2> QED
    BY <1>0, <2>1, HeadIsReady
<1>2. stale' = stale \ {"PRSSA_MGR"}
  BY <1>1, RecomputedFresh DEF FinishPRSSA
<1>3. bits' \subseteq bits /\ okobj' = okobj \cup {"PRSSA_MGR"}
  BY DEF FinishPRSSA
<1> DEFINE S == {"PRSSA_MGR"}
<1>4. /\ bits' \subseteq bits \cup S /\ okobj' \cap ObjResults \subseteq okobj \cup S
      /\ stale' \subseteq stale \cup {"GVN"}
      /\ \A r \in S \cap Results : \A q \in Inputs[r] : UpToDate(q)
  BY <1>1, <1>2, <1>3
<1> HIDE DEF S
<1> QED
  BY <1>4, ServeStep

LEMMA FinishMDSSAStep ==
    ASSUME CacheInv, CacheInv', agenda # <<>>, FinishMDSSA
    PROVE  Promise!Next
<1>1. CASE \E what : Assert(what)
  BY <1>1, AssertStep
<1>2. CASE ~\E what : Assert(what)
  <2>1. PICK built \in {{}, {"MDSSA_MGR"}} :
           /\ bits' \subseteq bits /\ okobj' \subseteq okobj \cup built
           /\ stale' \subseteq {r \in stale \cup {"GVN"} \cup built :
                                  r \in built => \E q \in Inputs[r] : ~UpToDate(q)}
    BY <1>2 DEF FinishMDSSA
  <2>2. {"MD_REF", "DOM"} \subseteq bits
    BY <1>2 DEF FinishMDSSA
  <2>3. \A q \in Inputs["MDSSA_MGR"] : UpToDate(q)
    BY <2>2, InputsAre DEF CacheInv, ValidNotStale, UpToDate, Valid,
       Results, BitResults
  <2>4. stale' \subseteq stale \cup {"GVN"}
    <3>1. \A r \in built : ~\E q \in Inputs[r] : ~UpToDate(q)
      BY <2>3
    <3> QED
      BY <2>1, <3>1
  <2> QED
    BY <2>1, <2>3, <2>4, ServeStep
<1> QED
  BY <1>1, <1>2

\* A recomputation that finds its results out of date and computes S at once.
LEMMA AtOnceStep ==
    ASSUME CacheInv, CacheInv', agenda # <<>>,
           NEW p \in {"CFG", "RPO", "SCC", "EXPR_TAB"}, NEW reg,
           setValid({p}, reg), Recomputed({p})
    PROVE  Promise!Next
<1>1. Inputs[p] = {}
  BY InputsAre
<1> QED
  BY <1>1, ComputeStep

LEMMA RecomputeStep ==
    ASSUME ~DensePRSSA, CacheInv, CacheInv', Recompute
    PROVE  Promise!Next
<1>0. agenda # <<>>
  BY DEF Recompute, CheckCFG, CheckRPO, CheckLoopInfo, CheckCDG,
         CheckSCC, CheckExprTab, RecomputeDU, StartSolve, CheckDUChain,
         FinishDUChain, FinishSolve, CheckDom, EnsureDom, CheckAAandDU,
         CheckPass, Finish, BuildPRSSA, GiveUpPRSSA, FinishPRSSA, FinishMDSSA, Top
<1>1. CASE CheckCFG
  <2>1. \/ Skip \/ UNCHANGED <<bits, okobj, stale>>
        \/ setValid({"CFG"}, registered \cup {"CFG"}) /\ Recomputed({"CFG"})
    BY <1>1 DEF CheckCFG
  <2> QED
    BY <1>0, <2>1, SkipStep, PlainStep, AtOnceStep
<1>2. CASE CheckRPO
  <2>1. \/ Assert("CFG first") \/ Skip
        \/ setValid({"RPO"}, registered) /\ Recomputed({"RPO"})
    BY <1>2 DEF CheckRPO
  <2> QED
    BY <1>0, <2>1, AssertStep, SkipStep, AtOnceStep
<1>3. CASE CheckSCC
  <2>1. \/ Assert("CFG first") \/ Skip
        \/ setValid({"SCC"}, registered \cup {"SCC"}) /\ Recomputed({"SCC"})
    BY <1>3 DEF CheckSCC
  <2> QED
    BY <1>0, <2>1, AssertStep, SkipStep, AtOnceStep
<1>4. CASE CheckExprTab
  <2>1. \/ Skip
        \/ setValid({"EXPR_TAB"}, registered \cup {"EXPR_TAB"}) /\ Recomputed({"EXPR_TAB"})
    BY <1>4 DEF CheckExprTab
  <2> QED
    BY <1>0, <2>1, SkipStep, AtOnceStep
<1>5. CASE \/ CheckLoopInfo \/ CheckCDG \/ StartSolve \/ CheckDUChain \/ BuildPRSSA
           \/ \E p \in {"DOM", "PDOM"} : CheckDom(p) \/ EnsureDom(p)
           \/ \E p \in Passes : CheckAAandDU(p)
  <2>1. UNCHANGED <<bits, okobj, stale>>
    BY <1>5 DEF CheckLoopInfo, CheckCDG, StartSolve, CheckDUChain, CheckDom,
       EnsureDom, CheckAAandDU, BuildPRSSA, Skip, Assert
  <2> QED
    BY <1>0, <2>1, PlainStep
<1>6. CASE \E p \in Passes : CheckPass(p)
  <2>1. /\ bits' = bits /\ okobj' \subseteq okobj
        /\ stale' \subseteq stale \cup {"GVN"}
    BY <1>6 DEF CheckPass, Skip
  <2> QED
    BY <1>0, <2>1, IdleStep
<1>7. ~GiveUpPRSSA
  BY DEF GiveUpPRSSA
<1> QED
  BY <1>0, <1>1, <1>2, <1>3, <1>4, <1>5, <1>6, <1>7, RecomputeDUStep,
     FinishDUChainStep, FinishSolveStep, FinishStep, FinishPRSSAStep,
     FinishMDSSAStep DEF Recompute

-----------------------------------------------------------------------------
(* Requests and edits.                                                     *)

LEMMA AskStep ==
    ASSUME Request \/ IPARequest, CacheInv
    PROVE  Promise!Next \/ UNCHANGED Promise!cacheVars
<1>1. /\ agenda = <<>> /\ UNCHANGED <<bits, okobj, stale>>
      /\ registered \subseteq registered' /\ registered' \subseteq registered \cup {"AA"}
  BY DEF Request, IPARequest, Idle
<1>2. UNCHANGED <<Trusted, stale>>
  BY <1>1 DEF Trusted, Valid, Results, BitResults, ObjResults
<1> QED
  BY <1>1, <1>2 DEF Promise!Next, Promise!Ask, Promise!cacheVars

\* An edit that brings at most MD reference up to date.
LEMMA ChangeStep ==
    ASSUME CacheInv, CacheInv', agenda = <<>>,
           bits' \subseteq bits \cup {"MD_REF"},
           "MD_REF" \in bits' \ bits => "AA" \in bits,
           okobj' \cap ObjResults \subseteq okobj
    PROVE  Promise!Next
<1>1. stale' \subseteq Results
  BY DEF CacheInv, TypeOK
<1>2. CASE "MD_REF" \in bits' \ bits
  <2>1. UpToDate("AA")
    BY <1>2 DEF CacheInv, ValidNotStale, UpToDate, Valid, Results, BitResults
  <2>2. \A r \in {"MD_REF"} \cap Results : \A q \in Inputs[r] : UpToDate(q)
    BY <2>1, InputsAre
  <2>3. Promise!Founded
    BY <2>2, FoundedStep
  <2> QED
    BY <1>1, <2>3, SoundStep DEF Promise!Next, Promise!Change
<1>3. CASE "MD_REF" \notin bits' \ bits
  <2> DEFINE none == {}
  <2>1. /\ bits' \subseteq bits \cup none /\ okobj' \cap ObjResults \subseteq okobj \cup none
        /\ \A r \in none \cap Results : \A q \in Inputs[r] : UpToDate(q)
    BY <1>3
  <2> HIDE DEF none
  <2>2. Promise!Founded
    BY <2>1, FoundedStep
  <2> QED
    BY <1>1, <2>2, SoundStep DEF Promise!Next, Promise!Change
<1> QED
  BY <1>2, <1>3

LEMMA EditStep ==
    ASSUME CleanUse, CacheInv, CacheInv', Edit
    PROVE  Promise!Next
<1>1. agenda = <<>>
  BY DEF Edit, CFGChanged, CFGChangedExcept, GlobalRefined, RedirectTrampoline,
     LiveChanged, MDReferenced, DoMDSSA, MDSSALost, Simplified, Propagated,
     Hoisted, RegionDone, IPADestroyed, Edited, Idle
<1>2. CASE \/ CFGChanged \/ CFGChangedExcept \/ LiveChanged \/ Propagated
           \/ RedirectTrampoline \/ MDSSALost
  <2>1. \E S : setInvalid(S)
    BY <1>2 DEF CFGChanged, CFGChangedExcept, LiveChanged, Propagated,
       RedirectTrampoline, MDSSALost
  <2>2. bits' \subseteq bits /\ okobj' \subseteq okobj
    BY <2>1 DEF setInvalid
  <2> QED
    BY <1>1, <2>2, ChangeStep
<1>3. CASE GlobalRefined \/ Hoisted \/ RegionDone \/ IPADestroyed \/ DoMDSSA
  <2>1. bits' \subseteq bits /\ okobj' \subseteq okobj
    BY <1>3 DEF GlobalRefined, Hoisted, RegionDone, IPADestroyed, DoMDSSA
  <2> QED
    BY <1>1, <2>1, ChangeStep
<1>4. CASE Simplified
  <2>1. bits' \subseteq bits /\ okobj' \subseteq okobj \cup {"CFG"}
    BY <1>4 DEF Simplified
  <2>2. okobj' \cap ObjResults \subseteq okobj
    BY <2>1 DEF ObjResults
  <2> QED
    BY <1>1, <2>1, <2>2, ChangeStep
<1>5. CASE MDReferenced
  <2>1. "AA" \in bits /\ bits' = bits \cup {"MD_REF"} /\ okobj' \subseteq okobj
    BY <1>5 DEF MDReferenced
  <2> QED
    BY <1>1, <2>1, ChangeStep
<1> QED
  BY <1>2, <1>3, <1>4, <1>5 DEF Edit

-----------------------------------------------------------------------------
\* The pass manager implements the abstract cache: no pass can ever trust a
\* result that does not describe the program or that was computed from one
\* nobody could trust, and serving a request changes the program for nobody
\* (PassMgr::checkValidAndRecompute, OptCtx::setInvalidPass and the callers of
\* both), as long as the exceptions of CleanUse are avoided: a PRSSA that gave
\* up on a dense graph would be trusted without content.
THEOREM CacheRefines == ASSUME CleanUse PROVE Spec => KeepsPromise
<1>1. Init => Promise!Init
  BY DEF Init, Promise!Init, Trusted, Valid
<1>2. CacheInv /\ CacheInv' /\ [Next]_vars => [Promise!Next]_(Promise!cacheVars)
  <2> SUFFICES ASSUME CacheInv, CacheInv', [Next]_vars
               PROVE  Promise!Next \/ UNCHANGED Promise!cacheVars
    OBVIOUS
  <2>1. CASE UNCHANGED vars
    BY <2>1 DEF vars, Promise!cacheVars, Trusted, Valid
  <2>2. CASE Recompute
    BY <2>2, RecomputeStep DEF CleanUse
  <2>3. CASE Request \/ IPARequest
    BY <2>3, AskStep
  <2>4. CASE Edit
    BY <2>4, EditStep
  <2> QED
    BY <2>1, <2>2, <2>3, <2>4 DEF Next
<1> QED
  BY <1>1, <1>2, CacheCorrect, PTL DEF Spec, KeepsPromise, Promise!Spec
=============================================================================
