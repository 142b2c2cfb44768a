----------------------------- MODULE DCEProofs -----------------------------
(***************************************************************************)
(* For every number of blocks and every set of programs: the edges of the  *)
(* graph stay what the statements and their order in the text say, and no  *)
(* branch is left without its target, through all CFG optimizations and    *)
(* DCE. When the loops of the CFG optimizations settle, the control        *)
(* dependences that marking walks are between blocks of the graph.         *)
(***************************************************************************)
EXTENDS DCE, FiniteSetTheorems, WellFoundedInduction, TLAPS

-----------------------------------------------------------------------------
(* The next block in the text.                                             *)

\* A set of blocks has a first one: the intervals that end in it are well
\* founded by inclusion.
LEMMA Least == ASSUME NEW S \in SUBSET Nat, S # {}
               PROVE  \E m \in S : \A n \in S : m <= n
<1>. DEFINE T == {0 .. k : k \in S}
<1>1. T \subseteq FiniteSubsetsOf(Nat) /\ T # {}
  <2>1. \A k \in S : IsFiniteSet(0 .. k) /\ 0 .. k \in SUBSET Nat
    BY FS_Interval
  <2>. QED  BY <2>1 DEF FiniteSubsetsOf
<1>2. PICK t \in T : \A u \in T : <<u, t>> \notin StrictSubsetOrdering(Nat)
  <2>. HIDE DEF T
  <2>1. IsWellFoundedOn(StrictSubsetOrdering(Nat), FiniteSubsetsOf(Nat))
    BY FS_StrictSubsetOrderingWellFounded
  <2>. QED  BY <1>1, <2>1, WFMin
<1>3. PICK m \in S : t = 0 .. m
  OBVIOUS
<1>4. ASSUME NEW n \in S, n < m
      PROVE  FALSE
  <2>1. 0 .. n \subseteq 0 .. m /\ 0 .. n # 0 .. m
    <3>1. m \in 0 .. m /\ m \notin 0 .. n
      BY <1>4
    <3>. QED  BY <1>4, <3>1
  <2>2. 0 .. n \in SUBSET Nat /\ 0 .. m \in SUBSET Nat
    OBVIOUS
  <2>3. <<0 .. n, 0 .. m>> \in StrictSubsetOrdering(Nat)
    BY <2>1, <2>2 DEF StrictSubsetOrdering
  <2>. QED  BY <1>2, <1>3, <2>3
<1>. QED  BY <1>4

LEMMA NextInIs ==
    ASSUME NEW B \in SUBSET Block, NEW b \in Block
    PROVE  \/ NextIn(B, b) = NoBlock /\ \A c \in B : c <= b
           \/ /\ NextIn(B, b) \in B /\ NextIn(B, b) > b
              /\ \A d \in B : d > b => NextIn(B, b) <= d
<1>1. Block \subseteq Nat
  BY NAssumption DEF Block
<1>2. CASE \E c \in B : c > b
  <2>1. PICK m \in {c \in B : c > b} : \A n \in {c \in B : c > b} : m <= n
    BY <1>1, <1>2, Least
  <2>. QED  BY <1>2, <2>1 DEF NextIn
<1>3. CASE ~\E c \in B : c > b
  BY <1>1, <1>3 DEF NextIn
<1>. QED  BY <1>2, <1>3

\* Removing blocks other than the next one does not change what is next.
LEMMA NextKept ==
    ASSUME NEW B \in SUBSET Block, NEW C \in SUBSET B, NEW b \in Block,
           NextIn(B, b) \in C \/ NextIn(B, b) = NoBlock
    PROVE  NextIn(C, b) = NextIn(B, b)
<1>. DEFINE n == NextIn(B, b)
            r == NextIn(C, b)
<1>1. B \subseteq Nat \ {0} /\ b \in Nat
  BY NAssumption DEF Block
<1>2. \/ n = NoBlock /\ \A c \in B : c <= b
      \/ n \in B /\ n > b /\ \A d \in B : d > b => n <= d
  BY NextInIs
<1>3. \/ r = NoBlock /\ \A c \in C : c <= b
      \/ r \in C /\ r > b /\ \A d \in C : d > b => r <= d
  <2>1. C \in SUBSET Block
    OBVIOUS
  <2>. QED  BY <2>1, NextInIs
<1>. HIDE DEF n, r
<1>4. n \in C \/ n = NoBlock
  BY DEF n
<1>5. CASE n = NoBlock
  <2>1. \A c \in B : ~(c > b)
    BY <1>1, <1>2, <1>5 DEF NoBlock
  <2>2. r = NoBlock
    BY <1>1, <1>3, <2>1
  <2>. QED  BY <1>5, <2>2 DEF n, r
<1>6. CASE n \in C
  <2>1. n > b /\ \A d \in C : d > b => n <= d
    BY <1>1, <1>2, <1>6 DEF NoBlock
  <2>2. r \in C /\ r > b /\ r <= n
    BY <1>1, <1>3, <1>6, <2>1
  <2>3. n <= r
    BY <2>1, <2>2
  <2>4. r = n
    BY <1>1, <1>6, <2>2, <2>3
  <2>. QED  BY <2>4 DEF n, r
<1>. QED  BY <1>4, <1>5, <1>6

\* The block before a removed one goes on where that one went on.
LEMMA NextWithout ==
    ASSUME NEW B \in SUBSET Block, NEW b \in B, NEW p \in B \ {b}
    PROVE  NextIn(B \ {b}, p) = IF NextIn(B, p) = b THEN NextIn(B, b)
                                ELSE NextIn(B, p)
<1>. DEFINE m == NextIn(B, p)
            n == NextIn(B, b)
            r == NextIn(B \ {b}, p)
<1>1. B \subseteq Nat \ {0} /\ b \in Nat /\ p \in Nat
  BY NAssumption DEF Block
<1>2. \/ m = NoBlock /\ \A c \in B : c <= p
      \/ m \in B /\ m > p /\ \A d \in B : d > p => m <= d
  BY NextInIs
<1>3. \/ n = NoBlock /\ \A c \in B : c <= b
      \/ n \in B /\ n > b /\ \A d \in B : d > b => n <= d
  BY NextInIs
<1>4. \/ r = NoBlock /\ \A c \in B \ {b} : c <= p
      \/ r \in B \ {b} /\ r > p /\ \A d \in B \ {b} : d > p => r <= d
  BY NextInIs
<1>5. CASE m # b
  <2>1. m \in B \ {b} \/ m = NoBlock
    BY <1>2, <1>5 DEF m
  <2>. QED  BY <1>5, <2>1, NextKept DEF m
<1>6. CASE m = b /\ n = NoBlock
  <2>. HIDE DEF m, n, r
  <2>1. b > p
    BY <1>1, <1>2, <1>6 DEF NoBlock
  <2>2. \A c \in B \ {b} : ~(c > p)
    BY <1>1, <1>2, <1>3, <1>6, <2>1 DEF NoBlock
  <2>3. r = NoBlock
    BY <1>1, <1>4, <2>2
  <2>. QED  BY <1>6, <2>3 DEF m, n, r
<1>7. CASE m = b /\ n # NoBlock
  <2>. HIDE DEF m, n, r
  <2>1. b > p /\ n \in B /\ n > b
    BY <1>1, <1>2, <1>3, <1>7 DEF NoBlock
  <2>2. n \in B \ {b} /\ n > p
    BY <1>1, <2>1
  <2>3. r \in B \ {b} /\ r > p /\ r <= n
    BY <1>1, <1>4, <2>2
  <2>4. r > b
    BY <1>1, <1>2, <1>7, <2>1, <2>3 DEF NoBlock
  <2>5. n <= r
    BY <1>1, <1>3, <1>7, <2>3, <2>4
  <2>6. r = n
    BY <1>1, <2>1, <2>3, <2>5
  <2>. QED  BY <1>7, <2>6 DEF m, n, r
<1>. QED  BY <1>5, <1>6, <1>7 DEF m

-----------------------------------------------------------------------------
(* The graph, edge by edge.                                                *)
Leads(B, tm, p, q) ==
    \/ tm[p].op \in Branch /\ q = tm[p].to
    \/ tm[p].op \notin {"return", "goto"} /\ q = NextIn(B, p)
GraphOK(B, E, tm) ==
    /\ E \subseteq B \X B
    /\ \A p, q \in B : <<p, q>> \in E <=> Leads(B, tm, p, q)
BranchesOK(B, tm, lb) ==
    \A b \in B : tm[b].op \in Branch => tm[b].to \in B /\ lb[tm[b].to] > 0

\* The inductive invariant: what EdgesMatchCode and NoDanglingBranch say.
CodeInv ==
    /\ bbs \in SUBSET Block
    /\ Entry \in bbs
    /\ term \in [Block -> Term]
    /\ labels \in [Block -> Nat]
    /\ GraphOK(bbs, edges, term)
    /\ BranchesOK(bbs, term, labels)

LEMMA LeadsIsGoes ==
    ASSUME NEW B \in SUBSET Block, NEW tm \in [Block -> Term],
           NEW p \in B, NEW q \in B
    PROVE  q \in Goes(B, tm, p) <=> Leads(B, tm, p, q)
<1>1. q # NoBlock
  BY NAssumption DEF Block, NoBlock
<1>2. tm[p].op \in {"truebr", "falsebr", "goto", "switch", "none", "return"}
  BY DEF Term, Branch, CondBr
<1>. DEFINE next == NextIn(B, p)
<1>. HIDE DEF next
<1>3. Leads(B, tm, p, q) <=> \/ tm[p].op \in Branch /\ q = tm[p].to
                             \/ tm[p].op \notin {"return", "goto"} /\ q = next
  BY DEF Leads, next
<1>4. Goes(B, tm, p) = CASE tm[p].op = "return" -> {}
                         [] tm[p].op = "goto" -> {tm[p].to}
                         [] tm[p].op = "none" -> {next} \ {NoBlock}
                         [] OTHER -> {tm[p].to} \cup ({next} \ {NoBlock})
  BY DEF Goes, next
<1>. QED  BY <1>1, <1>2, <1>3, <1>4 DEF Branch, CondBr

LEMMA CodeInvImplies == CodeInv => EdgesMatchCode /\ NoDanglingBranch
<1>. SUFFICES ASSUME CodeInv PROVE EdgesMatchCode /\ NoDanglingBranch
  OBVIOUS
<1>1. \A p, q \in bbs : q \in Goes(bbs, term, p) <=> <<p, q>> \in edges
  BY LeadsIsGoes DEF CodeInv, GraphOK
<1>2. EdgesMatchCode
  BY <1>1 DEF CodeInv, GraphOK, EdgesMatchCode
<1>3. NoDanglingBranch
  BY DEF CodeInv, BranchesOK, NoDanglingBranch, IsBranch
<1>. QED  BY <1>2, <1>3

LEMMA LedToIs ==
    ASSUME NEW t \in Term, NEW b \in 0 .. N
    PROVE  LedTo(t, b) \in Term /\ LedTo(t, b).op = t.op /\ LedTo(t, b).to = b
BY DEF Term, LedTo

LEMMA InvertedIs ==
    ASSUME NEW t \in Term
    PROVE  Inverted(t) \in Term /\ Inverted(t).op \in CondBr
BY DEF Term, Inverted, Branch, CondBr

-----------------------------------------------------------------------------
(* One lemma per optimization.                                             *)

LEMMA ReachedClosed ==
    ASSUME CodeInv
    PROVE  /\ Entry \in Reached
           /\ Reached \subseteq bbs
           /\ \A p \in Reached, q \in bbs : <<p, q>> \in edges => q \in Reached
<1>1. Entry \in Reached /\ Reached \subseteq bbs
  BY DEF Reached, Closed, CodeInv
<1>2. ASSUME NEW p \in Reached, NEW q \in bbs, <<p, q>> \in edges
      PROVE  q \in Reached
  <2>1. ASSUME NEW S \in SUBSET bbs, Closed(S)
        PROVE  q \in S
    <3>1. p \in S
      BY <2>1 DEF Reached
    <3>. QED  BY <1>2, <2>1, <3>1 DEF Closed
  <2>. QED  BY <2>1 DEF Reached
<1>. QED  BY <1>1, <1>2

LEMMA UnreachKeeps == CodeInv /\ removeUnreachBB => CodeInv'
<1>. SUFFICES ASSUME CodeInv, removeUnreachBB PROVE CodeInv'
  OBVIOUS
<1>1. /\ bbs' = Reached /\ edges' = Within(edges, Reached)
      /\ term' = term /\ labels' = labels
  BY DEF removeUnreachBB
<1>2. Reached \in SUBSET Block /\ bbs \in SUBSET Block /\ Reached \in SUBSET bbs
  BY ReachedClosed DEF CodeInv
<1>3. ASSUME NEW p \in Reached, NEW q \in Reached
      PROVE  <<p, q>> \in Within(edges, Reached) <=> Leads(Reached, term, p, q)
  <2>1. p \in bbs /\ q \in bbs /\ p \in Block
    BY <1>2
  <2>2. <<p, q>> \in Within(edges, Reached) <=> Leads(bbs, term, p, q)
    BY <2>1, <1>3 DEF Within, CodeInv, GraphOK
  <2>3. ASSUME term[p].op \notin {"return", "goto"}
        PROVE  NextIn(Reached, p) = NextIn(bbs, p)
    <3>1. NextIn(bbs, p) \in bbs => NextIn(bbs, p) \in Reached
      BY <2>1, <2>3, <1>3, ReachedClosed DEF CodeInv, GraphOK, Leads
    <3>2. NextIn(bbs, p) \in bbs \/ NextIn(bbs, p) = NoBlock
      BY <1>2, <2>1, NextInIs
    <3>. QED  BY <1>2, <2>1, <3>1, <3>2, NextKept
  <2>. QED  BY <2>2, <2>3 DEF Leads
<1>4. GraphOK(bbs', edges', term')
  BY <1>1, <1>3 DEF GraphOK, Within, CodeInv
<1>5. BranchesOK(bbs', term', labels')
  <2>1. ASSUME NEW b \in Reached, term[b].op \in Branch
        PROVE  term[b].to \in Reached /\ labels[term[b].to] > 0
    <3>1. b \in bbs /\ term[b].to \in bbs /\ labels[term[b].to] > 0
      BY <1>2, <2>1 DEF CodeInv, BranchesOK
    <3>2. <<b, term[b].to>> \in edges
      BY <2>1, <3>1 DEF CodeInv, GraphOK, Leads
    <3>. QED  BY <2>1, <3>1, <3>2, ReachedClosed
  <2>. QED  BY <1>1, <2>1 DEF BranchesOK
<1>. QED  BY <1>1, <1>2, <1>4, <1>5, ReachedClosed DEF CodeInv

LEMMA LabelKeeps == CodeInv /\ removeRedundantLabel => CodeInv'
<1>. SUFFICES ASSUME CodeInv, removeRedundantLabel PROVE CodeInv'
  OBVIOUS
<1>1. /\ bbs' = bbs /\ term' = term /\ edges' = edges
      /\ labels' = [b \in Block |-> IF b \in Targets THEN 1 ELSE 0]
  BY DEF removeRedundantLabel
<1>2. BranchesOK(bbs, term, labels')
  <2>1. ASSUME NEW b \in bbs, term[b].op \in Branch
        PROVE  term[b].to \in bbs /\ labels'[term[b].to] > 0
    <3>1. term[b].to \in bbs /\ term[b].to \in Block
      BY <2>1 DEF CodeInv, BranchesOK
    <3>2. term[b].to \in Targets
      BY <2>1 DEF Targets, IsBranch
    <3>. QED  BY <1>1, <3>1, <3>2
  <2>. QED  BY <2>1 DEF BranchesOK
<1>3. labels' \in [Block -> Nat]
  BY <1>1
<1>. QED  BY <1>1, <1>2, <1>3 DEF CodeInv

LEMMA EmptyBBKeeps ==
    ASSUME CodeInv, NEW b \in RemovableEmpty, removeEmptyBBHelper(b)
    PROVE  CodeInv'
<1>. DEFINE n == NextIn(bbs, b)
            B == bbs \ {b}
<1>1. /\ bbs' = B
      /\ edges' = Without(edges, b) \cup
                     (IF n = NoBlock THEN {} ELSE {<<p, n>> : p \in Preds(b)})
      /\ labels' = IF n = NoBlock THEN labels
                   ELSE [labels EXCEPT ![n] = @ + labels[b], ![b] = 0]
  BY DEF removeEmptyBBHelper, NextOf
<1>2. term' = [c \in Block |-> IF IsBranch(c) /\ term[c].to = b
                              THEN LedTo(term[c], n) ELSE term[c]]
  BY DEF removeEmptyBBHelper, NextOf
<1>3. /\ b \in bbs /\ b # Entry /\ term[b].op = "none"
      /\ n = NoBlock => labels[b] = 0
  BY DEF RemovableEmpty, isEmptyBB, HasNextBB, NextOf
<1>4. bbs \in SUBSET Block /\ b \in Block /\ Block \subseteq Nat \ {0}
  BY <1>3, NAssumption DEF CodeInv, Block
<1>5. n = NoBlock \/ (n \in B /\ n > b)
  BY <1>3, <1>4, NextInIs
<1>6. b # n /\ NoBlock \notin bbs
  BY <1>4, <1>5 DEF NoBlock
<1>7. <<b, b>> \notin edges
  <2>1. ~Leads(bbs, term, b, b)
    BY <1>3, <1>6 DEF Leads, Branch, CondBr
  <2>. QED  BY <1>3, <2>1 DEF CodeInv, GraphOK
<1>. HIDE DEF n
<1>8. \A p : p \in Preds(b) <=> <<p, b>> \in edges
  BY DEF Preds, CodeInv, GraphOK
<1>9. n # NoBlock => n \in B
  BY <1>5
<1>10. ASSUME NEW c \in Block
      PROVE  /\ term'[c] \in Term /\ term'[c].op = term[c].op
             /\ term[c].op \in Branch => term'[c].to =
                    IF term[c].to = b THEN n ELSE term[c].to
  <2>1. term[c] \in Term /\ n \in 0 .. N
    <3>1. n \in Block \/ n = 0
      BY <1>4, <1>5 DEF NoBlock
    <3>. QED  BY <3>1, NAssumption DEF CodeInv, Block
  <2>2. CASE IsBranch(c) /\ term[c].to = b
    <3>1. term'[c] = LedTo(term[c], n)
      BY <1>2, <2>2
    <3>. QED  BY <2>1, <2>2, <3>1, LedToIs
  <2>3. CASE ~(IsBranch(c) /\ term[c].to = b)
    BY <1>2, <2>1, <2>3 DEF IsBranch
  <2>. QED  BY <2>2, <2>3
<1>11. edges' \subseteq B \X B
  <2>1. Without(edges, b) \subseteq B \X B
    BY DEF Without, CodeInv, GraphOK
  <2>2. ASSUME NEW p \in Preds(b) PROVE p \in B
    <3>1. <<p, b>> \in edges /\ edges \subseteq bbs \X bbs
      BY <1>8, <2>2 DEF CodeInv, GraphOK
    <3>. QED  BY <1>7, <3>1
  <2>. QED  BY <1>1, <1>9, <2>1, <2>2
<1>12. ASSUME NEW p \in B, NEW q \in B
       PROVE  <<p, q>> \in edges' <=> Leads(B, term', p, q)
  <2>1. p \in Block /\ p \in bbs /\ q \in bbs /\ q # NoBlock
    BY <1>4, <1>6
  <2>2. <<p, q>> \in edges' <=> \/ <<p, q>> \in edges
                                \/ q = n /\ <<p, b>> \in edges
    BY <1>1, <1>8, <2>1, <1>12 DEF Without
  <2>3. <<p, q>> \in edges <=> Leads(bbs, term, p, q)
    BY <2>1 DEF CodeInv, GraphOK
  <2>4. <<p, b>> \in edges <=> Leads(bbs, term, p, b)
    BY <1>3, <2>1 DEF CodeInv, GraphOK
  <2>5. NextIn(B, p) = IF NextIn(bbs, p) = b THEN n ELSE NextIn(bbs, p)
    BY <1>3, <1>4, NextWithout DEF n
  <2>. DEFINE m == NextIn(bbs, p)
              r == NextIn(B, p)
  <2>. HIDE DEF m, r
  <2>6. r = IF m = b THEN n ELSE m
    BY <2>5 DEF m, r
  <2>7. Leads(bbs, term, p, q) <=> \/ term[p].op \in Branch /\ q = term[p].to
                                   \/ term[p].op \notin {"return", "goto"} /\ q = m
    BY DEF Leads, m
  <2>8. Leads(bbs, term, p, b) <=> \/ term[p].op \in Branch /\ b = term[p].to
                                   \/ term[p].op \notin {"return", "goto"} /\ b = m
    BY DEF Leads, m
  <2>9. Leads(B, term', p, q) <=> \/ term'[p].op \in Branch /\ q = term'[p].to
                                  \/ term'[p].op \notin {"return", "goto"} /\ q = r
    BY DEF Leads, r
  <2>10. q # b
    BY <1>12
  <2>. QED  BY <1>10, <2>1, <2>2, <2>3, <2>4, <2>6, <2>7, <2>8, <2>9, <2>10
<1>13. ASSUME NEW c \in B, term'[c].op \in Branch
       PROVE  term'[c].to \in B /\ labels'[term'[c].to] > 0
  <2>1. /\ c \in Block /\ term[c].op \in Branch
        /\ term[c].to \in bbs /\ labels[term[c].to] > 0
    BY <1>4, <1>10, <1>13 DEF CodeInv, BranchesOK
  <2>2. labels \in [Block -> Nat] /\ (n # NoBlock => n \in Block)
    BY <1>4, <1>9 DEF CodeInv
  <2>3. CASE term[c].to = b
    <3>1. n # NoBlock /\ n \in B /\ term'[c].to = n
      BY <1>3, <1>9, <1>10, <2>1, <2>2, <2>3, <1>4
    <3>2. labels'[n] = labels[n] + labels[b]
      <4>1. labels' = [labels EXCEPT ![n] = @ + labels[b], ![b] = 0]
        BY <1>1, <3>1
      <4>. QED  BY <1>4, <1>6, <2>2, <3>1, <4>1
    <3>3. labels[n] \in Nat /\ labels[b] \in Nat
      BY <1>4, <2>2, <3>1
    <3>. QED  BY <2>1, <2>3, <3>1, <3>2, <3>3
  <2>4. CASE term[c].to # b
    <3>1. term'[c].to = term[c].to /\ term[c].to \in B /\ term[c].to \in Block
      BY <1>4, <1>10, <2>1, <2>4
    <3>2. CASE n = NoBlock
      BY <1>1, <2>1, <3>1, <3>2
    <3>3. CASE n # NoBlock
      <4>1. labels' = [labels EXCEPT ![n] = @ + labels[b], ![b] = 0]
        BY <1>1, <3>3
      <4>2. CASE term[c].to = n
        <5>1. labels'[n] = labels[n] + labels[b]
          BY <1>4, <1>6, <2>2, <3>3, <4>1
        <5>2. labels[n] \in Nat /\ labels[b] \in Nat
          BY <1>4, <2>2, <3>3
        <5>. QED  BY <2>1, <3>1, <4>2, <5>1, <5>2
      <4>3. CASE term[c].to # n
        <5>1. labels'[term[c].to] = labels[term[c].to]
          BY <2>2, <2>4, <3>1, <4>1, <4>3
        <5>. QED  BY <2>1, <3>1, <5>1
      <4>. QED  BY <4>2, <4>3
    <3>. QED  BY <3>2, <3>3
  <2>. QED  BY <2>3, <2>4
<1>14. labels' \in [Block -> Nat]
  <2>1. labels \in [Block -> Nat]
    BY DEF CodeInv
  <2>. QED  BY <1>1, <1>4, <2>1
<1>15. term' \in [Block -> Term]
  BY <1>2, <1>10
<1>16. GraphOK(bbs', edges', term') /\ BranchesOK(bbs', term', labels')
  BY <1>1, <1>11, <1>12, <1>13 DEF GraphOK, BranchesOK
<1>. QED  BY <1>1, <1>3, <1>14, <1>15, <1>16 DEF CodeInv

LEMMA PlainAndGoto ==
    /\ Plain \in Term /\ Plain.op = "none"
    /\ \A b \in 0 .. N : Goto(b) \in Term /\ Goto(b).op = "goto" /\ Goto(b).to = b
BY NAssumption DEF Plain, Goto, Term, Branch, NoBlock

LEMMA RedundantBranchKeeps == CodeInv /\ removeRedundantBranch => CodeInv'
<1>. SUFFICES ASSUME CodeInv, removeRedundantBranch PROVE CodeInv'
  OBVIOUS
<1>. DEFINE next == {b \in bbs : ToNext(b)}
            taken == {b \in bbs \ next : AlwaysTaken(term[b])}
            never == {b \in bbs \ next : NeverTaken(term[b])}
            cut == {<<b, NextOf(b)>> : b \in taken}
                      \cup {e \in edges : e[1] \in never /\ e[2] # NextOf(e[1])}
<1>1. /\ bbs' = bbs /\ labels' = labels /\ edges' = edges \ cut
      /\ term' = [b \in Block |-> CASE b \in next \cup never -> Plain
                                  [] b \in taken -> Goto(term[b].to)
                                  [] OTHER -> term[b]]
  BY DEF removeRedundantBranch
<1>2. bbs \in SUBSET Block /\ next \subseteq bbs /\ taken \subseteq bbs \ next
      /\ never \subseteq bbs \ next /\ Block \subseteq 0 .. N
  BY DEF CodeInv, Block
<1>3. taken \cap never = {}
  BY DEF AlwaysTaken, NeverTaken
<1>4. \A b \in taken \cup never : term[b].op \in CondBr /\ b \in bbs /\ ~ToNext(b)
  BY DEF AlwaysTaken, NeverTaken, CondBr
<1>5. \A b \in next : /\ b \in bbs /\ ToNext(b)
                      /\ term[b].op \in CondBr \/ term[b].op = "goto"
  BY DEF ToNext
<1>6. \A p, q : \/ <<p, q>> \in cut
               <=> \/ p \in taken /\ q = NextOf(p)
                   \/ <<p, q>> \in edges /\ p \in never /\ q # NextOf(p)
  OBVIOUS
<1>7. \A b \in Block : /\ b \in next \cup never => term'[b] = Plain
                       /\ b \in taken => term'[b] = Goto(term[b].to)
                       /\ b \notin next \cup taken \cup never => term'[b] = term[b]
  BY <1>1, <1>2, <1>3
<1>. HIDE DEF next, taken, never, cut
<1>8. ASSUME NEW b \in bbs
      PROVE  /\ b \in Block /\ term[b] \in Term
             /\ term[b].op \in Branch => term[b].to \in bbs /\ term[b].to \in 0 .. N
  BY <1>2 DEF CodeInv, BranchesOK
<1>9. ASSUME NEW b \in Block PROVE term'[b] \in Term
  <2>1. CASE b \in taken
    BY <1>4, <1>7, <1>8, <2>1, PlainAndGoto DEF Branch
  <2>2. CASE b \notin taken
    BY <1>7, <2>2, PlainAndGoto DEF CodeInv
  <2>. QED  BY <2>1, <2>2
<1>10. ASSUME NEW p \in bbs, NEW q \in bbs
       PROVE  <<p, q>> \in edges' <=> Leads(bbs, term', p, q)
  <2>1. <<p, q>> \in edges <=> \/ term[p].op \in Branch /\ q = term[p].to
                               \/ term[p].op \notin {"return", "goto"} /\ q = NextOf(p)
    BY DEF CodeInv, GraphOK, Leads, NextOf
  <2>2. Leads(bbs, term', p, q) <=>
            \/ term'[p].op \in Branch /\ q = term'[p].to
            \/ term'[p].op \notin {"return", "goto"} /\ q = NextOf(p)
    BY DEF Leads, NextOf
  <2>3. <<p, q>> \in edges' <=> /\ <<p, q>> \in edges
                                /\ ~(p \in taken /\ q = NextOf(p))
                                /\ ~(p \in never /\ q # NextOf(p))
    BY <1>1, <1>6
  <2>4. p \in Block
    BY <1>8
  <2>5. CASE p \in next
    <3>1. term'[p].op = "none" /\ p \notin taken /\ p \notin never
      BY <1>2, <1>7, <2>4, <2>5, PlainAndGoto
    <3>2. <<p, q>> \in edges <=> q = NextOf(p)
      <4>1. CASE term[p].op = "goto" /\ term[p].to = NextOf(p)
        BY <2>1, <4>1 DEF Branch
      <4>2. CASE Succs(p) = {NextOf(p)}
        <5>1. <<p, q>> \in edges <=> q \in Succs(p)
          BY DEF Succs, CodeInv, GraphOK
        <5>. QED  BY <4>2, <5>1
      <4>. QED  BY <1>5, <2>5, <4>1, <4>2 DEF ToNext
    <3>. QED  BY <2>2, <2>3, <3>1, <3>2 DEF Branch, CondBr
  <2>6. CASE p \in taken
    <3>1. /\ term'[p].op = "goto" /\ term'[p].to = term[p].to
          /\ term[p].op \in CondBr /\ p \notin never
      BY <1>3, <1>4, <1>7, <1>8, <2>4, <2>6, PlainAndGoto DEF Branch
    <3>2. term[p].to # NextOf(p)
      <4>1. SUFFICES ASSUME term[p].to = NextOf(p) PROVE FALSE
        OBVIOUS
      <4>2. NextOf(p) \in bbs /\ NextOf(p) # NoBlock
        BY <1>2, <1>8, <3>1, <4>1, NAssumption DEF Branch, NoBlock, Block
      <4>3. Succs(p) = {NextOf(p)}
        <5>1. \A s \in bbs : <<p, s>> \in edges <=> s = NextOf(p)
          BY <3>1, <4>1, <4>2 DEF CodeInv, GraphOK, Leads, NextOf, Branch, CondBr
        <5>2. \A s : s \in Succs(p) <=> <<p, s>> \in edges
          BY DEF Succs, CodeInv, GraphOK
        <5>3. \A s : <<p, s>> \in edges => s \in bbs
          BY DEF CodeInv, GraphOK
        <5>4. \A s : s \in Succs(p) <=> s = NextOf(p)
          BY <4>2, <5>1, <5>2, <5>3
        <5>. QED  BY <5>4
      <4>. QED  BY <1>4, <2>6, <3>1, <4>2, <4>3 DEF ToNext
    <3>. QED  BY <2>1, <2>2, <2>3, <2>6, <3>1, <3>2 DEF Branch, CondBr
  <2>7. CASE p \in never
    <3>1. term'[p].op = "none" /\ p \notin taken /\ term[p].op \in CondBr
      BY <1>3, <1>4, <1>7, <2>4, <2>7, PlainAndGoto
    <3>. QED  BY <2>1, <2>2, <2>3, <2>7, <3>1 DEF Branch, CondBr
  <2>8. CASE p \notin next \cup taken \cup never
    <3>1. term'[p] = term[p]
      BY <1>7, <2>4, <2>8
    <3>. QED  BY <2>1, <2>2, <2>3, <2>8, <3>1
  <2>. QED  BY <2>5, <2>6, <2>7, <2>8
<1>11. BranchesOK(bbs, term', labels)
  <2>1. ASSUME NEW b \in bbs, term'[b].op \in Branch
        PROVE  term[b].op \in Branch /\ term'[b].to = term[b].to
    <3>1. b \notin next \cup never
      BY <1>7, <1>8, <2>1, PlainAndGoto DEF Branch, CondBr
    <3>2. CASE b \in taken
      BY <1>4, <1>7, <1>8, <3>2, PlainAndGoto DEF Branch
    <3>3. CASE b \notin taken
      BY <1>7, <1>8, <2>1, <3>1, <3>3
    <3>. QED  BY <3>2, <3>3
  <2>. QED  BY <2>1 DEF BranchesOK, CodeInv
<1>12. GraphOK(bbs, edges', term')
  BY <1>1, <1>10 DEF GraphOK, CodeInv
<1>13. term' \in [Block -> Term]
  BY <1>1, <1>9
<1>. QED  BY <1>1, <1>11, <1>12, <1>13 DEF CodeInv

LEMMA TrampolinEdgeCase1Keeps ==
    ASSUME CodeInv, NEW b \in PassedBy, removeTrampolinEdgeCase1(b)
    PROVE  CodeInv'
<1>1. /\ bbs' = bbs /\ edges' = edges /\ labels' = labels
      /\ term' = [term EXCEPT ![b] = Plain]
      /\ term[b].to = NextOf(b)
  BY DEF removeTrampolinEdgeCase1, Case1
<1>2. b \in bbs /\ b \in Block /\ term[b].op = "goto" /\ term \in [Block -> Term]
  BY DEF PassedBy, IsTrampoline, CodeInv
<1>3. /\ term' \in [Block -> Term]
      /\ term'[b] = Plain
      /\ \A p \in Block \ {b} : term'[p] = term[p]
  BY <1>1, <1>2, PlainAndGoto
<1>4. ASSUME NEW p \in bbs, NEW q \in bbs
      PROVE  <<p, q>> \in edges' <=> Leads(bbs, term', p, q)
  <2>1. <<p, q>> \in edges <=> Leads(bbs, term, p, q)
    BY DEF CodeInv, GraphOK
  <2>2. CASE p = b
    BY <1>1, <1>2, <1>3, <2>1, <2>2, PlainAndGoto DEF Leads, NextOf, Branch, CondBr
  <2>3. CASE p # b
    BY <1>1, <1>3, <2>1, <2>3 DEF Leads, CodeInv
  <2>. QED  BY <2>2, <2>3
<1>5. BranchesOK(bbs, term', labels)
  <2>1. ASSUME NEW p \in bbs, term'[p].op \in Branch PROVE term'[p] = term[p]
    BY <1>3, <2>1, PlainAndGoto DEF Branch, CondBr, CodeInv
  <2>. QED  BY <2>1 DEF CodeInv, BranchesOK
<1>. QED  BY <1>1, <1>3, <1>4, <1>5 DEF CodeInv, GraphOK

LEMMA TrampolinEdgeCase2Keeps ==
    ASSUME CodeInv, NEW b \in PassedBy, removeTrampolinEdgeCase2(b)
    PROVE  CodeInv'
<1>. DEFINE s == term[b].to
            ps == Redirectable(b)
            conds == {p \in ps : term[p].op \in CondBr}
            old == {<<p, b>> : p \in ps}
            new == {<<p, s>> : p \in ps}
<1>1. bbs' = bbs /\ labels' = labels
  BY DEF removeTrampolinEdgeCase2
<1>2. term' = [p \in Block |-> CASE p \in conds -> LedTo(term[p], s)
                              [] p \in ps \ conds -> Goto(s)
                              [] OTHER -> term[p]]
  BY DEF removeTrampolinEdgeCase2
<1>3. edges' = (edges \ old) \cup new
  BY DEF removeTrampolinEdgeCase2
<1>4. /\ b \in bbs /\ term[b].op = "goto" /\ term \in [Block -> Term]
      /\ bbs \subseteq Block /\ Block \subseteq 0 .. N
  BY DEF PassedBy, IsTrampoline, CodeInv, Block
<1>5. s \in bbs /\ labels[s] > 0
  BY <1>4 DEF CodeInv, BranchesOK, Branch
<1>6. ASSUME NEW p \in ps
      PROVE  /\ p \in bbs /\ <<p, b>> \in edges
             /\ FallsInto(p) \/ JumpsTo(p) \/ BranchesTo(p, b)
  <2>1. p \in Preds(b) /\ (FallsInto(p) \/ JumpsTo(p) \/ BranchesTo(p, b))
    BY DEF Redirectable
  <2>. QED  BY <2>1 DEF Preds, CodeInv, GraphOK
<1>7. \A p \in Block : /\ p \in conds => term'[p] = LedTo(term[p], s)
                       /\ p \in ps \ conds => term'[p] = Goto(s)
                       /\ p \notin ps => term'[p] = term[p]
  BY <1>2
<1>8. ps \subseteq bbs
  BY <1>6
<1>9. \A p \in conds : p \in ps /\ term[p].op \in CondBr
  OBVIOUS
<1>10. \A p \in ps \ conds : term[p].op \notin CondBr
  OBVIOUS
<1>. HIDE DEF s, ps, conds
<1>11. \A p, q : <<p, q>> \in old <=> p \in ps /\ q = b
  BY DEF old
<1>12. \A p, q : <<p, q>> \in new <=> p \in ps /\ q = s
  BY DEF new
<1>13. new \subseteq bbs \X bbs
  BY <1>5, <1>8 DEF new
<1>. HIDE DEF old, new
<1>14. ASSUME NEW p, NEW q
      PROVE  <<p, q>> \in edges' <=> \/ <<p, q>> \in edges /\ ~(p \in ps /\ q = b)
                                     \/ p \in ps /\ q = s
  BY <1>3, <1>11, <1>12
<1>15. edges' \subseteq bbs \X bbs
  BY <1>3, <1>13 DEF CodeInv, GraphOK
<1>16. ASSUME NEW p \in conds
       PROVE  /\ term'[p] \in Term /\ term'[p].op = term[p].op
              /\ term'[p].to = s
  <2>1. term[p] \in Term /\ s \in 0 .. N /\ p \in Block
    BY <1>4, <1>5, <1>6, <1>9
  <2>. QED  BY <1>7, <2>1, LedToIs
<1>17. ASSUME NEW p \in ps \ conds
       PROVE  term'[p] \in Term /\ term'[p].op = "goto" /\ term'[p].to = s
  <2>1. s \in 0 .. N /\ p \in Block
    BY <1>4, <1>5, <1>6
  <2>. QED  BY <1>7, <2>1, PlainAndGoto
<1>18. term' \in [Block -> Term]
  <2>1. \A p \in Block : term'[p] \in Term
    BY <1>4, <1>7, <1>16, <1>17
  <2>. QED  BY <1>2, <2>1
<1>19. ASSUME NEW p \in bbs, NEW q \in bbs
       PROVE  <<p, q>> \in edges' <=> Leads(bbs, term', p, q)
  <2>1. <<p, q>> \in edges <=> \/ term[p].op \in Branch /\ q = term[p].to
                               \/ term[p].op \notin {"return", "goto"} /\ q = NextOf(p)
    BY DEF CodeInv, GraphOK, Leads, NextOf
  <2>2. <<p, b>> \in edges <=> \/ term[p].op \in Branch /\ b = term[p].to
                               \/ term[p].op \notin {"return", "goto"} /\ b = NextOf(p)
    BY <1>4 DEF CodeInv, GraphOK, Leads, NextOf
  <2>3. Leads(bbs, term', p, q) <=>
            \/ term'[p].op \in Branch /\ q = term'[p].to
            \/ term'[p].op \notin {"return", "goto"} /\ q = NextOf(p)
    BY DEF Leads, NextOf
  <2>4. <<p, q>> \in edges' <=> \/ <<p, q>> \in edges /\ ~(p \in ps /\ q = b)
                                \/ p \in ps /\ q = s
    BY <1>14
  <2>5. CASE p \notin ps
    <3>1. term'[p] = term[p]
      BY <1>4, <1>7, <2>5
    <3>. QED  BY <2>1, <2>3, <2>4, <2>5, <3>1
  <2>6. CASE p \in conds
    <3>1. /\ term[p].op \in CondBr /\ term'[p].op \in CondBr /\ term'[p].to = s
          /\ p \in ps
      BY <1>9, <1>16, <2>6
    <3>2. NextOf(p) # b
      BY <1>6, <3>1 DEF FallsInto, JumpsTo, BranchesTo, CondBr
    <3>3. term[p].to = b
      BY <1>6, <2>2, <3>1, <3>2
    <3>. QED  BY <2>1, <2>3, <2>4, <3>1, <3>2, <3>3 DEF Branch, CondBr
  <2>7. CASE p \in ps \ conds
    <3>1. term'[p].op = "goto" /\ term'[p].to = s
      BY <1>17, <2>7
    <3>2. term[p].op = "none" \/ term[p].op = "goto"
      BY <1>6, <1>10, <2>7 DEF FallsInto, JumpsTo, BranchesTo
    <3>3. <<p, b>> \in edges
      BY <1>6, <2>7
    <3>4. <<p, q>> \in edges <=> q = b
      BY <2>1, <2>2, <3>2, <3>3 DEF Branch, CondBr
    <3>. QED  BY <2>3, <2>4, <2>7, <3>1, <3>4 DEF Branch
  <2>. QED  BY <2>5, <2>6, <2>7
<1>20. BranchesOK(bbs, term', labels)
  <2>1. ASSUME NEW p \in bbs, term'[p].op \in Branch
        PROVE  term'[p].to \in bbs /\ labels[term'[p].to] > 0
    <3>1. CASE p \in ps
      BY <1>5, <1>16, <1>17, <3>1
    <3>2. CASE p \notin ps
      BY <1>4, <1>7, <2>1, <3>2 DEF CodeInv, BranchesOK
    <3>. QED  BY <3>1, <3>2
  <2>. QED  BY <2>1 DEF BranchesOK
<1>21. GraphOK(bbs, edges', term')
  BY <1>15, <1>19 DEF GraphOK
<1>. QED  BY <1>1, <1>18, <1>20, <1>21 DEF CodeInv

LEMMA TrampolinBranchKeeps ==
    ASSUME CodeInv, NEW b \in BranchesOver, reviseTrampolinBranchEdge(b)
    PROVE  CodeInv'
<1>. DEFINE n == NextOf(b)
            nn == NextOf(n)
            tgt == term[n].to
<1>1. bbs' = bbs /\ labels' = labels
  BY DEF reviseTrampolinBranchEdge
<1>2. term' = [term EXCEPT ![b] = LedTo(Inverted(@), tgt), ![n] = Plain]
  BY DEF reviseTrampolinBranchEdge
<1>3. edges' = IF tgt = nn THEN edges
               ELSE (((edges \ {<<n, tgt>>}) \cup {<<b, tgt>>})
                        \ {<<b, nn>>}) \cup {<<n, nn>>}
  BY DEF reviseTrampolinBranchEdge
<1>4. /\ b \in bbs /\ term[b].op \in CondBr /\ term[b].to = nn
      /\ n # NoBlock /\ nn # NoBlock /\ term[n].op = "goto"
      /\ term \in [Block -> Term] /\ bbs \subseteq Block /\ Block \subseteq 0 .. N
  BY DEF BranchesOver, CodeInv, Block
<1>5. n \in bbs /\ n > b
  BY <1>4, NextInIs DEF NextOf, CodeInv
<1>6. nn \in bbs /\ nn > n
  BY <1>4, <1>5, NextInIs DEF NextOf, CodeInv
<1>7. b # n /\ b # nn /\ n # nn
  <2>. HIDE DEF n, nn
  <2>1. b \in 0 .. N /\ n \in 0 .. N /\ nn \in 0 .. N
    BY <1>4, <1>5, <1>6
  <2>. QED  BY <1>5, <1>6, <2>1
<1>8. tgt \in bbs /\ labels[tgt] > 0
  BY <1>4, <1>5 DEF CodeInv, BranchesOK, Branch
<1>9. \A q \in bbs : <<b, q>> \in edges <=> q = nn \/ q = n
  BY <1>4 DEF CodeInv, GraphOK, Leads, NextOf, Branch, CondBr
<1>10. \A q \in bbs : <<n, q>> \in edges <=> q = tgt
  BY <1>4, <1>5 DEF CodeInv, GraphOK, Leads, Branch
<1>11. n = NextIn(bbs, b) /\ nn = NextIn(bbs, n)
  BY DEF NextOf
<1>. HIDE DEF n, nn, tgt
<1>12. /\ term'[n] = Plain /\ term'[b] = LedTo(Inverted(term[b]), tgt)
       /\ \A p \in Block \ {b, n} : term'[p] = term[p]
  BY <1>2, <1>4, <1>5, <1>7
<1>13. /\ term'[b] \in Term /\ term'[b].op \in CondBr /\ term'[b].to = tgt
  <2>1. term[b] \in Term /\ tgt \in 0 .. N
    BY <1>4, <1>8
  <2>2. Inverted(term[b]) \in Term /\ Inverted(term[b]).op \in CondBr
    BY <2>1, InvertedIs
  <2>. QED  BY <1>12, <2>1, <2>2, LedToIs
<1>14. term' \in [Block -> Term]
  <2>1. \A p \in Block : term'[p] \in Term
    BY <1>4, <1>12, <1>13, PlainAndGoto
  <2>2. term' = [p \in Block |-> term'[p]]
    BY <1>2, <1>4
  <2>. QED  BY <2>1, <2>2
<1>15. edges' \subseteq bbs \X bbs
  BY <1>3, <1>4, <1>5, <1>6, <1>8 DEF CodeInv, GraphOK
<1>16. ASSUME NEW p \in bbs, NEW q \in bbs
       PROVE  <<p, q>> \in edges' <=> Leads(bbs, term', p, q)
  <2>1. CASE p = b
    <3>1. Leads(bbs, term', p, q) <=> q = tgt \/ q = n
      BY <1>11, <1>13, <2>1 DEF Leads, Branch, CondBr
    <3>2. <<b, q>> \in edges' <=> q = tgt \/ q = n
      BY <1>3, <1>7, <1>9
    <3>. QED  BY <2>1, <3>1, <3>2
  <2>2. CASE p = n
    <3>1. Leads(bbs, term', p, q) <=> q = nn
      BY <1>11, <1>12, <2>2, PlainAndGoto DEF Leads, Branch, CondBr
    <3>2. <<n, q>> \in edges' <=> q = nn
      BY <1>3, <1>7, <1>10
    <3>. QED  BY <2>2, <3>1, <3>2
  <2>3. CASE p # b /\ p # n
    <3>1. <<p, q>> \in edges' <=> <<p, q>> \in edges
      BY <1>3, <2>3
    <3>2. term'[p] = term[p]
      BY <1>4, <1>12, <2>3
    <3>. QED  BY <3>1, <3>2 DEF CodeInv, GraphOK, Leads
  <2>. QED  BY <2>1, <2>2, <2>3
<1>17. BranchesOK(bbs, term', labels)
  <2>1. ASSUME NEW p \in bbs, term'[p].op \in Branch
        PROVE  term'[p].to \in bbs /\ labels[term'[p].to] > 0
    <3>1. p # n
      BY <1>12, <2>1, PlainAndGoto DEF Branch, CondBr
    <3>2. CASE p = b
      BY <1>8, <1>13, <3>2
    <3>3. CASE p # b
      BY <1>4, <1>12, <2>1, <3>1, <3>3 DEF CodeInv, BranchesOK
    <3>. QED  BY <3>2, <3>3
  <2>. QED  BY <2>1 DEF BranchesOK
<1>18. GraphOK(bbs, edges', term')
  BY <1>15, <1>16 DEF GraphOK
<1>. QED  BY <1>1, <1>14, <1>17, <1>18 DEF CodeInv

LEMMA IneffectKeeps == CodeInv /\ removeIneffectIR => CodeInv'
<1>. SUFFICES ASSUME CodeInv, removeIneffectIR PROVE CodeInv'
  OBVIOUS
<1>. DEFINE cut == {b \in bbs : IsBranch(b) /\ Last(b) \notin eff}
            kept == {e \in edges : e[1] \notin cut}
            falls == {<<b, NextOf(b)>> : b \in {c \in cut : NextOf(c) # NoBlock}}
<1>1. /\ bbs' = bbs /\ labels' = labels /\ edges' = kept \cup falls
      /\ term' = [b \in Block |-> IF b \in cut THEN Plain ELSE term[b]]
  BY DEF removeIneffectIR
<1>2. cut \subseteq bbs /\ bbs \subseteq Block /\ term \in [Block -> Term]
  BY DEF CodeInv
<1>3. \A b \in bbs : NextOf(b) \in bbs \/ NextOf(b) = NoBlock
  BY <1>2, NextInIs DEF NextOf
<1>4. NoBlock \notin bbs
  BY NAssumption DEF CodeInv, Block, NoBlock
<1>. HIDE DEF cut
<1>5. \A p, q : <<p, q>> \in kept <=> <<p, q>> \in edges /\ p \notin cut
  OBVIOUS
<1>6. \A p, q : <<p, q>> \in falls <=> p \in cut /\ q = NextOf(p) /\ q # NoBlock
  OBVIOUS
<1>7. falls \subseteq bbs \X bbs
  BY <1>2, <1>3
<1>8. kept \subseteq bbs \X bbs
  BY DEF CodeInv, GraphOK
<1>. HIDE DEF kept, falls
<1>9. ASSUME NEW p \in bbs, NEW q \in bbs
      PROVE  <<p, q>> \in edges' <=> Leads(bbs, term', p, q)
  <2>1. <<p, q>> \in edges' <=> \/ <<p, q>> \in edges /\ p \notin cut
                                \/ p \in cut /\ q = NextOf(p)
    BY <1>1, <1>4, <1>5, <1>6
  <2>2. CASE p \in cut
    <3>1. term'[p] = Plain
      BY <1>1, <1>2, <2>2
    <3>. QED  BY <2>1, <2>2, <3>1, PlainAndGoto DEF Leads, NextOf, Branch, CondBr
  <2>3. CASE p \notin cut
    <3>1. term'[p] = term[p]
      BY <1>1, <1>2, <2>3
    <3>. QED  BY <2>1, <2>3, <3>1 DEF Leads, CodeInv, GraphOK
  <2>. QED  BY <2>2, <2>3
<1>10. term' \in [Block -> Term]
  BY <1>1, <1>2, PlainAndGoto
<1>11. BranchesOK(bbs, term', labels)
  <2>1. ASSUME NEW p \in bbs, term'[p].op \in Branch PROVE term'[p] = term[p]
    BY <1>1, <1>2, <2>1, PlainAndGoto DEF Branch, CondBr
  <2>. QED  BY <2>1 DEF CodeInv, BranchesOK
<1>12. GraphOK(bbs, edges', term')
  BY <1>1, <1>7, <1>8, <1>9 DEF GraphOK
<1>. QED  BY <1>1, <1>10, <1>11, <1>12 DEF CodeInv

-----------------------------------------------------------------------------
(* The specification.                                                      *)

LEMMA InitCodeInv == Init => CodeInv
<1>. SUFFICES ASSUME NEW p \in Programs, initCFG(p)
              PROVE  CodeInv
  BY DEF Init, CFGInit
<1>1. /\ bbs = Block /\ term = p.term
      /\ edges = {e \in Block \X Block : e[2] \in Goes(Block, p.term, e[1])}
      /\ labels = [b \in Block |-> IF \E c \in Block : p.term[c].op \in Branch
                                                       /\ p.term[c].to = b
                                   THEN 1 ELSE 0]
  BY DEF initCFG
<1>2. /\ p.term \in [Block -> Term]
      /\ \A b \in Block : p.term[b].op \in Branch => p.term[b].to \in Block
  BY ProgramsAssumption
<1>3. Entry \in Block
  BY NAssumption DEF Entry, Block
<1>4. ASSUME NEW a \in bbs, NEW b \in bbs
      PROVE  <<a, b>> \in edges <=> Leads(bbs, term, a, b)
  <2>1. b \in Goes(Block, p.term, a) <=> Leads(bbs, term, a, b)
    BY <1>1, <1>2, LeadsIsGoes
  <2>. QED  BY <1>1, <2>1
<1>5. BranchesOK(bbs, term, labels)
  <2>1. ASSUME NEW b \in bbs, term[b].op \in Branch
        PROVE  term[b].to \in bbs /\ labels[term[b].to] > 0
    BY <1>1, <1>2, <2>1
  <2>. QED  BY <2>1 DEF BranchesOK
<1>. QED  BY <1>1, <1>2, <1>3, <1>4, <1>5 DEF CodeInv, GraphOK

LEMMA OptimizeKeeps == CodeInv /\ Optimize => CodeInv'
<1>. SUFFICES ASSUME CodeInv, Optimize PROVE CodeInv'
  OBVIOUS
<1>1. CASE removeUnreachBB
  BY <1>1, UnreachKeeps
<1>2. CASE removeRedundantLabel
  BY <1>2, LabelKeeps
<1>3. CASE removeEmptyBB
  <2>1. CASE UNCHANGED program
    BY <2>1 DEF program, CodeInv, GraphOK, BranchesOK, Leads
  <2>2. ASSUME NEW b \in FirstLeft(RemovableEmpty), removeEmptyBBHelper(b)
        PROVE  CodeInv'
    <3>1. b \in RemovableEmpty
      BY DEF FirstLeft
    <3>. QED  BY <2>2, <3>1, EmptyBBKeeps
  <2>. QED  BY <1>3, <2>1, <2>2 DEF removeEmptyBB
<1>4. CASE removeRedundantBranch
  BY <1>4, RedundantBranchKeeps
<1>5. CASE removeTrampolinEdge
  <2>1. CASE UNCHANGED program
    BY <2>1 DEF program, CodeInv, GraphOK, BranchesOK, Leads
  <2>2. ASSUME NEW b \in FirstLeft(PassedBy),
               removeTrampolinEdgeCase1(b) \/ removeTrampolinEdgeCase2(b)
        PROVE  CodeInv'
    <3>1. b \in PassedBy
      BY DEF FirstLeft
    <3>. QED  BY <2>2, <3>1, TrampolinEdgeCase1Keeps, TrampolinEdgeCase2Keeps
  <2>. QED  BY <1>5, <2>1, <2>2 DEF removeTrampolinEdge
<1>6. CASE removeTrampolinBranch
  <2>1. CASE UNCHANGED program
    BY <2>1 DEF program, CodeInv, GraphOK, BranchesOK, Leads
  <2>2. ASSUME NEW b \in FirstLeft(BranchesOver), reviseTrampolinBranchEdge(b)
        PROVE  CodeInv'
    <3>1. b \in BranchesOver
      BY DEF FirstLeft
    <3>. QED  BY <2>2, <3>1, TrampolinBranchKeeps
  <2>. QED  BY <1>6, <2>1, <2>2 DEF removeTrampolinBranch
<1>7. CASE Again \/ Finish \/ refineCFG \/ removeTrampolinBB
  <2>1. UNCHANGED program
    BY <1>7 DEF Again, Finish, refineCFG, removeTrampolinBB, Begin
  <2>. QED  BY <2>1 DEF program, CodeInv, GraphOK, BranchesOK, Leads
<1>. QED  BY <1>1, <1>2, <1>3, <1>4, <1>5, <1>6, <1>7 DEF Optimize

LEMMA NextKeeps == CodeInv /\ [Next \/ Returned]_vars => CodeInv'
<1>. SUFFICES ASSUME CodeInv, [Next \/ Returned]_vars PROVE CodeInv'
  OBVIOUS
<1>1. CASE OptimizeCFG
  BY <1>1, OptimizeKeeps DEF OptimizeCFG
<1>2. CASE removeIneffectIR
  BY <1>2, IneffectKeeps
<1>3. CASE StartDCE \/ markEffectIR \/ iterCollect \/ performMiscOpt \/ EndRound
  <2>1. UNCHANGED program
    BY <1>3 DEF StartDCE, markEffectIR, iterCollect, performMiscOpt, EndRound, Begin
  <2>. QED  BY <2>1 DEF program, CodeInv, GraphOK, BranchesOK, Leads
<1>4. CASE UNCHANGED vars
  <2>1. UNCHANGED program
    BY <1>4 DEF vars, cfgVars
  <2>. QED  BY <2>1 DEF program, CodeInv, GraphOK, BranchesOK, Leads
<1>. QED  BY <1>1, <1>2, <1>3, <1>4 DEF Next, Returned

\* Through every sequence of CFG optimizations and rounds of DCE the edges are
\* the ones the statements and their order in the text call for (ir_cfg.cpp:2041,
\* 3195, 3422; optcfg.h:335).
THEOREM EdgesAlwaysMatchCode == Spec => []EdgesMatchCode
<1>1. Spec => []CodeInv
  BY InitCodeInv, NextKeeps, PTL DEF Spec
<1>2. CodeInv => EdgesMatchCode
  BY CodeInvImplies
<1>. QED  BY <1>1, <1>2, PTL

\* No branch ever leads to a block that is gone or without a label
\* (ir_cfg.cpp:1690).
THEOREM BranchesNeverDangle == Spec => []NoDanglingBranch
<1>1. Spec => []CodeInv
  BY InitCodeInv, NextKeeps, PTL DEF Spec
<1>2. CodeInv => NoDanglingBranch
  BY CodeInvImplies
<1>. QED  BY <1>1, <1>2, PTL

-----------------------------------------------------------------------------
(* What removeTrampolinBB finds.                                           *)

\* removeTrampolinEdge that has changed nothing has begun with the first block.
TrampInv == /\ pc = "trampEdge" /\ ~res => at = 0
            /\ TrampolinesGone

\* The optimizations that removeTrampolinEdge does not follow at once.
LEMMA DoneTramp ==
    ASSUME NEW r, Done(r), pc \in {"unreach", "label", "empty", "branch", "trampBB",
                                   "trampBranch"}
    PROVE  TrampInv'
<1>1. pc' # "trampBB" /\ at' = 0
  BY DEF Done, After
<1>. QED  BY <1>1 DEF TrampInv, TrampolinesGone

LEMMA EdgeTramp ==
    ASSUME CodeInv, TrampInv, pc = "trampEdge", UNCHANGED program,
           FirstLeft(PassedBy) = {}, Done(res)
    PROVE  TrampInv'
<1>1. at' = 0
  BY DEF Done
<1>2. ASSUME pc' = "trampBB" PROVE TrampolinBBs' = {}
  <2>1. ~res
    BY <1>2 DEF Done
  <2>2. at = 0
    BY <2>1 DEF TrampInv
  <2>3. bbs \subseteq Nat \ {0} /\ PassedBy \subseteq bbs
    BY NAssumption DEF CodeInv, GraphOK, Block, PassedBy
  <2>4. PassedBy = {}
    <3>. SUFFICES ASSUME PassedBy # {} PROVE FALSE
      OBVIOUS
    <3>1. PICK b \in PassedBy : \A c \in PassedBy : b <= c
      BY <2>3, Least
    <3>2. b \in FirstLeft(PassedBy)
      BY <2>2, <2>3, <3>1 DEF FirstLeft
    <3>. QED  BY <3>2
  <2>5. TrampolinBBs = {}
    BY <2>4 DEF TrampolinBBs, PassedBy
  <2>. QED  BY <2>5 DEF program, TrampolinBBs, IsTrampoline, NumOfIR, isEmptyBB, Case1,
               NextOf, Preds
<1>. QED  BY <1>1, <1>2 DEF TrampInv, TrampolinesGone

LEMMA NextTramp == CodeInv /\ TrampInv /\ [Next \/ Returned]_vars => TrampInv'
<1>. SUFFICES ASSUME CodeInv, TrampInv, [Next \/ Returned]_vars PROVE TrampInv'
  OBVIOUS
<1>1. CASE removeUnreachBB \/ removeRedundantLabel \/ removeRedundantBranch
           \/ removeTrampolinBB
  <2>1. \E r : Done(r) /\ pc \in {"unreach", "label", "branch", "trampBB"}
    BY <1>1 DEF removeUnreachBB, removeRedundantLabel, removeRedundantBranch,
                removeTrampolinBB
  <2>. QED  BY <2>1, DoneTramp
<1>2. CASE removeEmptyBB \/ removeTrampolinBranch
  <2>1. pc \in {"empty", "trampBranch"} /\ (Done(res) \/ \E b : Visited(b))
    BY <1>2 DEF removeEmptyBB, removeTrampolinBranch
  <2>2. ASSUME NEW b, Visited(b) PROVE TrampInv'
    BY <2>1, <2>2 DEF Visited, TrampInv, TrampolinesGone
  <2>. QED  BY <2>1, <2>2, DoneTramp
<1>3. CASE removeTrampolinEdge
  <2>1. \/ pc = "trampEdge" /\ pc' = pc /\ res' = TRUE
        \/ /\ pc = "trampEdge" /\ FirstLeft(PassedBy) = {}
           /\ UNCHANGED program /\ Done(res)
    BY <1>3 DEF removeTrampolinEdge
  <2>. QED  BY <2>1, EdgeTramp DEF TrampInv, TrampolinesGone
<1>4. CASE Again \/ Finish \/ refineCFG
  <2>1. pc' \in {"unreach", "end", "optimized"}
    BY <1>4 DEF Again, Finish, refineCFG, Begin
  <2>. QED  BY <2>1 DEF TrampInv, TrampolinesGone
<1>5. CASE removeIneffectIR \/ StartDCE \/ markEffectIR \/ iterCollect
           \/ performMiscOpt \/ EndRound
  <2>1. pc' \notin {"trampEdge", "trampBB"}
    BY <1>5 DEF removeIneffectIR, StartDCE, markEffectIR, iterCollect, performMiscOpt,
                EndRound, Begin
  <2>. QED  BY <2>1 DEF TrampInv, TrampolinesGone
<1>6. CASE UNCHANGED vars
  <2>1. UNCHANGED <<program, pc, res, at>>
    BY <1>6 DEF vars, cfgVars
  <2>2. TrampolinBBs' = TrampolinBBs
    BY <2>1 DEF program, TrampolinBBs, IsTrampoline, NumOfIR, isEmptyBB, Case1, NextOf, Preds
  <2>. QED  BY <2>1, <2>2 DEF TrampInv, TrampolinesGone
<1>. QED  BY <1>1, <1>2, <1>3, <1>4, <1>5, <1>6 DEF Next, OptimizeCFG, Optimize, Returned

\* When refineCFG comes to removeTrampolinBB (ir_cfg.cpp:1046) no block is left
\* that it could remove, for every program: removeTrampolinEdge (ir_cfg.cpp:1038)
\* has dealt with it, and starts the round over whenever it deals with one.
THEOREM NoTrampolinBBLeft == Spec => []TrampolinesGone
<1>1. Spec => []CodeInv
  BY InitCodeInv, NextKeeps, PTL DEF Spec
<1>2. Init => TrampInv
  BY DEF Init, CFGInit, initCFG, TrampInv, TrampolinesGone
<1>3. TrampInv => TrampolinesGone
  BY DEF TrampInv
<1>. QED  BY <1>1, <1>2, <1>3, NextTramp, PTL DEF Spec

-----------------------------------------------------------------------------
(* The control dependence graph.                                           *)

\* What a function does to a value over and over is a function of the number
\* of times.
LEMMA Iterates ==
    ASSUME NEW S, NEW a \in S, NEW F \in [S -> S]
    PROVE  \E g \in [Nat -> S] : /\ g[0] = a
                                 /\ \A n \in Nat \ {0} : g[n] = F[g[n - 1]]
<1>. DEFINE Upto(n, f) == /\ f \in [0 .. n -> S]
                          /\ f[0] = a
                          /\ \A i \in 1 .. n : f[i] = F[f[i - 1]]
            Short == {n \in Nat : ~\E f : Upto(n, f)}
            Unlike == {i \in Nat : \E m, n \in Nat : \E f, h :
                          /\ Upto(m, f) /\ Upto(n, h)
                          /\ i <= m /\ i <= n /\ f[i] # h[i]}
<1>1. \A n \in Nat : \E f : Upto(n, f)
  <2>1. SUFFICES ASSUME Short # {} PROVE FALSE
    OBVIOUS
  <2>2. PICK n \in Short : \A m \in Short : n <= m
    <3>. HIDE DEF Upto
    <3>. QED  BY <2>1, Least
  <2>3. n # 0
    <3>1. Upto(0, [i \in 0 .. 0 |-> a])
      OBVIOUS
    <3>. QED  BY <2>2, <3>1
  <2>4. PICK f : Upto(n - 1, f)
    <3>. HIDE DEF Upto
    <3>1. n - 1 \in Nat /\ ~(n <= n - 1)
      BY <2>2, <2>3
    <3>. QED  BY <2>2, <3>1
  <2>. DEFINE h == [i \in 0 .. n |-> IF i = n THEN F[f[n - 1]] ELSE f[i]]
  <2>5. Upto(n, h)
    BY <2>2, <2>3, <2>4
  <2>. QED  BY <2>2, <2>5
<1>2. \A m, n \in Nat : \A f, h : Upto(m, f) /\ Upto(n, h) =>
          \A i \in Nat : i <= m /\ i <= n => f[i] = h[i]
  <2>1. SUFFICES ASSUME Unlike # {} PROVE FALSE
    <3>. HIDE DEF Upto
    <3>. QED  OBVIOUS
  <2>2. PICK i \in Unlike : \A j \in Unlike : i <= j
    <3>. HIDE DEF Upto
    <3>. QED  BY <2>1, Least
  <2>3. PICK m, n, f, h :
            /\ m \in Nat /\ n \in Nat /\ Upto(m, f) /\ Upto(n, h)
            /\ i <= m /\ i <= n /\ f[i] # h[i]
    <3>. HIDE DEF Upto
    <3>. QED  BY <2>2
  <2>4. i # 0
    BY <2>3
  <2>5. i - 1 \in Nat /\ i - 1 <= m /\ i - 1 <= n /\ ~(i <= i - 1)
    BY <2>2, <2>3, <2>4
  <2>6. f[i - 1] = h[i - 1]
    <3>. HIDE DEF Upto
    <3>. QED  BY <2>2, <2>3, <2>5
  <2>7. i \in 1 .. m /\ i \in 1 .. n
    BY <2>2, <2>3, <2>4
  <2>. QED  BY <2>3, <2>6, <2>7
<1>. DEFINE part(n) == CHOOSE f : Upto(n, f)
            g == [n \in Nat |-> part(n)[n]]
<1>3. \A n \in Nat : Upto(n, part(n))
  <2>. HIDE DEF Upto
  <2>. QED  BY <1>1
<1>. HIDE DEF part
<1>4. g \in [Nat -> S]
  <2>1. ASSUME NEW n \in Nat PROVE part(n)[n] \in S
    <3>1. part(n) \in [0 .. n -> S] /\ n \in 0 .. n
      BY <1>3
    <3>. QED  BY <3>1
  <2>. QED  BY <2>1
<1>5. g[0] = a
  BY <1>3
<1>6. ASSUME NEW n \in Nat \ {0}
      PROVE  g[n] = F[g[n - 1]]
  <2>1. n - 1 \in Nat /\ n - 1 <= n /\ n - 1 <= n - 1 /\ n \in 1 .. n
    OBVIOUS
  <2>2. part(n)[n] = F[part(n)[n - 1]]
    BY <1>3, <2>1
  <2>3. part(n)[n - 1] = part(n - 1)[n - 1]
    <3>. HIDE DEF Upto
    <3>. QED  BY <1>2, <1>3, <2>1
  <2>4. g[n] = part(n)[n] /\ g[n - 1] = part(n - 1)[n - 1]
    BY <2>1
  <2>. HIDE DEF g
  <2>. QED  BY <2>2, <2>3, <2>4
<1>. HIDE DEF g
<1>. QED  BY <1>4, <1>5, <1>6

\* CDG::build adds edges between blocks of the program only, if the immediate
\* postdominators are blocks of the program.
LEMMA CDGOfBlocks ==
    ASSUME edges \subseteq bbs \X bbs, NoBlock \notin bbs, N \in Nat,
           NEW ip, \A b \in bbs : ip[b] \in bbs \cup {NoBlock}
    PROVE  CDGOf(ip) \subseteq bbs \X bbs
<1>. DEFINE S == SUBSET (bbs \X bbs)
            seed == {e \in edges : ip[e[1]] # e[2]}
            More(T) == T \cup {<<e[1], ip[e[2]]>> : e \in {f \in T :
                          ip[f[2]] # NoBlock /\ ip[f[1]] # ip[f[2]]}}
            F == [T \in S |-> More(T)]
            cd == CHOOSE r : r = [n \in Nat |-> IF n = 0 THEN seed
                                                ELSE More(r[n - 1])]
<1>1. seed \in S
  OBVIOUS
<1>2. ASSUME NEW T \in S PROVE More(T) \in S
  <2>1. ASSUME NEW f \in T, ip[f[2]] # NoBlock
        PROVE  <<f[1], ip[f[2]]>> \in bbs \X bbs
    <3>1. f \in bbs \X bbs
      OBVIOUS
    <3>. QED  BY <2>1, <3>1
  <2>. QED  BY <2>1
<1>3. F \in [S -> S]
  BY <1>2
<1>. HIDE DEF S, seed, More
<1>4. PICK g \in [Nat -> S] : /\ g[0] = seed
                              /\ \A n \in Nat \ {0} : g[n] = F[g[n - 1]]
  <2>. HIDE DEF F
  <2>. QED  BY <1>1, <1>3, Iterates
<1>5. g = [n \in Nat |-> IF n = 0 THEN seed ELSE More(g[n - 1])]
  <2>1. ASSUME NEW n \in Nat, n # 0 PROVE g[n] = More(g[n - 1])
    <3>1. g[n - 1] \in S /\ n \in Nat \ {0}
      BY <2>1
    <3>2. F[g[n - 1]] = More(g[n - 1])
      BY <3>1
    <3>. HIDE DEF F
    <3>. QED  BY <1>4, <3>1, <3>2
  <2>. QED  BY <1>4, <2>1
<1>6. cd = [n \in Nat |-> IF n = 0 THEN seed ELSE More(cd[n - 1])]
  BY <1>5
<1>. HIDE DEF cd
<1>. DEFINE Bad == {n \in Nat : cd[n] \notin S}
<1>7. Bad = {}
  <2>1. SUFFICES ASSUME Bad # {} PROVE FALSE
    OBVIOUS
  <2>2. PICK n \in Bad : \A m \in Bad : n <= m
    <3>1. Bad \in SUBSET Nat
      OBVIOUS
    <3>. HIDE DEF Bad
    <3>. QED  BY <2>1, <3>1, Least
  <2>3. n # 0
    BY <1>1, <1>6, <2>2
  <2>4. n - 1 \in Nat /\ ~(n <= n - 1)
    BY <2>2, <2>3
  <2>5. cd[n - 1] \in S
    BY <2>2, <2>4
  <2>6. cd[n] = More(cd[n - 1])
    BY <1>6, <2>2, <2>3
  <2>. QED  BY <1>2, <2>2, <2>5, <2>6
<1>8. cd[N] \in S
  BY <1>7
<1>9. CDGOf(ip) = {e \in cd[N] : e[1] # e[2]}
  BY DEF CDGOf, cd, seed, More
<1>. QED  BY <1>8, <1>9 DEF S

\* While a CFG optimization is under way.
Optimizing == pc \in {"unreach", "label", "empty", "branch", "trampEdge", "trampBB",
                      "trampBranch", "refine", "again", "end", "optimized"}
\* Every block is reachable.
Whole == bbs = Reached

\* The inductive invariant. Only DCE asks for the analyses, so refineCFG finds
\* none of them valid. A driver that ends because nothing changed leaves every
\* block reachable. PDOM is valid only while DOM is, which takes it down with
\* the first edge that is edited, and CDG is not valid when blocks go, but for
\* the time from the first block that removeEmptyBB removes to its end.
DepInv ==
    /\ by = "initCFG" => pc \in {"empty", "refine"}
    /\ pc = "refine" => by # "performMiscOpt"
    /\ res => pc \in {"empty", "trampEdge", "trampBranch"}
    /\ Optimizing /\ by # "performMiscOpt" => valid \subseteq {"rpo"}
    /\ pc \in {"label", "empty", "branch", "trampEdge", "trampBB", "trampBranch", "again"}
       /\ by # "initCFG" /\ ~lchange /\ ~res => Whole
    /\ pc = "end" /\ ~lchange => Whole
    /\ pc \in {"optimized", "mark"} => Whole
    /\ "pdom" \in valid => /\ "dom" \in valid /\ Whole
                           /\ \A b \in bbs : ipdom[b] \in bbs \cup {NoBlock}
    /\ "cdg" \in valid /\ ~(pc = "empty" /\ res) => cdg \subseteq bbs \X bbs
    /\ pc = "collect" => "cdg" \in valid

LEMMA IpdomsBlocks == CodeInv => \A b \in bbs : Ipdoms[b] \in bbs \cup {NoBlock}
<1>. SUFFICES ASSUME CodeInv, NEW b \in bbs PROVE Ipdoms[b] \in bbs \cup {NoBlock}
  OBVIOUS
<1>. DEFINE pd == [v \in bbs |-> Postdoms(v)]
            above(v) == {i \in pd[v] \ {v} : pd[i] = pd[v] \ {v}}
            ex == ExitsOf(bbs, edges)
<1>1. b \in Block
  BY DEF CodeInv
<1>2. ex \subseteq bbs
  BY DEF ExitsOf
<1>3. Postdoms(b) \subseteq bbs
  BY <1>2 DEF Postdoms
<1>. HIDE DEF ex
<1>4. above(b) \subseteq bbs
  BY <1>3
<1>5. Ipdoms[b] = IF ex # {} /\ b \in bbs \ ex /\ above(b) # {}
                  THEN CHOOSE i \in above(b) : TRUE ELSE NoBlock
  BY <1>1 DEF Ipdoms, ex
<1>. HIDE DEF above
<1>. QED  BY <1>4, <1>5

\* Nothing of what is asked for is stale afterwards, PDOM can be valid already
\* only with DOM.
LEMMA RecomputeGives ==
    ASSUME CodeInv, DepInv, Whole, UNCHANGED program,
           NEW S \in SUBSET Analyses, Recompute(S), {"dom", "pdom"} \subseteq S,
           pc # "empty"
    PROVE  /\ {"dom", "pdom"} \subseteq valid' /\ Whole'
           /\ \A b \in bbs : ipdom'[b] \in bbs \cup {NoBlock}
           /\ "cdg" \in valid' => cdg' \subseteq bbs \X bbs
           /\ "cdg" \in S => "cdg" \in valid'
<1>1. valid' = valid \cup S /\ Whole'
  BY DEF Recompute, Whole, Reached, Closed, program
<1>2. \A b \in bbs : ipdom'[b] \in bbs \cup {NoBlock}
  BY IpdomsBlocks DEF Recompute, DepInv
<1>3. /\ NoBlock \notin bbs /\ N \in Nat
      /\ edges \subseteq bbs \X bbs
  BY NAssumption DEF CodeInv, GraphOK, Block, NoBlock
<1>4. CDGOf(ipdom') \subseteq bbs \X bbs
  <2>1. \A ip : (\A b \in bbs : ip[b] \in bbs \cup {NoBlock})
                    => CDGOf(ip) \subseteq bbs \X bbs
    BY <1>3, CDGOfBlocks
  <2>. QED  BY <1>2, <2>1
<1>5. "cdg" \in valid' => cdg' \subseteq bbs \X bbs
  BY <1>1, <1>4 DEF Recompute, DepInv
<1>. QED  BY <1>1, <1>2, <1>5

LEMMA UnreachWhole == CodeInv /\ removeUnreachBB => Whole'
<1>. SUFFICES ASSUME CodeInv, removeUnreachBB PROVE Whole'
  OBVIOUS
<1>1. bbs' = Reached /\ edges' = Within(edges, Reached)
  BY DEF removeUnreachBB
<1>2. Reached \subseteq bbs /\ Entry \in Reached
  BY ReachedClosed
<1>3. ASSUME NEW S \in SUBSET Reached, Entry \in S,
             \A e \in Within(edges, Reached) : e[1] \in S => e[2] \in S
      PROVE  S = Reached
  <2>1. ASSUME NEW e \in edges, e[1] \in S PROVE e[2] \in S
    <3>1. e[1] \in Reached /\ e[2] \in bbs /\ e = <<e[1], e[2]>>
      BY <2>1 DEF CodeInv, GraphOK
    <3>2. e[2] \in Reached
      BY <3>1, ReachedClosed
    <3>. QED  BY <1>3, <2>1, <3>1, <3>2 DEF Within
  <2>2. S \in SUBSET bbs /\ Closed(S)
    BY <1>2, <1>3, <2>1 DEF Closed
  <2>. QED  BY <2>2 DEF Reached
<1>4. Whole' <=> Reached = {b \in Reached : \A S \in SUBSET Reached :
                              /\ Entry \in S
                              /\ \A e \in Within(edges, Reached) : e[1] \in S => e[2] \in S
                              => b \in S}
  BY <1>1 DEF Whole, Reached, Closed
<1>. QED  BY <1>3, <1>4

-----------------------------------------------------------------------------
(* Every step keeps it.                                                    *)

LEMMA UnreachDep == CodeInv /\ DepInv /\ removeUnreachBB /\ UNCHANGED analyses => DepInv'
<1>. SUFFICES ASSUME CodeInv, DepInv, removeUnreachBB, UNCHANGED analyses PROVE DepInv'
  OBVIOUS
<1>1. Whole' /\ bbs' = Reached /\ Reached \subseteq bbs
  BY UnreachWhole, ReachedClosed DEF removeUnreachBB
<1>2. pc = "unreach" /\ by' = by /\ ~res' /\ by # "initCFG"
  BY DEF removeUnreachBB, Done, DepInv
<1>3. pc' \in {"label", "empty"}
  BY <1>2 DEF removeUnreachBB, Done, After
<1>4. CASE Whole
  <2>1. bbs' = bbs /\ valid' = valid /\ ipdom' = ipdom /\ cdg' = cdg
    BY <1>1, <1>4 DEF Whole, removeUnreachBB, analyses
  <2>. QED  BY <1>1, <1>2, <1>3, <2>1 DEF DepInv, Optimizing
<1>5. CASE ~Whole
  <2>1. valid' = valid \ (IF by = "refineCFG" THEN {"dom"} ELSE {"dom", "cdg"})
    BY <1>1, <1>5 DEF Whole, removeUnreachBB
  <2>2. "pdom" \notin valid
    BY <1>5 DEF DepInv
  <2>3. by = "refineCFG" => valid \subseteq {"rpo"}
    BY <1>2 DEF DepInv, Optimizing
  <2>4. "cdg" \notin valid'
    BY <2>1, <2>3
  <2>. QED  BY <1>1, <1>2, <1>3, <2>1, <2>2, <2>4 DEF DepInv, Optimizing
<1>. QED  BY <1>4, <1>5

\* What the optimizations do to the valid analyses.
LEMMA ValidAfter ==
    ASSUME DepInv, Optimizing
    PROVE  /\ WithRPO \subseteq valid \cup {"rpo"}
           /\ by # "performMiscOpt" => WithRPO \subseteq {"rpo"}
           /\ "pdom" \in WithRPO => "dom" \in WithRPO
           /\ EdgeEdited(WithRPO) \subseteq WithRPO \ {"pdom"}
           /\ CFGChangedExcept(WithRPO) \subseteq WithRPO \ {"pdom", "cdg"}
<1>1. /\ WithRPO \subseteq valid \cup {"rpo"} /\ valid \subseteq WithRPO
      /\ by # "performMiscOpt" => WithRPO \subseteq {"rpo"}
  BY DEF WithRPO, DepInv
<1>2. "pdom" \in WithRPO => "dom" \in WithRPO
  BY <1>1 DEF DepInv
<1>. QED  BY <1>1, <1>2 DEF EdgeEdited, CFGChangedExcept

\* An optimization ends.
LEMMA DoneDep ==
    ASSUME DepInv,
           pc \in {"label", "empty", "branch", "trampEdge", "trampBB", "trampBranch"},
           NEW r, Done(r), UNCHANGED <<bbs, analyses>>,
           ~r => edges' = edges /\ ~res,
           valid' \subseteq valid \cup {"rpo"},
           by # "performMiscOpt" => valid' \subseteq {"rpo"},
           "pdom" \in valid' => "dom" \in valid' /\ edges' = edges,
           pc = "empty" /\ res => "cdg" \notin valid'
    PROVE  DepInv'
<1>1. by' = by /\ ~res' /\ (~lchange' => ~lchange /\ ~r)
  BY DEF Done
<1>2. /\ pc' \in {"empty", "branch", "trampEdge", "trampBB", "trampBranch", "refine", "again"}
      /\ by = "initCFG" => pc = "empty" /\ pc' = "refine"
      /\ pc' = "refine" => by # "performMiscOpt"
  BY DEF Done, After, DepInv
<1>3. edges' = edges => (Whole <=> Whole')
  BY DEF Whole, Reached, Closed
<1>4. ipdom' = ipdom /\ cdg' = cdg /\ bbs' = bbs
  BY DEF analyses
<1>5. ~lchange' /\ by # "initCFG" => Whole'
  <2>. SUFFICES ASSUME ~lchange', by # "initCFG" PROVE Whole'
    OBVIOUS
  <2>1. ~lchange /\ edges' = edges /\ ~res
    BY <1>1
  <2>. QED  BY <1>3, <2>1 DEF DepInv
<1>6. "pdom" \in valid' => /\ "dom" \in valid' /\ Whole'
                           /\ \A b \in bbs' : ipdom'[b] \in bbs' \cup {NoBlock}
  <2>. SUFFICES ASSUME "pdom" \in valid'
                PROVE  /\ "dom" \in valid' /\ Whole'
                       /\ \A b \in bbs' : ipdom'[b] \in bbs' \cup {NoBlock}
    OBVIOUS
  <2>1. "pdom" \in valid /\ "dom" \in valid' /\ edges' = edges
    OBVIOUS
  <2>. QED  BY <1>3, <1>4, <2>1 DEF DepInv
<1>7. "cdg" \in valid' => cdg' \subseteq bbs' \X bbs'
  <2>. SUFFICES ASSUME "cdg" \in valid' PROVE cdg \subseteq bbs \X bbs
    BY <1>4
  <2>. QED  BY DEF DepInv
<1>. QED  BY <1>1, <1>2, <1>5, <1>6, <1>7 DEF DepInv, Optimizing

\* An optimization changes something and walks on.
LEMMA VisitDep ==
    ASSUME DepInv, pc \in {"empty", "trampEdge", "trampBranch"}, res' = TRUE,
           UNCHANGED <<pc, by, analyses>>,
           bbs' = bbs \/ pc = "empty",
           valid' \subseteq valid \cup {"rpo"},
           by # "performMiscOpt" => valid' \subseteq {"rpo"},
           "pdom" \in valid' => "dom" \in valid' /\ UNCHANGED <<bbs, edges>>
    PROVE  DepInv'
<1>1. UNCHANGED <<bbs, edges>> => (Whole <=> Whole')
  BY DEF Whole, Reached, Closed
<1>2. ipdom' = ipdom /\ cdg' = cdg
  BY DEF analyses
<1>. QED  BY <1>1, <1>2 DEF DepInv, Optimizing

LEMMA OptimizeDep ==
    ASSUME CodeInv, DepInv, Settles, Optimize, UNCHANGED analyses
    PROVE  DepInv'
<1>1. CASE removeUnreachBB
  BY <1>1, UnreachDep
<1>2. CASE removeRedundantLabel
  <2>1. pc = "label" /\ UNCHANGED <<bbs, edges, valid>>
    BY <1>2 DEF removeRedundantLabel
  <2>2. Optimizing
    BY <2>1 DEF Optimizing
  <2>3. PICK r : Done(r)
    BY <1>2 DEF removeRedundantLabel
  <2>4. ~res /\ (by # "performMiscOpt" => valid' \subseteq {"rpo"})
    BY <2>1, <2>2 DEF DepInv
  <2>5. "pdom" \in valid' => "dom" \in valid'
    BY <2>1 DEF DepInv
  <2>. QED  BY <2>1, <2>3, <2>4, <2>5, DoneDep
<1>3. CASE removeEmptyBB
  <2>1. pc = "empty" /\ Optimizing
    BY <1>3 DEF removeEmptyBB, Optimizing
  <2>2. ASSUME NEW b \in bbs, removeEmptyBBHelper(b), Visited(b),
               valid' = EdgeEdited(WithRPO)
        PROVE  DepInv'
    <3>1. /\ valid' \subseteq valid \cup {"rpo"} /\ "pdom" \notin valid'
          /\ by # "performMiscOpt" => valid' \subseteq {"rpo"}
      BY <2>1, <2>2, ValidAfter
    <3>2. UNCHANGED <<pc, by>> /\ res' = TRUE
      BY <2>2 DEF Visited
    <3>. QED  BY <2>1, <3>1, <3>2, VisitDep
  <2>3. ASSUME Done(res), UNCHANGED program,
               valid' = IF res /\ by = "performMiscOpt" THEN CFGChangedExcept(WithRPO)
                        ELSE WithRPO
        PROVE  DepInv'
    <3>1. /\ valid' \subseteq valid \cup {"rpo"}
          /\ by # "performMiscOpt" => valid' \subseteq {"rpo"}
          /\ "pdom" \in valid' => "dom" \in valid'
          /\ res => "cdg" \notin valid'
      BY <2>1, <2>3, ValidAfter
    <3>2. UNCHANGED <<bbs, edges>>
      BY <2>3 DEF program
    <3>. QED  BY <2>1, <2>3, <3>1, <3>2, DoneDep
  <2>. QED  BY <1>3, <2>2, <2>3 DEF removeEmptyBB, FirstLeft
<1>4. CASE removeRedundantBranch
  <2>1. pc = "branch" /\ Optimizing
    BY <1>4 DEF removeRedundantBranch, Optimizing
  <2>2. PICK r : /\ Done(r) /\ bbs' = bbs
                 /\ ~r => edges' = edges
                 /\ \/ edges' = edges /\ valid' = WithRPO
                    \/ valid' = EdgeEdited(WithRPO)
    <3>. DEFINE next == {b \in bbs : ToNext(b)}
                taken == {b \in bbs \ next : AlwaysTaken(term[b])}
                never == {b \in bbs \ next : NeverTaken(term[b])}
                cut == {<<b, NextOf(b)>> : b \in taken}
                           \cup {e \in edges : e[1] \in never /\ e[2] # NextOf(e[1])}
    <3>1. /\ edges' = edges \ cut /\ bbs' = bbs
          /\ valid' = IF cut = {} THEN WithRPO ELSE EdgeEdited(WithRPO)
          /\ Done(next \cup taken \cup never # {})
      BY <1>4 DEF removeRedundantBranch
    <3>2. next \cup taken \cup never = {} => cut = {}
      OBVIOUS
    <3>. HIDE DEF next, taken, never, cut
    <3>. QED  BY <3>1, <3>2
  <2>3. /\ valid' \subseteq valid \cup {"rpo"}
        /\ by # "performMiscOpt" => valid' \subseteq {"rpo"}
        /\ "pdom" \in valid' => "dom" \in valid' /\ edges' = edges
    BY <2>1, <2>2, ValidAfter
  <2>4. ~res
    BY <2>1 DEF DepInv
  <2>. QED  BY <2>1, <2>2, <2>3, <2>4, DoneDep DEF analyses
<1>5. CASE removeTrampolinEdge
  <2>1. pc = "trampEdge" /\ Optimizing
    BY <1>5 DEF removeTrampolinEdge, Optimizing
  <2>2. ASSUME NEW b, removeTrampolinEdgeCase1(b) \/ removeTrampolinEdgeCase2(b),
               res' = TRUE, UNCHANGED <<pc, by>>
        PROVE  DepInv'
    <3>1. /\ bbs' = bbs
          /\ \/ edges' = edges /\ valid' = WithRPO
             \/ valid' \in {CFGChanged, EdgeEdited(WithRPO), CFGChangedExcept(WithRPO)}
      BY <2>2 DEF removeTrampolinEdgeCase1, removeTrampolinEdgeCase2
    <3>2. /\ valid' \subseteq valid \cup {"rpo"}
          /\ by # "performMiscOpt" => valid' \subseteq {"rpo"}
          /\ "pdom" \in valid' => "dom" \in valid' /\ UNCHANGED <<bbs, edges>>
      BY <2>1, <3>1, ValidAfter DEF CFGChanged
    <3>. QED  BY <2>1, <2>2, <3>1, <3>2, VisitDep
  <2>3. ASSUME Done(res), UNCHANGED program, valid' = WithRPO
        PROVE  DepInv'
    BY <2>1, <2>3, ValidAfter, DoneDep DEF program
  <2>. QED  BY <1>5, <2>2, <2>3 DEF removeTrampolinEdge
<1>6. CASE removeTrampolinBranch
  <2>1. pc = "trampBranch" /\ Optimizing
    BY <1>6 DEF removeTrampolinBranch, Optimizing
  <2>2. ASSUME NEW b, reviseTrampolinBranchEdge(b), Visited(b)
        PROVE  DepInv'
    <3>1. /\ bbs' = bbs
          /\ \/ edges' = edges /\ valid' = WithRPO
             \/ valid' = {"rpo"}
      BY <2>2 DEF reviseTrampolinBranchEdge
    <3>2. /\ valid' \subseteq valid \cup {"rpo"}
          /\ by # "performMiscOpt" => valid' \subseteq {"rpo"}
          /\ "pdom" \in valid' => "dom" \in valid' /\ UNCHANGED <<bbs, edges>>
      BY <2>1, <3>1, ValidAfter
    <3>3. UNCHANGED <<pc, by>> /\ res' = TRUE
      BY <2>2 DEF Visited
    <3>. QED  BY <2>1, <3>1, <3>2, <3>3, VisitDep
  <2>3. ASSUME Done(res), UNCHANGED program, valid' = WithRPO
        PROVE  DepInv'
    BY <2>1, <2>3, ValidAfter, DoneDep DEF program
  <2>. QED  BY <1>6, <2>2, <2>3 DEF removeTrampolinBranch
<1>7. CASE Again
  <2>1. UNCHANGED <<bbs, edges, valid, by, res, ipdom, cdg>>
    BY <1>7 DEF Again, program, analyses
  <2>2. Whole' <=> Whole
    BY <2>1 DEF Whole, Reached, Closed
  <2>3. /\ pc = "again"
        /\ \/ pc' = "unreach"
           \/ pc' = "end" /\ lchange' = lchange
    BY <1>7 DEF Again
  <2>. QED  BY <2>1, <2>2, <2>3 DEF DepInv, Optimizing
<1>8. CASE Finish
  <2>1. UNCHANGED <<bbs, edges, valid, by, res, ipdom, cdg>>
    BY <1>8 DEF Finish, program, analyses, driver
  <2>2. Whole' <=> Whole
    BY <2>1 DEF Whole, Reached, Closed
  <2>3. pc = "end" /\ pc' = "optimized" /\ Whole
    BY <1>8 DEF Finish, Settles, DepInv
  <2>. QED  BY <2>1, <2>2, <2>3 DEF DepInv, Optimizing
<1>9. CASE refineCFG
  <2>1. /\ UNCHANGED <<bbs, edges, valid, ipdom, cdg>>
        /\ pc = "refine" /\ pc' = "unreach" /\ ~res' /\ by' = "refineCFG"
    BY <1>9 DEF refineCFG, Begin, program, analyses
  <2>2. Whole' <=> Whole
    BY <2>1 DEF Whole, Reached, Closed
  <2>3. valid \subseteq {"rpo"}
    BY <2>1 DEF DepInv, Optimizing
  <2>. QED  BY <2>1, <2>2, <2>3 DEF DepInv, Optimizing
<1>10. CASE removeTrampolinBB
  <2>1. /\ pc = "trampBB" /\ Optimizing /\ Done(FALSE)
        /\ UNCHANGED <<bbs, edges, valid>>
    BY <1>10 DEF removeTrampolinBB, Optimizing, program
  <2>2. /\ ~res /\ (by # "performMiscOpt" => valid' \subseteq {"rpo"})
        /\ "pdom" \in valid' => "dom" \in valid'
    BY <2>1 DEF DepInv
  <2>. QED  BY <2>1, <2>2, DoneDep
<1>. QED  BY <1>1, <1>2, <1>3, <1>4, <1>5, <1>6, <1>7, <1>8, <1>9, <1>10 DEF Optimize

LEMMA InitDep == Init => DepInv
BY DEF Init, CFGInit, initCFG, DepInv, Optimizing

LEMMA NextDep == CodeInv /\ DepInv /\ Settles /\ [Next \/ Returned]_vars => DepInv'
<1>. SUFFICES ASSUME CodeInv, DepInv, Settles, [Next \/ Returned]_vars PROVE DepInv'
  OBVIOUS
<1>1. CASE OptimizeCFG
  BY <1>1, OptimizeDep DEF OptimizeCFG
<1>2. CASE StartDCE
  <2>1. /\ pc = "optimized" /\ pc' = "mark" /\ Recompute({"rpo", "dom", "pdom"})
        /\ UNCHANGED program /\ by' = by /\ res' = res
    BY <1>2 DEF StartDCE, driver
  <2>2. Whole
    BY <2>1 DEF DepInv
  <2>3. /\ {"dom", "pdom"} \subseteq valid' /\ Whole'
        /\ \A b \in bbs : ipdom'[b] \in bbs \cup {NoBlock}
        /\ "cdg" \in valid' => cdg' \subseteq bbs \X bbs
    BY <2>1, <2>2, RecomputeGives DEF Analyses
  <2>. QED  BY <2>1, <2>3 DEF DepInv, Optimizing, program
<1>3. CASE markEffectIR
  <2>1. /\ pc = "mark" /\ pc' = "collect" /\ Recompute(Analyses)
        /\ UNCHANGED program /\ by' = by /\ res' = res
    BY <1>3 DEF markEffectIR, driver
  <2>2. Whole
    BY <2>1 DEF DepInv
  <2>3. /\ {"dom", "pdom"} \subseteq valid' /\ Whole'
        /\ \A b \in bbs : ipdom'[b] \in bbs \cup {NoBlock}
        /\ "cdg" \in valid' => cdg' \subseteq bbs \X bbs
        /\ "cdg" \in valid'
    BY <2>1, <2>2, RecomputeGives DEF Analyses
  <2>. QED  BY <2>1, <2>3 DEF DepInv, Optimizing, program
<1>4. CASE iterCollect
  <2>1. /\ UNCHANGED <<bbs, edges, valid, by, res, ipdom, cdg>>
        /\ pc = "collect" /\ pc' \in {"collect", "remove"}
    BY <1>4 DEF iterCollect, program, analyses, driver
  <2>2. Whole' <=> Whole
    BY <2>1 DEF Whole, Reached, Closed
  <2>. QED  BY <2>1, <2>2 DEF DepInv, Optimizing
<1>5. CASE removeIneffectIR
  <2>. DEFINE cut == {b \in bbs : IsBranch(b) /\ Last(b) \notin eff}
  <2>1. /\ UNCHANGED <<bbs, by, res, ipdom, cdg>>
        /\ pc = "remove" /\ pc' = "misc"
        /\ valid' = IF cut = {} THEN valid ELSE CFGChanged
        /\ edges' = {e \in edges : e[1] \notin cut} \cup
                         {<<b, NextOf(b)>> : b \in {c \in cut : NextOf(c) # NoBlock}}
    BY <1>5 DEF removeIneffectIR, analyses, driver
  <2>. HIDE DEF cut
  <2>2. cut = {} => edges' = edges
    BY <2>1
  <2>3. edges' = edges => (Whole' <=> Whole)
    BY <2>1 DEF Whole, Reached, Closed
  <2>. QED  BY <2>1, <2>2, <2>3 DEF DepInv, Optimizing, CFGChanged
<1>6. CASE performMiscOpt
  <2>1. /\ UNCHANGED <<bbs, edges, valid, ipdom, cdg>>
        /\ pc = "misc" /\ pc' = "unreach" /\ ~res' /\ by' = "performMiscOpt"
    BY <1>6 DEF performMiscOpt, Begin, program, analyses
  <2>2. Whole' <=> Whole
    BY <2>1 DEF Whole, Reached, Closed
  <2>. QED  BY <2>1, <2>2 DEF DepInv, Optimizing
<1>7. CASE EndRound
  <2>1. /\ pc = "optimized" /\ pc' \in {"mark", "done"}
        /\ UNCHANGED program /\ by' = by /\ res' = res /\ by # "initCFG"
    BY <1>7 DEF EndRound, driver, DepInv
  <2>2. Whole
    BY <2>1 DEF DepInv
  <2>3. CASE UNCHANGED <<valid, ipdom, cdg>>
    <3>1. Whole' <=> Whole
      BY <2>1 DEF Whole, Reached, Closed, program
    <3>. QED  BY <2>1, <2>2, <2>3, <3>1 DEF DepInv, Optimizing, program
  <2>4. CASE Recompute(Analyses)
    <3>1. /\ {"dom", "pdom"} \subseteq valid' /\ Whole'
          /\ \A b \in bbs : ipdom'[b] \in bbs \cup {NoBlock}
          /\ "cdg" \in valid' => cdg' \subseteq bbs \X bbs
      BY <2>1, <2>2, <2>4, RecomputeGives DEF Analyses
    <3>. QED  BY <2>1, <3>1 DEF DepInv, Optimizing, program
  <2>. QED  BY <1>7, <2>3, <2>4 DEF EndRound
<1>8. CASE UNCHANGED vars
  <2>1. UNCHANGED <<bbs, edges, valid, by, res, lchange, pc, ipdom, cdg>>
    BY <1>8 DEF vars, cfgVars, program, driver, analyses
  <2>2. Whole' <=> Whole
    BY <2>1 DEF Whole, Reached, Closed
  <2>. QED  BY <2>1, <2>2 DEF DepInv, Optimizing
<1>. QED  BY <1>1, <1>2, <1>3, <1>4, <1>5, <1>6, <1>7, <1>8 DEF Next, Returned

\* Marking never meets a vertex of the control dependence graph that is no
\* block any more (assertion at ir_dce.cpp:529), if the loops of the CFG
\* optimizations end because nothing is left to do (assertions at
\* ir_cfg.cpp:1069 and 3589): a block left unreachable could be the postdominator
\* the graph is built from, and gone by then.
THEOREM ControlDepsAreBlocks == Spec /\ []Settles => []ControlDepsPresent
<1>1. Spec => []CodeInv
  BY InitCodeInv, NextKeeps, PTL DEF Spec
<1>2. Spec /\ []Settles => []DepInv
  BY <1>1, InitDep, NextDep, PTL DEF Spec
<1>3. DepInv => ControlDepsPresent
  BY DEF DepInv, ControlDepsPresent
<1>. QED  BY <1>2, <1>3, PTL
=============================================================================
