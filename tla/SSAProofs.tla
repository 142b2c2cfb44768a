----------------------------- MODULE SSAProofs -----------------------------
(***************************************************************************)
(* Liveness and the first half of the construction of SSA form, for every  *)
(* graph, every code, and every order in which the rounds visit the        *)
(* blocks: the data flow computes liveness in few sweeps, the elimination  *)
(* of redundant liveness never takes away a value a block of the region    *)
(* gives, dominance is what it should be, and the PHIs are placed where    *)
(* definitions that are live meet.                                         *)
(***************************************************************************)
EXTENDS PRSSA, FiniteSetTheorems, WellFoundedInduction, TLAPS

USE NAssumption, BoundsAssumption

-----------------------------------------------------------------------------
(* The inductive invariant *)

Types ==
    /\ succ \in [Block -> SUBSET Block]
    /\ livein \in [Block -> SUBSET PR] /\ liveout \in [Block -> SUBSET PR]
    /\ newin \in [Block -> SUBSET PR] /\ newout \in [Block -> SUBSET PR]
    /\ at \in 0 .. N /\ change \in BOOLEAN /\ differs \in BOOLEAN
    /\ visited \subseteq Block

\* The entry has no predecessor and reaches everything.
GraphInv ==
    /\ \A b \in Block : Entry \notin succ[b]
    /\ \A S \in SUBSET Block : Entry \in S /\ (\A b \in S : succ[b] \subseteq S) => S = Block

StartInv == pc = "perform" => at = N /\ change = FALSE

\* livein is in step with liveout, and nothing is in it that is not live.
SolveInv ==
    pc \in {"solve", "solved"} =>
        \A b \in Block :
            /\ livein[b] = (liveout[b] \ Def(b)) \cup Use(b)
            /\ succ[b] = {} => liveout[b] = {}
            /\ \A p \in livein[b] : b \in LiveAt(p)

\* Of the blocks the sweep is through with, as long as nothing changes.
Settled(b) == liveout[b] = UNION {livein[s] : s \in succ[b]}
SweptInv ==
    ~change => /\ pc = "solve" => \A b \in Block : at < b => Settled(b)
               /\ pc = "solved" => \A b \in Block : Settled(b)

\* The elimination starts from liveness; of the blocks a round is through
\* with, as long as nothing differs.
FadeInv ==
    pc = "fade" /\ ~change =>
        /\ Entry \in visited
        /\ \A b \in Block \ {Entry} : \A p \in PR :
             /\ p \in livein[b] <=> b \in LiveAt(p)
             /\ p \in liveout[b] <=> succ[b] \cap LiveAt(p) # {}
        /\ ~differs => \A v \in visited \ {Entry} : newin[v] = FadedIn(v) /\ newout[v] = FadedOut(v)

IInv == /\ Types /\ GraphInv /\ StartInv /\ SolveInv /\ SweptInv /\ FadeInv
        /\ InsideValuesStayLive

-----------------------------------------------------------------------------
(* Liveness as a least set *)

LEMMA Places == N \in 0 .. N /\ Entry \in Block
BY DEF Block, Entry

LEMMA UseDefPR == \A b \in Block : Use(b) \subseteq PR /\ Def(b) \subseteq PR
BY DEF Use, Def

\* A block that needs p, or hands it on to one where it is live, has p live.
LEMMA LiveAtClosed ==
    ASSUME NEW p \in PR, NEW b \in Block,
           p \in Use(b) \/ (p \notin Def(b) /\ succ[b] \cap LiveAt(p) # {})
    PROVE  b \in LiveAt(p)
<1> SUFFICES ASSUME NEW S \in SUBSET Block, NeedsOf(p, S) \subseteq S
             PROVE  b \in S
  BY DEF LiveAt
<1>1. LiveAt(p) \subseteq S
  BY DEF LiveAt
<1>2. b \in NeedsOf(p, S)
  BY <1>1 DEF NeedsOf
<1> QED
  BY <1>2

\* Every set that is closed in that way contains the blocks where p is live.
LEMMA LiveAtLeast ==
    ASSUME NEW p \in PR, NEW S \in SUBSET Block, NeedsOf(p, S) \subseteq S
    PROVE  LiveAt(p) \subseteq S
BY DEF LiveAt

\* What is live in a block that does not need it is live in a successor.
LEMMA LiveAtNeeds ==
    ASSUME NEW p \in PR, NEW b \in LiveAt(p)
    PROVE  p \in Use(b) \/ (p \notin Def(b) /\ succ[b] \cap LiveAt(p) # {})
<1> DEFINE S == NeedsOf(p, LiveAt(p))
<1>1. S \subseteq LiveAt(p)
  BY LiveAtClosed DEF NeedsOf
<1>2. S \in SUBSET Block
  BY DEF NeedsOf
<1>3. NeedsOf(p, S) \subseteq S
  BY <1>1 DEF NeedsOf
<1>4. b \in S
  BY <1>2, <1>3, LiveAtLeast
<1> QED
  BY <1>4 DEF NeedsOf

LEMMA FromInsideClosed ==
    ASSUME NEW p \in PR, NEW S \in SUBSET Block, HandedOn(p, S) \subseteq S
    PROVE  FromInside(p) \subseteq S
BY DEF FromInside

\* The program decides, and it does not change while liveness is computed.
LEMMA LiveAtStays ==
    ASSUME succ' = succ, code' = code
    PROVE  /\ \A b : Use(b)' = Use(b) /\ Def(b)' = Def(b)
           /\ \A p : LiveAt(p)' = LiveAt(p) /\ FromInside(p)' = FromInside(p)
<1>1. \A b : Use(b)' = Use(b) /\ Def(b)' = Def(b)
  BY DEF Use, Def
<1>2. \A p, S : NeedsOf(p, S)' = NeedsOf(p, S)
  BY <1>1 DEF NeedsOf
<1>3. \A p, S : HandedOn(p, S)' = HandedOn(p, S)
  BY <1>1 DEF HandedOn, Preds
<1> QED
  BY <1>1, <1>2, <1>3 DEF LiveAt, FromInside

-----------------------------------------------------------------------------
(* What the data flow ends with *)

LEMMA SettledIsLive ==
    ASSUME Types, \A b \in Block : livein[b] = (liveout[b] \ Def(b)) \cup Use(b),
           \A b \in Block : \A p \in livein[b] : b \in LiveAt(p),
           \A b \in Block : Settled(b)
    PROVE  \A b \in Block, p \in PR : /\ p \in livein[b] <=> b \in LiveAt(p)
                                      /\ p \in liveout[b] <=> succ[b] \cap LiveAt(p) # {}
<1>1. ASSUME NEW p \in PR
      PROVE  LiveAt(p) \subseteq {b \in Block : p \in livein[b]}
  <2> DEFINE S == {b \in Block : p \in livein[b]}
  <2>1. ASSUME NEW b \in NeedsOf(p, S)
        PROVE  b \in S
    <3>1. b \in Block
      BY DEF NeedsOf
    <3>2. CASE p \in Use(b)
      BY <3>1, <3>2
    <3>3. CASE p \notin Def(b) /\ succ[b] \cap S # {}
      BY <3>1, <3>3 DEF Settled
    <3> QED
      BY <3>2, <3>3 DEF NeedsOf
  <2>2. S \in SUBSET Block /\ NeedsOf(p, S) \subseteq S
    BY <2>1
  <2> QED
    BY <2>2, LiveAtLeast
<1>2. \A b \in Block, p \in PR : p \in livein[b] <=> b \in LiveAt(p)
  BY <1>1
<1>3. ASSUME NEW b \in Block, NEW p \in PR
      PROVE  p \in liveout[b] <=> succ[b] \cap LiveAt(p) # {}
  <2>1. succ[b] \subseteq Block
    BY DEF Types
  <2>2. p \in liveout[b] <=> \E s \in succ[b] : p \in livein[s]
    BY DEF Settled
  <2> QED
    BY <1>2, <2>1, <2>2
<1> QED
  BY <1>2, <1>3

-----------------------------------------------------------------------------
(* What a settled elimination lets stand *)

LEMMA FadedKeeps ==
    ASSUME Types, GraphInv,
           \A b \in Block \ {Entry} : \A p \in PR :
             /\ p \in livein[b] <=> b \in LiveAt(p)
             /\ p \in liveout[b] <=> succ[b] \cap LiveAt(p) # {},
           \A b \in Block \ {Entry} : newin[b] = FadedIn(b) /\ newout[b] = FadedOut(b)
    PROVE  \A p \in PR, b \in Block :
             /\ b \in LiveAt(p) /\ b \in FromInside(p) => b # Entry /\ p \in newin[b]
             /\ /\ b # Entry /\ (p \in Def(b) \/ b \in FromInside(p))
                /\ succ[b] \cap LiveAt(p) # {}
                => p \in newout[b]
<1> SUFFICES ASSUME NEW p \in PR
             PROVE  \A b \in Block :
                /\ b \in LiveAt(p) /\ b \in FromInside(p) => b # Entry /\ p \in newin[b]
                /\ /\ b # Entry /\ (p \in Def(b) \/ b \in FromInside(p))
                   /\ succ[b] \cap LiveAt(p) # {}
                   => p \in newout[b]
  OBVIOUS
<1> DEFINE Given(b) == \E q \in Preds(b) : q # Entry /\ p \in newout[q]
           S == {b \in Block : b # Entry /\ (b \in LiveAt(p) => Given(b))}
\* A block hands on what it defines, and what it is given and has live out.
<1>1. ASSUME NEW q \in Block \ {Entry}, p \in Def(q) \/ q \in S, succ[q] \cap LiveAt(p) # {}
      PROVE  p \in newout[q]
  <2>1. p \in liveout[q] /\ newout[q] = liveout[q] \ (Fades(q) \ Def(q))
    BY <1>1 DEF FadedOut
  <2>2. CASE p \in Def(q)
    BY <2>1, <2>2
  <2>3. CASE p \notin Def(q)
    <3>1. q \in LiveAt(p)
      BY <1>1, <2>3, LiveAtClosed
    <3>2. PICK u \in Preds(q) : p \in newout[u]
      BY <1>1, <2>3, <3>1
    <3>3. p \notin Fades(q)
      BY <3>2 DEF Fades
    <3> QED
      BY <2>1, <3>3
  <2> QED
    BY <2>2, <2>3
<1>2. FromInside(p) \subseteq S
  <2>1. ASSUME NEW b \in HandedOn(p, S)
        PROVE  b \in S
    <3>1. PICK q \in Preds(b) \ {Entry} : p \in Def(q) \/ q \in S
      BY <2>1 DEF HandedOn
    <3>2. b \in Block /\ q \in Block \ {Entry} /\ b \in succ[q]
      BY <3>1, <2>1 DEF HandedOn, Preds
    <3>3. b # Entry
      BY <3>2 DEF GraphInv
    <3>4. ASSUME b \in LiveAt(p)
          PROVE  Given(b)
      <4>1. succ[q] \cap LiveAt(p) # {}
        BY <3>2, <3>4
      <4>2. p \in newout[q]
        BY <1>1, <3>1, <3>2, <4>1
      <4> QED
        BY <3>1, <4>2
    <3> QED
      BY <3>2, <3>3, <3>4
  <2>2. S \in SUBSET Block /\ HandedOn(p, S) \subseteq S
    BY <2>1
  <2> QED
    BY <2>2, FromInsideClosed
<1>3. ASSUME NEW b \in Block, b \in LiveAt(p), b \in FromInside(p)
      PROVE  b # Entry /\ p \in newin[b]
  <2>1. b \in S
    BY <1>2, <1>3
  <2>2. PICK q \in Preds(b) : p \in newout[q]
    BY <2>1, <1>3
  <2>3. p \notin Fades(b)
    BY <2>2 DEF Fades
  <2>4. p \in livein[b] /\ newin[b] = livein[b] \ (Fades(b) \ Use(b))
    BY <2>1, <1>3 DEF FadedIn
  <2> QED
    BY <2>1, <2>3, <2>4
<1> QED
  BY <1>1, <1>2, <1>3

-----------------------------------------------------------------------------
(* The invariant is inductive *)

LEMMA InitIInv == SSAInit => IInv
<1> SUFFICES ASSUME SSAInit PROVE IInv
  OBVIOUS
<1> USE DEF SSAInit, LiveInit
<1>1. PICK prog \in Programs : succ = prog.succ /\ code = prog.code
  OBVIOUS
<1>2. prog.succ \in [Block -> SUBSET Block]
  BY <1>1, ProgramsAssumption
<1>3. GraphInv
  BY <1>1, ProgramsAssumption DEF GraphInv
<1>4. Types
  BY <1>1, <1>2, Places DEF Types, NoPRs
<1> QED
  BY <1>3, <1>4 DEF IInv, StartInv, SolveInv, SweptInv, FadeInv, InsideValuesStayLive

LEMMA PerformIInv == IInv /\ Perform => IInv'
<1> SUFFICES ASSUME IInv, Perform PROVE IInv'
  OBVIOUS
<1> USE DEF Perform, program, fading
<1>1. Types' /\ GraphInv'
  BY UseDefPR DEF IInv, Types, GraphInv, NoPRs
<1>2. at = N /\ change = FALSE /\ pc' = "solve"
  BY DEF IInv, StartInv
<1>3. SweptInv'
  BY <1>2 DEF SweptInv, Block
<1>4. SolveInv'
  <2> SUFFICES ASSUME NEW b \in Block
               PROVE  /\ livein'[b] = (liveout'[b] \ Def(b)) \cup Use(b)
                      /\ succ[b] = {} => liveout'[b] = {}
                      /\ \A p \in livein'[b] : b \in LiveAt(p)
    BY LiveAtStays DEF SolveInv
  <2>1. livein'[b] = Use(b) /\ liveout'[b] = {}
    BY DEF NoPRs
  <2> QED
    BY <2>1, LiveAtClosed, UseDefPR
<1> QED
  BY <1>1, <1>2, <1>3, <1>4 DEF IInv, StartInv, FadeInv, InsideValuesStayLive

LEMMA SweepBBIInv == IInv /\ SweepBB => IInv'
<1> SUFFICES ASSUME IInv, SweepBB PROVE IInv'
  OBVIOUS
<1> USE DEF SweepBB, program, fading
<1>0. Types /\ at \in Block /\ pc = "solve" /\ pc' = "solve"
  BY DEF IInv, Types, Block
<1>1. Gathered(at) \subseteq PR
  BY <1>0 DEF Gathered, Types
<1>2. Types' /\ GraphInv'
  <2>1. GraphInv'
    BY DEF IInv, GraphInv
  <2>2. at' \in 0 .. N
    BY <1>0 DEF Block
  <2>3. Def(at) \subseteq PR /\ Use(at) \subseteq PR
    BY <1>0, UseDefPR
  <2>4. livein' \in [Block -> SUBSET PR] /\ liveout' \in [Block -> SUBSET PR]
    BY <1>0, <1>1, <2>3 DEF Types
  <2>5. change' \in BOOLEAN
    BY <1>0 DEF Types
  <2> QED
    BY <1>0, <2>1, <2>2, <2>4, <2>5 DEF Types
<1>3. /\ livein'[at] = (Gathered(at) \ Def(at)) \cup Use(at) /\ liveout'[at] = Gathered(at)
      /\ \A b \in Block \ {at} : livein'[b] = livein[b] /\ liveout'[b] = liveout[b]
  BY <1>0 DEF Types
<1>4. SolveInv'
  <2> SUFFICES ASSUME NEW b \in Block
               PROVE  /\ livein'[b] = (liveout'[b] \ Def(b)) \cup Use(b)
                      /\ succ[b] = {} => liveout'[b] = {}
                      /\ \A p \in livein'[b] : b \in LiveAt(p)
    BY LiveAtStays DEF SolveInv
  <2>1. CASE b # at
    BY <1>0, <1>3, <2>1 DEF IInv, SolveInv
  <2>2. CASE b = at
    <3>1. succ[b] = {} => liveout[b] = {}
      BY <1>0 DEF IInv, SolveInv
    <3>2. ASSUME NEW p \in livein'[b]
          PROVE  b \in LiveAt(p)
      <4>1. p \in PR
        BY <1>2, <3>2 DEF Types
      <4>2. CASE p \in Use(b)
        BY <4>1, <4>2, LiveAtClosed
      <4>3. CASE p \in Gathered(b) /\ p \notin Def(b)
        <5>1. PICK s \in succ[b] : p \in livein[s]
          BY <3>1, <4>3 DEF Gathered
        <5>2. s \in Block
          BY <1>0 DEF Types
        <5>3. s \in LiveAt(p)
          BY <1>0, <5>1, <5>2 DEF IInv, SolveInv
        <5> QED
          BY <4>1, <4>3, <5>3, LiveAtClosed
      <4> QED
        BY <1>3, <2>2, <3>2, <4>2, <4>3
    <3> QED
      BY <1>3, <2>2, <3>1, <3>2 DEF Gathered
  <2> QED
    BY <2>1, <2>2
<1>5. SweptInv'
  <2> SUFFICES ASSUME ~change', NEW b \in Block, at' < b
               PROVE  Settled(b)'
    BY <1>0 DEF SweptInv
  <2>1. ~change /\ Gathered(at) = liveout[at]
    OBVIOUS
  <2>2. liveout' = liveout
    BY <1>0, <2>1 DEF Types
  <2>3. livein[at] = (liveout[at] \ Def(at)) \cup Use(at)
    BY <1>0 DEF IInv, SolveInv
  <2>4. livein' = livein
    BY <1>0, <2>1, <2>3 DEF Types
  <2>5. CASE b = at
    <3>1. succ[b] = {} => liveout[b] = {}
      BY <1>0 DEF IInv, SolveInv
    <3>2. liveout[b] = UNION {livein[s] : s \in succ[b]}
      BY <2>1, <2>5, <3>1 DEF Gathered
    <3> QED
      BY <2>2, <2>4, <3>2 DEF Settled
  <2>6. CASE b # at
    <3>1. at < b
      BY <1>0, <2>6 DEF Block
    <3>2. Settled(b)
      BY <1>0, <2>1, <3>1 DEF IInv, SweptInv
    <3> QED
      BY <2>2, <2>4, <3>2 DEF Settled
  <2> QED
    BY <2>5, <2>6
<1> QED
  BY <1>0, <1>2, <1>4, <1>5 DEF IInv, StartInv, FadeInv, InsideValuesStayLive

LEMMA SweepAgainIInv == IInv /\ SweepAgain => IInv'
<1> SUFFICES ASSUME IInv, SweepAgain PROVE IInv'
  OBVIOUS
<1> USE DEF SweepAgain, program, fading
<1>1. Types' /\ GraphInv'
  BY Places DEF IInv, Types, GraphInv
<1>2. SolveInv'
  BY LiveAtStays DEF IInv, SolveInv
<1>3. SweptInv'
  BY DEF SweptInv, Block
<1> QED
  BY <1>1, <1>2, <1>3 DEF IInv, StartInv, FadeInv, InsideValuesStayLive

LEMMA SolvedIInv == IInv /\ Solved => IInv'
<1> SUFFICES ASSUME IInv, Solved PROVE IInv'
  OBVIOUS
<1> USE DEF Solved, program, fading
<1>1. Types' /\ GraphInv'
  BY DEF IInv, Types, GraphInv
<1>2. SolveInv'
  BY LiveAtStays DEF IInv, SolveInv
<1>3. SweptInv'
  BY DEF IInv, SweptInv, Settled, Block
<1> QED
  BY <1>1, <1>2, <1>3 DEF IInv, StartInv, FadeInv, InsideValuesStayLive

\* Where the solution is liveness, so is what the next phase starts from.
LEMMA SolvedExact ==
    IInv /\ pc = "solved" /\ ~change =>
        \A b \in Block, p \in PR : /\ p \in livein[b] <=> b \in LiveAt(p)
                                   /\ p \in liveout[b] <=> succ[b] \cap LiveAt(p) # {}
BY SettledIsLive DEF IInv, SolveInv, SweptInv

LEMMA NothingRedundantIInv == IInv /\ NothingRedundant => IInv'
<1> SUFFICES ASSUME IInv, NothingRedundant PROVE IInv'
  OBVIOUS
<1> USE DEF NothingRedundant, program, solving, fading
<1>1. Types' /\ GraphInv'
  BY DEF IInv, Types, GraphInv
<1>2. InsideValuesStayLive'
  BY LiveAtStays, SolvedExact DEF InsideValuesStayLive
<1> QED
  BY <1>1, <1>2 DEF IInv, StartInv, SolveInv, SweptInv, FadeInv

LEMMA EliminateIInv == IInv /\ Eliminate => IInv'
<1> SUFFICES ASSUME IInv, Eliminate PROVE IInv'
  OBVIOUS
<1> USE DEF Eliminate, program
<1>1. Types /\ GraphInv /\ Entry \in Block
  BY DEF IInv, Block, Entry
<1>2. /\ livein' \in [Block -> SUBSET PR] /\ liveout' \in [Block -> SUBSET PR]
      /\ \A b \in Block \ {Entry} : livein'[b] = livein[b] /\ liveout'[b] = liveout[b]
  BY <1>1 DEF Types
<1>3. Types' /\ GraphInv'
  <2>1. newin' \in [Block -> SUBSET PR] /\ newout' \in [Block -> SUBSET PR]
    BY DEF NoPRs
  <2>2. Types'
    BY <1>1, <1>2, <2>1 DEF Types
  <2>3. GraphInv'
    BY <1>1 DEF GraphInv
  <2> QED
    BY <2>2, <2>3
<1>4. FadeInv'
  BY <1>2, LiveAtStays, SolvedExact DEF FadeInv
<1> QED
  BY <1>3, <1>4 DEF IInv, StartInv, SolveInv, SweptInv, InsideValuesStayLive

LEMMA FadeBBIInv ==
    ASSUME NEW v \in Block, IInv, FadeBB(v)
    PROVE  IInv'
<1> USE DEF FadeBB, program, solving
<1>1. Types /\ GraphInv /\ pc = "fade" /\ pc' = "fade"
  BY DEF IInv
<1>2. FadedIn(v) \subseteq PR /\ FadedOut(v) \subseteq PR
  BY <1>1 DEF FadedIn, FadedOut, Types
<1>3. Types' /\ GraphInv'
  BY <1>1, <1>2 DEF Types, GraphInv
<1>4. FadeInv'
  <2> SUFFICES ASSUME ~change
               PROVE  FadeInv'
    BY DEF FadeInv
  <2>1. \A b \in Block \ {Entry} : \A p \in PR :
          /\ p \in livein'[b] <=> b \in LiveAt(p)'
          /\ p \in liveout'[b] <=> succ'[b] \cap LiveAt(p)' # {}
    BY <1>1, LiveAtStays DEF IInv, FadeInv
  <2>2. ASSUME ~differs', NEW u \in visited' \ {Entry}
        PROVE  newin'[u] = FadedIn(u)' /\ newout'[u] = FadedOut(u)'
    <3>1. ~differs /\ newin' = newin /\ newout' = newout
      BY <1>1, <2>2 DEF Types
    <3>2. FadedIn(u)' = FadedIn(u) /\ FadedOut(u)' = FadedOut(u)
      BY <3>1, LiveAtStays DEF FadedIn, FadedOut, Fades, Preds
    <3>3. CASE u = v
      <4>1. newin'[v] = FadedIn(v) /\ newout'[v] = FadedOut(v)
        BY <1>1 DEF Types
      <4> QED
        BY <3>2, <3>3, <4>1
    <3>4. CASE u # v
      BY <1>1, <2>2, <3>1, <3>2, <3>4 DEF IInv, FadeInv
    <3> QED
      BY <3>3, <3>4
  <2>3. Entry \in visited'
    BY <1>1 DEF IInv, FadeInv
  <2> QED
    BY <2>1, <2>2, <2>3 DEF FadeInv
<1> QED
  BY <1>1, <1>3, <1>4 DEF IInv, StartInv, SolveInv, SweptInv, InsideValuesStayLive

LEMMA FadeAgainIInv == IInv /\ FadeAgain => IInv'
<1> SUFFICES ASSUME IInv, FadeAgain PROVE IInv'
  OBVIOUS
<1> USE DEF FadeAgain, program, solving
<1>1. Types' /\ GraphInv'
  BY Places DEF IInv, Types, GraphInv
<1>2. FadeInv'
  BY LiveAtStays DEF IInv, FadeInv
<1> QED
  BY <1>1, <1>2 DEF IInv, StartInv, SolveInv, SweptInv, InsideValuesStayLive

LEMMA FadedIInv == IInv /\ Faded => IInv'
<1> SUFFICES ASSUME IInv, Faded PROVE IInv'
  OBVIOUS
<1> USE DEF Faded, program
<1>1. Types /\ GraphInv
  BY DEF IInv
<1>2. Types' /\ GraphInv'
  BY <1>1 DEF Types, GraphInv
<1>3. InsideValuesStayLive'
  <2> SUFFICES ASSUME ~change, ~differs
               PROVE  InsideValuesStayLive'
    BY DEF InsideValuesStayLive
  <2>1. Entry \in visited
    BY DEF IInv, FadeInv
  <2>2. visited = Block
    BY <1>1, <2>1 DEF GraphInv, Frontier, Types
  <2>3. \A b \in Block \ {Entry} : livein'[b] = newin[b] /\ liveout'[b] = newout[b]
    BY <2>2
  <2>4. \A b \in Block \ {Entry} : newin[b] = FadedIn(b) /\ newout[b] = FadedOut(b)
    BY <2>2 DEF IInv, FadeInv
  <2>5. \A p \in PR, b \in Block :
             /\ b \in LiveAt(p) /\ b \in FromInside(p) => b # Entry /\ p \in newin[b]
             /\ /\ b # Entry /\ (p \in Def(b) \/ b \in FromInside(p))
                /\ succ[b] \cap LiveAt(p) # {}
                => p \in newout[b]
    <3>1. \A b \in Block \ {Entry} : \A p \in PR :
             /\ p \in livein[b] <=> b \in LiveAt(p)
             /\ p \in liveout[b] <=> succ[b] \cap LiveAt(p) # {}
      BY DEF IInv, FadeInv
    <3> QED
      BY <1>1, <2>4, <3>1, FadedKeeps
  <2> QED
    BY <2>3, <2>5, LiveAtStays DEF InsideValuesStayLive
<1> QED
  BY <1>2, <1>3 DEF IInv, StartInv, SolveInv, SweptInv, FadeInv

\* What comes after liveness leaves its phases and their state alone, and an
\* edge is dropped only if everything stays reachable.
LEMMA LaterIInv ==
    ASSUME IInv, pc' \in {"place", "rename", "refine", "built"},
           UNCHANGED <<solving, fading>>,
           \/ succ' = succ
           \/ \E b \in Block : \E s \in succ[b] : DropEdge(b, s)
    PROVE  IInv'
<1> USE DEF solving, fading
<1>1. Types' /\ GraphInv'
  <2>1. CASE succ' = succ
    BY <2>1 DEF IInv, Types, GraphInv
  <2>2. ASSUME NEW b \in Block, NEW s \in succ[b], DropEdge(b, s)
        PROVE  Types' /\ GraphInv'
    <3>1. Types /\ GraphInv /\ succ' = [succ EXCEPT ![b] = @ \ {s}]
      BY <2>2 DEF IInv, DropEdge
    <3>2. succ' \in [Block -> SUBSET Block]
      BY <3>1 DEF Types
    <3>3. \A c \in Block : succ'[c] = succ[c] \ (IF c = b THEN {s} ELSE {})
      BY <3>1 DEF Types
    <3>4. GraphInv'
      <4>1. \A c \in Block : Entry \notin succ'[c]
        BY <3>1, <3>3 DEF GraphInv
      <4>2. \A S \in SUBSET Block :
              /\ Entry \in S
              /\ \A c \in S : succ[c] \ (IF c = b THEN {s} ELSE {}) \subseteq S
              => S = Block
        BY <2>2 DEF DropEdge
      <4>3. ASSUME NEW S \in SUBSET Block, Entry \in S, \A c \in S : succ'[c] \subseteq S
            PROVE  S = Block
        <5>1. \A c \in S : succ[c] \ (IF c = b THEN {s} ELSE {}) \subseteq S
          BY <3>3, <4>3
        <5> QED
          BY <4>2, <4>3, <5>1
      <4> QED
        BY <4>1, <4>3 DEF GraphInv
    <3> QED
      BY <3>1, <3>2, <3>4 DEF Types
  <2> QED
    BY <2>1, <2>2
<1> QED
  BY <1>1 DEF IInv, StartInv, SolveInv, SweptInv, FadeInv, InsideValuesStayLive

LEMMA NextIInv == IInv /\ [Next]_vars => IInv'
<1> SUFFICES ASSUME IInv, [Next]_vars PROVE IInv'
  OBVIOUS
<1>1. CASE LiveNext
  BY <1>1, PerformIInv, SweepBBIInv, SweepAgainIInv, SolvedIInv, NothingRedundantIInv,
     EliminateIInv, FadeBBIInv, FadeAgainIInv, FadedIInv DEF LiveNext
<1>2. CASE InitMapInfo
  BY <1>2, LaterIInv DEF InitMapInfo, program
<1>3. CASE PlacePhi
  BY <1>3, LaterIInv DEF PlacePhi, liveVars, program
<1>4. CASE InitVPRStack
  BY <1>4, LaterIInv DEF InitVPRStack, program
<1>5. ASSUME NEW b \in Block, VisitBB(b)
      PROVE  IInv'
  <2>1. pc = "rename" /\ UNCHANGED liveVars
    BY <1>5 DEF VisitBB
  <2> QED
    BY <2>1, LaterIInv DEF liveVars, program
<1>6. CASE LeaveBB
  <2>1. pc = "rename" /\ UNCHANGED liveVars
    BY <1>6 DEF LeaveBB
  <2> QED
    BY <2>1, LaterIInv DEF liveVars, program
<1>7. CASE StartRefine
  BY <1>7, LaterIInv DEF StartRefine, program
<1>8. CASE RefineBB
  <2>1. pc = "refine" /\ UNCHANGED liveVars
    BY <1>8 DEF RefineBB
  <2> QED
    BY <2>1, LaterIInv DEF liveVars, program
<1>9. CASE RefineDone
  BY <1>9, LaterIInv DEF RefineDone, program
<1>10. ASSUME NEW b \in Block, NEW s \in succ[b], DropEdge(b, s)
       PROVE  IInv'
  <2>1. pc' = "refine" /\ UNCHANGED <<solving, fading>>
    BY <1>10 DEF DropEdge
  <2> QED
    BY <1>10, <2>1, LaterIInv
<1>11. CASE UNCHANGED vars
  <2>1. /\ UNCHANGED <<pc, program, solving, fading>>
    BY <1>11 DEF vars, liveVars
  <2>2. Types' /\ GraphInv'
    BY <2>1 DEF IInv, Types, GraphInv, program, solving, fading
  <2>3. StartInv' /\ SolveInv' /\ SweptInv' /\ InsideValuesStayLive'
    BY <2>1, LiveAtStays DEF IInv, StartInv, SolveInv, SweptInv, Settled,
       InsideValuesStayLive, program, solving, fading
  <2>4. \A v \in Block : FadedIn(v)' = FadedIn(v) /\ FadedOut(v)' = FadedOut(v)
    BY <2>1, LiveAtStays DEF FadedIn, FadedOut, Fades, Preds, program, solving, fading
  <2>5. FadeInv'
    BY <2>1, <2>4, LiveAtStays DEF IInv, FadeInv, Types, program, solving, fading
  <2> QED
    BY <2>2, <2>3, <2>5 DEF IInv
<1> QED
  BY <1>1, <1>2, <1>3, <1>4, <1>5, <1>6, <1>7, <1>8, <1>9, <1>10, <1>11 DEF Next, Done

-----------------------------------------------------------------------------
(* Theorems *)

LEMMA InvariantHolds == Spec => []IInv
<1>1. SSAInit => IInv
  BY InitIInv
<1>2. IInv /\ [Next]_vars => IInv'
  BY NextIInv
<1> QED
  BY <1>1, <1>2, PTL DEF Spec

\* A PR is in livein of a block, when the data flow has settled (computeGlobal
\* of liveness_mgr.cpp), exactly where a path leads to a read before a write.
THEOREM DataFlowIsLiveness == Spec => []SolvedIsLive
<1>1. IInv => SolvedIsLive
  <2> SUFFICES ASSUME IInv, pc = "solved", ~change, NEW b \in Block
               PROVE  livein[b] = {p \in PR : b \in LiveAt(p)}
    BY DEF SolvedIsLive
  <2>1. livein[b] \subseteq PR
    BY DEF IInv, Types
  <2> QED
    BY <2>1, SolvedExact
<1> QED
  BY <1>1, InvariantHolds, PTL

\* The elimination of redundant liveness (eliminateRedundantLiveness) leaves
\* live what some block other than the entry has defined and a path reads.
THEOREM EliminationSparesInsideValues == Spec => []InsideValuesStayLive
<1>1. IInv => InsideValuesStayLive
  BY DEF IInv
<1> QED
  BY <1>1, InvariantHolds, PTL

-----------------------------------------------------------------------------
(* How many sweeps the data flow needs                                     *)

\* The edges that do not go forward in the list.
Back == {e \in Block \X Block : e[2] \in succ[e[1]] /\ e[2] <= e[1]}

\* Those that lead to where p is live, as far as the data flow knows.
BackLive(p) == {e \in Back : p \in livein[e[2]]}

\* Nothing is to do for p.
SettledFor(p) ==
    \A b \in Block : p \in liveout[b] <=> \E s \in succ[b] : p \in livein[s]

\* Each sweep before has found p live behind another edge against the list,
\* and what this one has passed follows from those that were Old when it began.
Progress(p) ==
    \/ SettledFor(p)
    \/ \E Old \in SUBSET BackLive(p) :
          /\ Cardinality(Old) >= count
          /\ \A e \in BackLive(p) : e[2] <= at => e \in Old
          /\ \A b \in Block : at < b =>
                (p \in liveout[b] <=>
                    \E s \in succ[b] : IF b < s THEN p \in livein[s]
                                       ELSE <<b, s>> \in Old)

FewInv ==
    /\ count \in Nat
    /\ pc = "perform" => count = 0
    /\ pc = "solve" =>
         /\ \A b \in Block : liveout[b] \subseteq UNION {livein[s] : s \in succ[b]}
         /\ \A p \in PR : Progress(p)
         /\ count <= Cardinality(Back) + 1
         /\ change => count <= Cardinality(Back)
    /\ pc = "solved" => count <= Cardinality(Back) + 2

LEMMA EdgesFinite ==
    ASSUME NEW E \in SUBSET (Block \X Block)
    PROVE  /\ IsFiniteSet(E) /\ Cardinality(E) \in Nat
           /\ \A S \in SUBSET E :
                /\ IsFiniteSet(S) /\ Cardinality(S) \in Nat
                /\ Cardinality(S) <= Cardinality(E)
                /\ Cardinality(S) = Cardinality(E) => S = E
<1>1. IsFiniteSet(Block)
  BY FS_Interval DEF Block
<1>2. IsFiniteSet(Block \X Block)
  BY <1>1, FS_Product
<1>3. IsFiniteSet(E)
  BY <1>2, FS_Subset
<1> QED
  BY <1>3, FS_Subset, FS_CardinalityType

LEMMA BackFinite ==
    /\ IsFiniteSet(Back) /\ Cardinality(Back) \in Nat
    /\ \A S \in SUBSET Back : /\ IsFiniteSet(S) /\ Cardinality(S) \in Nat
                              /\ Cardinality(S) <= Cardinality(Back)
<1>1. Back \in SUBSET (Block \X Block)
  BY DEF Back
<1>2. PICK E : E = Back
  OBVIOUS
<1> QED
  BY <1>1, <1>2, EdgesFinite

LEMMA SweepBBFew == IInv /\ FewInv /\ SweepBB => FewInv'
<1> SUFFICES ASSUME IInv, FewInv, SweepBB PROVE FewInv'
  OBVIOUS
<1>0. /\ pc = "solve" /\ at # 0 /\ at' = at - 1 /\ pc' = pc
      /\ succ' = succ /\ code' = code /\ count' = count
      /\ liveout' = [liveout EXCEPT ![at] = Gathered(at)]
      /\ livein' = [livein EXCEPT ![at] = (Gathered(at) \ Def(at)) \cup Use(at)]
      /\ change' = (change \/ Gathered(at) # liveout[at])
  BY DEF SweepBB, program
<1>1. /\ Types /\ at \in Block /\ N \in Nat /\ Block = 1 .. N
      /\ \A b \in Block : livein[b] = (liveout[b] \ Def(b)) \cup Use(b)
      /\ \A b \in Block : succ[b] = {} => liveout[b] = {}
  BY <1>0 DEF IInv, Types, SolveInv, Block
<1>2. /\ \A b \in Block : liveout[b] \subseteq UNION {livein[s] : s \in succ[b]}
      /\ \A p \in PR : Progress(p)
      /\ count \in Nat /\ count <= Cardinality(Back) + 1
      /\ change => count <= Cardinality(Back)
  BY <1>0 DEF FewInv
<1>3. Gathered(at) = UNION {livein[s] : s \in succ[at]}
  BY <1>1 DEF Gathered
<1>4. /\ \A b \in Block \ {at} : livein'[b] = livein[b] /\ liveout'[b] = liveout[b]
      /\ liveout'[at] = Gathered(at)
      /\ livein'[at] = (Gathered(at) \ Def(at)) \cup Use(at)
  BY <1>0, <1>1 DEF Types
<1>5. \A b \in Block : livein[b] \subseteq livein'[b] /\ liveout[b] \subseteq liveout'[b]
  BY <1>1, <1>2, <1>3, <1>4
<1>6. \A b \in Block : succ[b] \subseteq Block
  BY <1>1 DEF Types
<1>7. Back' = Back
  BY <1>0 DEF Back
<1>8. \A p \in PR : BackLive(p) \subseteq BackLive(p)'
  BY <1>5, <1>7 DEF BackLive, Back
<1>9. ASSUME NEW p \in PR
      PROVE  Progress(p)'
  <2>1. CASE SettledFor(p)
    <3>1. p \in Gathered(at) <=> p \in liveout[at]
      BY <2>1, <1>1, <1>3 DEF SettledFor
    <3>2. p \in livein'[at] <=> p \in livein[at]
      BY <3>1, <1>1, <1>4
    <3>3. \A b \in Block : /\ p \in livein'[b] <=> p \in livein[b]
                           /\ p \in liveout'[b] <=> p \in liveout[b]
      BY <3>1, <3>2, <1>4
    <3>4. SettledFor(p)'
      BY <2>1, <3>3, <1>6, <1>0 DEF SettledFor
    <3> QED
      BY <3>4 DEF Progress
  <2>2. CASE ~SettledFor(p)
    <3>1. PICK Old \in SUBSET BackLive(p) :
            /\ Cardinality(Old) >= count
            /\ \A e \in BackLive(p) : e[2] <= at => e \in Old
            /\ \A b \in Block : at < b =>
                 (p \in liveout[b] <=>
                    \E s \in succ[b] : IF b < s THEN p \in livein[s] ELSE <<b, s>> \in Old)
      BY <2>2, <1>2 DEF Progress
    <3>2. Old \in SUBSET (BackLive(p)')
      BY <1>8
    <3>3. ASSUME NEW e \in BackLive(p)', e[2] <= at'
          PROVE  e \in Old
      <4>1. e \in Back /\ e[2] \in Block /\ p \in livein'[e[2]] /\ e[2] < at
        BY <3>3, <1>7, <1>0, <1>1 DEF BackLive, Back
      <4>2. e \in BackLive(p)
        BY <4>1, <1>4, <1>1 DEF BackLive
      <4> QED
        BY <3>1, <4>1, <4>2, <1>1
    <3>4. ASSUME NEW b \in Block, at' < b
          PROVE  p \in liveout'[b] <=>
                   \E s \in succ'[b] : IF b < s THEN p \in livein'[s] ELSE <<b, s>> \in Old
      <4>1. CASE b # at
        <5>1. at < b
          BY <3>4, <4>1, <1>0, <1>1
        <5>2. \A s \in succ[b] : b < s => livein'[s] = livein[s]
          BY <5>1, <1>4, <1>6, <1>1
        <5> QED
          BY <5>1, <5>2, <3>1, <1>4, <1>0, <4>1
      <4>2. CASE b = at
        <5>1. \A s \in succ[at] : at < s => livein'[s] = livein[s]
          BY <1>4, <1>6, <1>1
        <5>2. ASSUME NEW s \in succ[at], ~(at < s)
              PROVE  <<at, s>> \in Old <=> p \in livein[s]
          <6>1. s \in Block /\ s <= at
            BY <5>2, <1>6, <1>1
          <6>2. <<at, s>> \in Back
            BY <6>1, <1>1 DEF Back
          <6>3. <<at, s>> \in BackLive(p) <=> p \in livein[s]
            BY <6>2 DEF BackLive
          <6> QED
            BY <6>1, <6>3, <3>1
        <5>3. p \in liveout'[at] <=> \E s \in succ[at] : p \in livein[s]
          BY <1>3, <1>4
        <5> QED
          BY <4>2, <5>1, <5>2, <5>3, <1>0
      <4> QED
        BY <4>1, <4>2
    <3>5. PICK new : new = Old
      OBVIOUS
    <3> QED
      BY <3>1, <3>2, <3>3, <3>4, <1>0 DEF Progress
  <2> QED
    BY <2>1, <2>2
<1>10. change' => count <= Cardinality(Back)
  <2> SUFFICES ASSUME Gathered(at) # liveout[at] PROVE count <= Cardinality(Back)
    BY <1>0, <1>2
  <2>1. PICK p \in Gathered(at) : p \notin liveout[at]
    BY <1>2, <1>3, <1>1
  <2>2. p \in PR /\ ~SettledFor(p)
    BY <2>1, <1>1, <1>3, <1>6 DEF SettledFor, Types
  <2>3. PICK Old \in SUBSET BackLive(p) : Cardinality(Old) >= count
    BY <2>2, <1>2 DEF Progress
  <2>4. Old \in SUBSET Back
    BY DEF BackLive
  <2> QED
    BY <2>3, <2>4, <1>2, BackFinite
<1>11. \A b \in Block : liveout'[b] \subseteq UNION {livein'[s] : s \in succ'[b]}
  BY <1>0, <1>2, <1>3, <1>4, <1>5, <1>6
<1> QED
  BY <1>0, <1>2, <1>7, <1>9, <1>10, <1>11 DEF FewInv

LEMMA SweepAgainFew == IInv /\ FewInv /\ SweepAgain => FewInv'
<1> SUFFICES ASSUME IInv, FewInv, SweepAgain PROVE FewInv'
  OBVIOUS
<1>0. /\ pc = "solve" /\ at = 0 /\ at' = N /\ pc' = pc /\ change /\ change' = FALSE
      /\ succ' = succ /\ code' = code /\ count' = count + 1
      /\ liveout' = liveout /\ livein' = livein
  BY DEF SweepAgain, program
<1>1. /\ Types /\ N \in Nat /\ Block = 1 .. N
  BY DEF IInv, Block
<1>2. /\ \A b \in Block : liveout[b] \subseteq UNION {livein[s] : s \in succ[b]}
      /\ \A p \in PR : Progress(p)
      /\ count \in Nat /\ count <= Cardinality(Back)
  BY <1>0 DEF FewInv
<1>3. Back' = Back /\ \A p : BackLive(p)' = BackLive(p) /\ SettledFor(p)' = SettledFor(p)
  BY <1>0 DEF Back, BackLive, SettledFor
<1>4. ASSUME NEW p \in PR, ~SettledFor(p)
      PROVE  Cardinality(BackLive(p)) >= count + 1
  <2>1. PICK Old \in SUBSET BackLive(p) :
            /\ Cardinality(Old) >= count
            /\ \A b \in Block : at < b =>
                 (p \in liveout[b] <=>
                    \E s \in succ[b] : IF b < s THEN p \in livein[s] ELSE <<b, s>> \in Old)
    BY <1>4, <1>2 DEF Progress
  <2>2. ASSUME Old = BackLive(p)
        PROVE  FALSE
    <3>1. ASSUME NEW b \in Block, NEW s \in succ[b], ~(b < s)
          PROVE  <<b, s>> \in Old <=> p \in livein[s]
      <4>1. s \in Block /\ s <= b
        BY <3>1, <1>1 DEF Types
      <4> QED
        BY <4>1, <2>2 DEF BackLive, Back
    <3>2. \A b \in Block : at < b
      BY <1>0 DEF Block
    <3>3. \A b \in Block : \A s \in succ[b] :
             (IF b < s THEN p \in livein[s] ELSE <<b, s>> \in Old) <=> p \in livein[s]
      BY <3>1
    <3>4. SettledFor(p)
      BY <2>1, <3>2, <3>3 DEF SettledFor
    <3> QED
      BY <3>4, <1>4
  <2>3. IsFiniteSet(BackLive(p)) /\ IsFiniteSet(Old)
        /\ Cardinality(BackLive(p)) \in Nat /\ Cardinality(Old) \in Nat
    <3>1. BackLive(p) \in SUBSET Back /\ Old \in SUBSET Back
      BY DEF BackLive
    <3> QED
      BY <3>1, BackFinite
  <2>4. Cardinality(Old) < Cardinality(BackLive(p))
    <3>1. Cardinality(Old) <= Cardinality(BackLive(p)) /\
          (Cardinality(Old) = Cardinality(BackLive(p)) => Old = BackLive(p))
      BY <2>3, FS_Subset
    <3> QED
      BY <3>1, <2>2, <2>3
  <2> QED
    BY <2>1, <2>3, <2>4, <1>2
<1>5. ASSUME NEW p \in PR
      PROVE  Progress(p)'
  <2>1. CASE SettledFor(p)
    BY <2>1, <1>3 DEF Progress
  <2>2. CASE ~SettledFor(p)
    <3>1. PICK Old : Old = BackLive(p)
      OBVIOUS
    <3>2. /\ Old \in SUBSET (BackLive(p)')
          /\ Cardinality(Old) >= count'
          /\ \A e \in BackLive(p)' : e[2] <= at' => e \in Old
          /\ \A b \in Block : ~(at' < b)
      BY <3>1, <2>2, <1>0, <1>1, <1>3, <1>4
    <3> QED
      BY <3>2 DEF Progress
  <2> QED
    BY <2>1, <2>2
<1>6. Cardinality(Back) \in Nat
  BY BackFinite
<1> QED
  BY <1>0, <1>2, <1>3, <1>5, <1>6 DEF FewInv

LEMMA PerformFew == IInv /\ FewInv /\ Perform => FewInv'
<1> SUFFICES ASSUME IInv, FewInv, Perform PROVE FewInv'
  OBVIOUS
<1>0. /\ pc = "perform" /\ pc' = "solve" /\ count = 0 /\ count' = 0 /\ at = N /\ at' = N
      /\ change' = FALSE /\ liveout' = NoPRs
  BY DEF Perform, FewInv, IInv, StartInv
<1>1. \A b \in Block : liveout'[b] = {} /\ ~(at' < b)
  BY <1>0 DEF NoPRs, Block
<1>2. \A p \in PR : Progress(p)'
  <2> SUFFICES ASSUME NEW p \in PR PROVE Progress(p)'
    OBVIOUS
  <2>1. PICK Old : Old = BackLive(p)'
    OBVIOUS
  <2>2. /\ Old \in SUBSET (BackLive(p)')
        /\ Cardinality(Old) >= count'
        /\ \A e \in BackLive(p)' : e[2] <= at' => e \in Old
    <3>1. Old \in SUBSET (Back')
      BY <2>1 DEF BackLive
    <3>2. Old \in SUBSET (Block \X Block)
      BY <3>1 DEF Back
    <3>3. Cardinality(Old) \in Nat
      BY <3>2, EdgesFinite
    <3> QED
      BY <2>1, <3>3, <1>0
  <2> QED
    BY <2>2, <1>1 DEF Progress
<1>3. Cardinality(Back)' \in Nat
  <2>1. Back' \in SUBSET (Block \X Block)
    BY DEF Back
  <2>2. PICK E : E = Back'
    OBVIOUS
  <2> QED
    BY <2>1, <2>2, EdgesFinite
<1>4. \A b \in Block : liveout'[b] \subseteq UNION {livein'[s] : s \in succ'[b]}
  BY <1>1
<1> QED
  BY <1>0, <1>2, <1>3, <1>4 DEF FewInv

LEMMA NextFew == IInv /\ FewInv /\ [Next]_vars => FewInv'
<1> SUFFICES ASSUME IInv, FewInv, [Next]_vars PROVE FewInv'
  OBVIOUS
<1>1. CASE Perform
  BY <1>1, PerformFew
<1>2. CASE SweepBB
  BY <1>2, SweepBBFew
<1>3. CASE SweepAgain
  BY <1>3, SweepAgainFew
<1>4. CASE Solved
  <2>1. /\ pc = "solve" /\ pc' = "solved" /\ count' = count + 1 /\ succ' = succ
    BY <1>4 DEF Solved, program
  <2>2. Back' = Back /\ Cardinality(Back) \in Nat
    BY <2>1, BackFinite DEF Back
  <2> QED
    BY <2>1, <2>2 DEF FewInv
<1>5. ASSUME pc' \notin {"perform", "solve", "solved"}, count' = count
      PROVE  FewInv'
  BY <1>5 DEF FewInv
<1>6. CASE UNCHANGED vars
  <2>1. UNCHANGED <<pc, succ, livein, liveout, at, change, count>>
    BY <1>6 DEF vars, liveVars, program, solving
  <2>2. Back' = Back /\ \A p : BackLive(p)' = BackLive(p) /\ SettledFor(p)' = SettledFor(p)
    BY <2>1 DEF Back, BackLive, SettledFor
  <2>3. \A p : Progress(p)' = Progress(p)
    BY <2>1, <2>2 DEF Progress
  <2> QED
    BY <2>1, <2>2, <2>3 DEF FewInv
<1>7. CASE NothingRedundant
  BY <1>5, <1>7 DEF NothingRedundant, solving
<1>8. CASE Eliminate
  BY <1>5, <1>8 DEF Eliminate
<1>9. ASSUME NEW v \in Block, FadeBB(v) PROVE FewInv'
  BY <1>5, <1>9 DEF FadeBB, solving
<1>10. CASE FadeAgain
  BY <1>5, <1>10 DEF FadeAgain, solving
<1>11. CASE Faded
  BY <1>5, <1>11 DEF Faded
<1>12. CASE InitMapInfo
  BY <1>5, <1>12 DEF InitMapInfo, solving
<1>13. CASE PlacePhi
  BY <1>5, <1>13 DEF PlacePhi, liveVars, solving
<1>14. CASE InitVPRStack
  BY <1>5, <1>14 DEF InitVPRStack, solving
<1>15. ASSUME NEW b \in Block, VisitBB(b) PROVE FewInv'
  BY <1>5, <1>15 DEF VisitBB, liveVars, solving
<1>16. CASE LeaveBB
  BY <1>5, <1>16 DEF LeaveBB, liveVars, solving
<1>17. CASE StartRefine
  BY <1>5, <1>17 DEF StartRefine, solving
<1>18. CASE RefineBB
  BY <1>5, <1>18 DEF RefineBB, liveVars, solving
<1>19. CASE RefineDone
  BY <1>5, <1>19 DEF RefineDone, solving
<1>20. ASSUME NEW b \in Block, NEW s \in succ[b], DropEdge(b, s) PROVE FewInv'
  BY <1>5, <1>20 DEF DropEdge, solving
<1> QED
  BY <1>1, <1>2, <1>3, <1>4, <1>6, <1>7, <1>8, <1>9, <1>10, <1>11, <1>12, <1>13,
     <1>14, <1>15, <1>16, <1>17, <1>18, <1>19, <1>20 DEF Next, LiveNext, Done

LEMMA FewInvHolds == Spec => []FewInv
<1>1. SSAInit => FewInv
  BY DEF SSAInit, LiveInit, FewInv
<1> QED
  BY <1>1, NextFew, InvariantHolds, PTL DEF Spec

-----------------------------------------------------------------------------
(* Sequences that the program makes of sets                                *)

LEMMA MaximumOf ==
    ASSUME NEW S \in SUBSET Nat, IsFiniteSet(S), S # {}
    PROVE  \E m \in S : \A n \in S : n <= m
<1> DEFINE From(m) == {k \in S : m <= k}
           U == {From(m) : m \in S}
<1>1. U \subseteq FiniteSubsetsOf(S) /\ U # {}
  <2>1. \A m \in S : From(m) \in SUBSET S
    OBVIOUS
  <2> HIDE DEF From
  <2>2. \A m \in S : From(m) \in FiniteSubsetsOf(S)
    BY <2>1, FS_Subset DEF FiniteSubsetsOf
  <2> QED
    BY <2>2
<1>2. PICK t \in U : \A u \in U : <<u, t>> \notin StrictSubsetOrdering(S)
  <2> HIDE DEF U
  <2>1. IsWellFoundedOn(StrictSubsetOrdering(S), FiniteSubsetsOf(S))
    BY FS_StrictSubsetOrderingWellFounded
  <2> QED
    BY <1>1, <2>1, WFMin
<1>3. PICK m \in S : t = From(m)
  OBVIOUS
<1>4. ASSUME NEW n \in S, m < n
      PROVE  FALSE
  <2>1. From(n) \in U
    OBVIOUS
  <2>2. From(n) \subseteq From(m) /\ m \in From(m) /\ m \notin From(n)
    <3>1. \A k \in S : n <= k => m <= k
      BY <1>4
    <3>2. m \in Nat /\ n \in Nat /\ m <= m /\ ~(n <= m)
      BY <1>4
    <3>3. From(n) \subseteq From(m)
      BY <3>1
    <3>4. m \in From(m) /\ m \notin From(n)
      BY <3>2
    <3> QED
      BY <3>3, <3>4
  <2>3. <<From(n), t>> \in StrictSubsetOrdering(S)
    BY <2>2, <1>3 DEF StrictSubsetOrdering
  <2> QED
    BY <1>2, <2>1, <2>3
<1> QED
  BY <1>4

\* Each rank belongs to one element.
LEMMA Ranks ==
    ASSUME NEW S \in SUBSET Nat, IsFiniteSet(S), NEW j \in 1 .. Cardinality(S)
    PROVE  \E i \in S : Cardinality({k \in S : k < i}) = j - 1
<1> DEFINE n == Cardinality(S)
           rank(i) == Cardinality({k \in S : k < i})
<1>1. n \in Nat
  BY FS_CardinalityType
<1>2. ASSUME NEW i \in S
      PROVE  rank(i) \in 0 .. (n - 1)
  <2>1. {k \in S : k < i} \in SUBSET S /\ i \notin {k \in S : k < i}
    OBVIOUS
  <2>2. rank(i) \in Nat /\ rank(i) <= n /\ rank(i) # n
    BY <2>1, FS_Subset, FS_CardinalityType
  <2> QED
    BY <1>1, <2>2
<1>3. ASSUME NEW h \in S, NEW i \in S, h < i
      PROVE  rank(h) < rank(i)
  <2> DEFINE H == {k \in S : k < h}
             I == {k \in S : k < i}
  <2>1. H \in SUBSET I /\ h \in I /\ h \notin H
    <3>1. \A k \in S : k < h => k < i
      BY <1>3
    <3>2. h \in Nat /\ ~(h < h)
      OBVIOUS
    <3>3. H \in SUBSET I
      BY <3>1
    <3>4. h \in I /\ h \notin H
      BY <3>2, <1>3
    <3> QED
      BY <3>3, <3>4
  <2>2. IsFiniteSet(I)
    BY FS_Subset
  <2>3. Cardinality(H) \in Nat /\ Cardinality(I) \in Nat
        /\ Cardinality(H) <= Cardinality(I) /\ Cardinality(H) # Cardinality(I)
    <3> HIDE DEF H, I
    <3> QED
      BY <2>1, <2>2, FS_Subset, FS_CardinalityType
  <2> QED
    BY <2>3
<1>4. PICK f : f = [i \in S |-> rank(i)]
  OBVIOUS
<1>5. f \in Injection(S, 0 .. (n - 1))
  <2>1. f \in [S -> 0 .. (n - 1)]
    BY <1>2, <1>4
  <2>2. \A h, i \in S : f[h] = f[i] => h = i
    <3> SUFFICES ASSUME NEW h \in S, NEW i \in S, h # i PROVE f[h] # f[i]
      OBVIOUS
    <3>1. h < i \/ i < h
      OBVIOUS
    <3>2. f[h] = rank(h) /\ f[i] = rank(i) /\ rank(h) \in Int /\ rank(i) \in Int
      BY <1>2, <1>4
    <3> HIDE DEF rank
    <3> QED
      BY <3>1, <3>2, <1>3
  <2> QED
    BY <2>1, <2>2 DEF Injection, IsInjective
<1>6. IsFiniteSet(0 .. (n - 1)) /\ Cardinality(0 .. (n - 1)) = n
  <2>1. /\ IsFiniteSet(0 .. (n - 1))
        /\ Cardinality(0 .. (n - 1)) = IF 0 > n - 1 THEN 0 ELSE (n - 1) - 0 + 1
    <3>1. 0 \in Int /\ n - 1 \in Int
      BY <1>1
    <3> HIDE DEF n
    <3> QED
      BY <3>1, FS_Interval
  <2> HIDE DEF n
  <2> QED
    BY <1>1, <2>1
<1>7. f \in Surjection(S, 0 .. (n - 1))
  BY <1>5, <1>6, FS_Injection
<1>8. j - 1 \in 0 .. (n - 1)
  BY <1>1
<1>9. PICK i \in S : f[i] = j - 1
  <2> HIDE DEF n
  <2> QED
    BY <1>7, <1>8 DEF Surjection
<1> QED
  BY <1>4, <1>9

LEMMA AscendingIs ==
    ASSUME NEW S \in SUBSET Nat, IsFiniteSet(S)
    PROVE  /\ Cardinality(S) \in Nat
           /\ Cardinality(S) = 0 <=> S = {}
           /\ Ascending(S) \in [1 .. Cardinality(S) -> S]
           /\ \A m \in S : (\A n \in S : n <= m) => Ascending(S)[Cardinality(S)] = m
<1> DEFINE c == Cardinality(S)
           rank(i) == Cardinality({k \in S : k < i})
<1>1. c \in Nat /\ (c = 0 <=> S = {})
  BY FS_CardinalityType, FS_EmptySet
<1>2. ASSUME NEW j \in 1 .. c
      PROVE  Ascending(S)[j] \in S /\ rank(Ascending(S)[j]) = j - 1
  <2>1. \E i \in S : rank(i) = j - 1
    BY Ranks
  <2>2. Ascending(S)[j] = CHOOSE i \in S : rank(i) = j - 1
    BY DEF Ascending
  <2> HIDE DEF rank
  <2> QED
    BY <2>1, <2>2
<1>3. Ascending(S) \in [1 .. c -> S]
  BY <1>2 DEF Ascending
<1>4. ASSUME NEW m \in S, \A n \in S : n <= m
      PROVE  Ascending(S)[c] = m
  <2>1. c \in 1 .. c
    BY <1>1
  <2>2. PICK i \in S : i = Ascending(S)[c]
    BY <1>2, <2>1
  <2>3. rank(i) = c - 1
    BY <2>1, <2>2, <1>2
  <2>4. ASSUME i < m
        PROVE  FALSE
    <3>1. /\ IsFiniteSet(S \ {i}) /\ Cardinality(S \ {i}) = c - 1
      BY FS_RemoveElement
    <3>2. {k \in S : k < i} \in SUBSET (S \ {i})
      OBVIOUS
    <3>3. {k \in S : k < i} = S \ {i}
      BY <3>1, <3>2, <2>3, FS_Subset
    <3> QED
      BY <3>3, <2>4
  <2> QED
    BY <2>2, <2>4, <1>4
<1> QED
  BY <1>1, <1>3, <1>4

LEMMA SetToSeqIs ==
    ASSUME NEW S, IsFiniteSet(S)
    PROVE  SetToSeq(S) \in [1 .. Cardinality(S) -> S] /\ Cardinality(S) \in Nat
<1>1. Cardinality(S) \in Nat /\ ExistsBijection(1 .. Cardinality(S), S)
  BY FS_CardinalityType
<1>2. PICK f : f \in Bijection(1 .. Cardinality(S), S)
  BY <1>1 DEF ExistsBijection
<1>3. f \in [1 .. Cardinality(S) -> S] /\ IsInjective(f)
  BY <1>2 DEF Bijection, Injection, IsInjective
<1> QED
  BY <1>1, <1>3 DEF SetToSeq

USE PRAssumption, DropBoundAssumption

-----------------------------------------------------------------------------
(* Types                                                                   *)

\* The sites there are: version 0, PHIs and statements.
Sites == {s \in Site : s[2] <= Len(code[s[1]])}
Users == {u \in User : u.i <= Len(code[u.bb])}
Links == [pr : PR, site : Sites, user : Users]

LiveTypes ==
    /\ code \in [Block -> Seq(Stmt)]
    /\ pc \in {"perform", "solve", "solved", "fade", "live", "place", "rename",
               "refine", "built"}
    /\ count \in 0 .. SweepBound
    /\ pc \in {"perform", "solve"} => count < SweepBound
    /\ rounds \in 0 .. FadeBound
    /\ pc = "fade" => rounds < FadeBound
    /\ redundant \subseteq PR

SSATypes ==
    /\ dom \in [Block -> SUBSET Block]
    /\ phi \in [PR -> SUBSET Block] /\ defbbs \in [PR -> SUBSET Block]
    /\ link \subseteq Links
    /\ stack \in [PR -> Seq(Sites)] /\ path \in Seq(Block) /\ renamed \subseteq Block
    /\ saved \in [Block -> [PR -> Sites]]
    /\ work \in Seq(Block) /\ inList \subseteq Block /\ drops \in 0 .. DropBound

TypeInv == LiveTypes /\ SSATypes

\* An image of a finite set is finite.
LEMMA ImageFinite ==
    ASSUME NEW S, IsFiniteSet(S), NEW f, DOMAIN f = S, NEW T, \A t \in T : \E s \in S : f[s] = t
    PROVE  IsFiniteSet(T)
<1> DEFINE U == {f[s] : s \in S}
<1>1. PICK g : g = [s \in S |-> f[s]]
  OBVIOUS
<1>2. g \in Surjection(S, U)
  BY <1>1 DEF Surjection
<1>3. IsFiniteSet(U)
  <2> HIDE DEF U
  <2> QED
    BY <1>2, FS_Surjection
<1>4. T \in SUBSET U
  OBVIOUS
<1> QED
  <2> HIDE DEF U
  <2> QED
    BY <1>3, <1>4, FS_Subset

LEMMA BlockFinite == IsFiniteSet(Block) /\ Block \subseteq Nat /\ Entry \in Block
BY FS_Interval DEF Block, Entry

LEMMA LinksFinite == ASSUME code \in [Block -> Seq(Stmt)] PROVE IsFiniteSet(Links)
<1>1. PICK lens : lens = [b \in Block |-> Len(code[b])]
  OBVIOUS
<1>2. \A b \in Block : lens[b] \in Nat
  BY <1>1
<1> DEFINE L == {lens[b] : b \in Block}
<1>3. IsFiniteSet(L) /\ L \in SUBSET Nat /\ L # {}
  <2>1. IsFiniteSet(L)
    <3>1. DOMAIN lens = Block /\ \A t \in L : \E b \in Block : lens[b] = t
      BY <1>1
    <3> HIDE DEF L
    <3> QED
      BY <3>1, ImageFinite, BlockFinite
  <2> QED
    BY <2>1, <1>2, BlockFinite
<1>4. PICK m \in Nat : \A b \in Block : Len(code[b]) <= m
  <2>1. PICK m \in L : \A n \in L : n <= m
    <3> HIDE DEF L
    <3> QED
      BY <1>3, MaximumOf
  <2> QED
    BY <2>1, <1>1, <1>2
<1> DEFINE P == Block \X (0 .. m)
           K == (PR \X P) \X (P \X Block)
           rec(k) == [pr |-> k[1][1], site |-> k[1][2],
                      user |-> [bb |-> k[2][1][1], i |-> k[2][1][2], from |-> k[2][2]]]
<1>5. IsFiniteSet(K)
  <2>1. IsFiniteSet(0 .. m)
    BY FS_Interval
  <2>2. IsFiniteSet(P)
    BY <2>1, BlockFinite, FS_Product
  <2>3. IsFiniteSet(PR \X P) /\ IsFiniteSet(P \X Block)
    <3> HIDE DEF P
    <3> QED
      BY <2>2, BlockFinite, FS_Product
  <2> HIDE DEF P
  <2> QED
    BY <2>3, FS_Product
<1>6. ASSUME NEW l \in Links
      PROVE  \E k \in K : rec(k) = l
  <2>1. l \in [pr : PR, site : Sites, user : Users]
    BY DEF Links
  <2>2. l.site \in Block \X Nat /\ l.site[2] <= Len(code[l.site[1]])
    BY <2>1 DEF Sites, Site
  <2>3. l.user \in [bb : Block, i : Nat, from : Block] /\ l.user.i <= Len(code[l.user.bb])
    BY <2>1 DEF Users, User
  <2>4. l.site \in P
    <3>1. l.site[1] \in Block /\ l.site[2] \in Nat /\ l.site = <<l.site[1], l.site[2]>>
      BY <2>2
    <3>2. l.site[2] \in 0 .. m
      BY <1>4, <2>2, <3>1
    <3> QED
      BY <3>1, <3>2
  <2>5. l.user.bb \in Block /\ l.user.i \in 0 .. m /\ l.user.from \in Block
    BY <1>4, <2>3
  <2> DEFINE k == <<<<l.pr, l.site>>, <<<<l.user.bb, l.user.i>>, l.user.from>>>>
  <2>6. k \in K
    BY <2>1, <2>4, <2>5
  <2>7. l.user = [bb |-> l.user.bb, i |-> l.user.i, from |-> l.user.from]
    BY <2>3
  <2>8. l = [pr |-> l.pr, site |-> l.site, user |-> l.user]
    BY <2>1
  <2>9. rec(k) = l
    BY <2>7, <2>8
  <2> QED
    BY <2>6, <2>9
<1>7. PICK f : f = [k \in K |-> rec(k)]
  OBVIOUS
<1> HIDE DEF K, rec
<1>8. DOMAIN f = K /\ \A l \in Links : \E k \in K : f[k] = l
  BY <1>6, <1>7
<1> QED
  BY <1>5, <1>8, ImageFinite

LEMMA SitesAre ==
    ASSUME LiveTypes, NEW p \in PR, NEW b \in Block
    PROVE  /\ SitesIn(p, b) \subseteq 0 .. Len(code[b])
           /\ SitesIn(p, b) \in SUBSET Nat /\ IsFiniteSet(SitesIn(p, b))
           /\ \A i \in SitesIn(p, b) : <<b, i>> \in Sites
<1>1. code[b] \in Seq(Stmt) /\ Len(code[b]) \in Nat /\ DOMAIN code[b] = 1 .. Len(code[b])
  BY DEF LiveTypes
<1>2. SitesIn(p, b) \subseteq 0 .. Len(code[b])
  BY <1>1 DEF SitesIn, Writes
<1>3. IsFiniteSet(0 .. Len(code[b]))
  BY <1>1, FS_Interval
<1>4. IsFiniteSet(SitesIn(p, b))
  BY <1>2, <1>3, FS_Subset
<1>5. ASSUME NEW i \in 0 .. Len(code[b])
      PROVE  <<b, i>> \in Sites
  BY <1>1 DEF Sites, Site
<1> QED
  BY <1>1, <1>2, <1>4, <1>5

\* The last of some sites of a block, as it is chosen.
LEMMA LastOf ==
    ASSUME NEW S \in SUBSET Nat, IsFiniteSet(S), S # {}
    PROVE  LET m == CHOOSE j \in S : \A k \in S : k <= j
           IN  m \in S /\ \A k \in S : k <= m
<1>1. \E j \in S : \A k \in S : k <= j
  BY MaximumOf
<1> QED
  BY <1>1

LEMMA LastInIs ==
    ASSUME LiveTypes, NEW p \in PR, NEW b \in Block, SitesIn(p, b) # {}
    PROVE  /\ LastIn(p, b) \in SitesIn(p, b)
           /\ \A i \in SitesIn(p, b) : i <= LastIn(p, b)
           /\ <<b, LastIn(p, b)>> \in Sites
BY SitesAre, LastOf DEF LastIn

LEMMA Version0IsSite == ASSUME LiveTypes PROVE Version0 \in Sites
<1>1. code[Entry] \in Seq(Stmt) /\ Len(code[Entry]) \in Nat
  BY BlockFinite DEF LiveTypes
<1> QED
  BY <1>1, BlockFinite DEF Version0, Sites, Site

LEMMA TopIsSite ==
    ASSUME LiveTypes, NEW s \in Seq(Sites)
    PROVE  Top(s) \in Sites
<1>1. CASE s = <<>>
  BY <1>1, Version0IsSite DEF Top
<1>2. CASE s # <<>>
  BY <1>2 DEF Top, Last
<1> QED
  BY <1>1, <1>2

LEMMA PushedIs ==
    ASSUME LiveTypes, NEW p \in PR, NEW b \in Block
    PROVE  /\ Pushed(p, b) \in Seq(Sites)
           /\ Len(Pushed(p, b)) = 0 <=> SitesIn(p, b) = {}
           /\ \A j \in 1 .. Len(Pushed(p, b)) :
                 Pushed(p, b)[j] \in {b} \X SitesIn(p, b)
           /\ SitesIn(p, b) # {} =>
                 Pushed(p, b)[Len(Pushed(p, b))] = <<b, LastIn(p, b)>>
<1> DEFINE S == SitesIn(p, b)
<1>1. /\ Cardinality(S) \in Nat
      /\ Cardinality(S) = 0 <=> S = {}
      /\ Ascending(S) \in [1 .. Cardinality(S) -> S]
      /\ \A m \in S : (\A n \in S : n <= m) => Ascending(S)[Cardinality(S)] = m
  <2>1. S \in SUBSET Nat /\ IsFiniteSet(S)
    BY SitesAre
  <2> HIDE DEF S
  <2> QED
    BY <2>1, AscendingIs
<1>2. Pushed(p, b) = [j \in 1 .. Cardinality(S) |-> <<b, Ascending(S)[j]>>]
  BY DEF Pushed
<1>3. \A i \in S : <<b, i>> \in Sites
  BY SitesAre
<1>4. S # {} => LastIn(p, b) \in S /\ \A i \in S : i <= LastIn(p, b)
  BY LastInIs
<1> HIDE DEF S
<1>5. Pushed(p, b) \in [1 .. Cardinality(S) -> Sites]
  BY <1>1, <1>2, <1>3
<1>6. Pushed(p, b) \in Seq(Sites) /\ Len(Pushed(p, b)) = Cardinality(S)
  BY <1>1, <1>5
<1>7. S # {} => Pushed(p, b)[Len(Pushed(p, b))] = <<b, LastIn(p, b)>>
  <2> SUFFICES ASSUME S # {} PROVE Pushed(p, b)[Cardinality(S)] = <<b, LastIn(p, b)>>
    BY <1>6
  <2>1. Cardinality(S) \in 1 .. Cardinality(S)
    BY <1>1
  <2> QED
    BY <2>1, <1>1, <1>2, <1>4
<1>8. \A j \in 1 .. Cardinality(S) : Pushed(p, b)[j] \in {b} \X S
  BY <1>1, <1>2
<1> QED
  BY <1>1, <1>6, <1>7, <1>8 DEF S

\* PoppedTo keeps the versions up to the last v.
LEMMA PoppedToIs ==
    ASSUME NEW T, NEW s \in Seq(T), NEW v, v \in Range(s)
    PROVE  \E k \in 1 .. Len(s) : /\ s[k] = v
                                  /\ \A j \in 1 .. Len(s) : s[j] = v => j <= k
                                  /\ PoppedTo(s, v) = SubSeq(s, 1, k)
<1> DEFINE K == {k \in 1 .. Len(s) : s[k] = v}
<1>1. Len(s) \in Nat /\ DOMAIN s = 1 .. Len(s)
  OBVIOUS
<1>2. K # {} /\ K \in SUBSET Nat /\ K \in SUBSET (1 .. Len(s))
  BY <1>1 DEF Range
<1>3. IsFiniteSet(1 .. Len(s))
  BY <1>1, FS_Interval
<1>4. \E m \in K : \A n \in K : n <= m
  <2> HIDE DEF K
  <2> QED
    BY <1>2, <1>3, FS_Subset, MaximumOf
<1>5. \E k \in DOMAIN s : s[k] = v /\ \A j \in DOMAIN s : s[j] = v => j <= k
  BY <1>1, <1>4
<1> DEFINE m == CHOOSE k \in DOMAIN s : s[k] = v /\ \A j \in DOMAIN s : s[j] = v => j <= k
<1>6. m \in DOMAIN s /\ s[m] = v /\ \A j \in DOMAIN s : s[j] = v => j <= m
  BY <1>5
<1>7. PoppedTo(s, v) = SubSeq(s, 1, m)
  BY DEF PoppedTo
<1> HIDE DEF m
<1> QED
  BY <1>1, <1>6, <1>7

\* The recursion over the operands has values up to every position.
ListedBy(f, start, ls) ==
    /\ f[0] = start
    /\ \A i \in 1 .. Len(ls) :
          f[i] = [work |-> f[i - 1].work
                           \o IF ls[i].site[1] \in f[i - 1].inList
                              THEN <<ls[i].site[1]>>
                              ELSE <<ls[i].site[1], ls[i].site[1]>>,
                  inList |-> f[i - 1].inList \cup {ls[i].site[1]}]

LEMMA ListedIs ==
    ASSUME NEW start, NEW ls, Len(ls) \in Nat
    PROVE  \E f : Listed(start, ls) = f[Len(ls)] /\ ListedBy(f, start, ls)
<1> DEFINE n == Len(ls)
           Step(i, r) == LET d == ls[i].site[1]
                         IN  [work |-> r.work \o IF d \in r.inList THEN <<d>> ELSE <<d, d>>,
                              inList |-> r.inList \cup {d}]
           Upto(k, f) == f = [i \in 0 .. k |-> IF i = 0 THEN start ELSE Step(i, f[i - 1])]
           Long == {m \in 0 .. n : \E f : Upto(m, f)}
\* Of the positions up to which it has, none but the last is the greatest.
<1>1. \E f : Upto(n, f)
  <2>1. Long \in SUBSET Nat /\ Long \in SUBSET (0 .. n)
    <3> HIDE DEF Upto
    <3> QED
      OBVIOUS
  <2>2. 0 \in Long
    <3>1. \E f : Upto(0, f)
      <4>1. Upto(0, [i \in 0 .. 0 |-> start])
        OBVIOUS
      <4> HIDE DEF Upto
      <4> QED
        BY <4>1
    <3> HIDE DEF Upto
    <3> QED
      BY <3>1
  <2>3. IsFiniteSet(0 .. n)
    BY FS_Interval
  <2>4. PICK k \in Long : \A m \in Long : m <= k
    <3> HIDE DEF Long
    <3> QED
      BY <2>1, <2>2, <2>3, FS_Subset, MaximumOf
  <2>5. k \in 0 .. n
    BY <2>1
  <2>6. PICK f : Upto(k, f)
    BY <2>4
  <2>7. ASSUME k # n
        PROVE  FALSE
    <3>1. k + 1 \in 1 .. n /\ k + 1 \in 0 .. n /\ k \in 0 .. k
      BY <2>5, <2>7
    <3> DEFINE h == [i \in 0 .. (k + 1) |-> IF i = k + 1 THEN Step(k + 1, f[k]) ELSE f[i]]
    <3>2. \A j \in 0 .. k : f[j] = IF j = 0 THEN start ELSE Step(j, f[j - 1])
      <4> HIDE DEF Step
      <4> QED
        BY <2>6
    <3>3. (\A j \in 0 .. k : h[j] = f[j]) /\ h[k + 1] = Step(k + 1, f[k])
      <4> HIDE DEF Step, Upto
      <4> QED
        BY <2>5
    <3>4. ASSUME NEW i \in 0 .. (k + 1)
          PROVE  h[i] = IF i = 0 THEN start ELSE Step(i, h[i - 1])
      <4> HIDE DEF Step, Upto, h
      <4>1. CASE i = k + 1
        <5>1. i - 1 = k /\ i # 0
          BY <4>1, <2>5
        <5> QED
          BY <4>1, <5>1, <3>1, <3>3
      <4>2. CASE i = 0
        <5>1. 0 \in 0 .. k
          BY <2>5
        <5> QED
          BY <4>2, <5>1, <3>2, <3>3
      <4>3. CASE i # k + 1 /\ i # 0
        <5>1. i \in 0 .. k /\ i - 1 \in 0 .. k
          BY <4>3, <2>5
        <5> QED
          BY <4>3, <5>1, <3>2, <3>3
      <4> QED
        BY <4>1, <4>2, <4>3
    <3>5. Upto(k + 1, h)
      <4>1. h = [i \in 0 .. (k + 1) |-> h[i]]
        OBVIOUS
      <4> HIDE DEF Step, h
      <4> QED
        BY <3>4, <4>1
    <3>6. k + 1 \in Long
      <4> HIDE DEF h, Upto
      <4> QED
        BY <3>1, <3>5
    <3>7. k + 1 <= k
      <4> HIDE DEF Long
      <4> QED
        BY <2>4, <3>6
    <3> QED
      BY <3>7, <2>5
  <2> QED
    BY <2>6, <2>7
<1> DEFINE g == CHOOSE f : Upto(n, f)
<1>2. Upto(n, g)
  <2> HIDE DEF Upto
  <2> QED
    BY <1>1
<1>3. Listed(start, ls) = g[n]
  BY DEF Listed
<1> HIDE DEF g
<1>4. \A i \in 0 .. n : g[i] = IF i = 0 THEN start ELSE Step(i, g[i - 1])
  <2> HIDE DEF Step
  <2> QED
    BY <1>2
<1>5. 0 \in 0 .. n /\ \A i \in 1 .. n : i \in 0 .. n /\ i # 0
  OBVIOUS
<1>6. ListedBy(g, start, ls)
  BY <1>4, <1>5 DEF ListedBy
<1> QED
  BY <1>3, <1>6

LEMMA ListedTyped ==
    ASSUME NEW start, start.work \in Seq(Block), start.inList \subseteq Block,
           NEW ls, Len(ls) \in Nat, \A i \in 1 .. Len(ls) : ls[i].site[1] \in Block
    PROVE  /\ Listed(start, ls).work \in Seq(Block)
           /\ Listed(start, ls).inList \subseteq Block
<1>1. PICK f : Listed(start, ls) = f[Len(ls)] /\ ListedBy(f, start, ls)
  BY ListedIs
<1> DEFINE n == Len(ls)
           Good(i) == f[i].work \in Seq(Block) /\ f[i].inList \subseteq Block
           G == {m \in 0 .. n : Good(m)}
<1>2. ASSUME NEW i \in 1 .. n, Good(i - 1)
      PROVE  Good(i)
  <2>1. PICK d \in Block : d = ls[i].site[1]
    OBVIOUS
  <2>2. PICK w \in Seq(Block) : w = f[i - 1].work
    BY <1>2
  <2>3. PICK v : v = IF d \in f[i - 1].inList THEN <<d>> ELSE <<d, d>>
    OBVIOUS
  <2>5. f[i] = [work |-> w \o v, inList |-> f[i - 1].inList \cup {d}]
    BY <1>1, <2>1, <2>2, <2>3 DEF ListedBy
  <2>6. f[i].work = w \o v /\ f[i].inList = f[i - 1].inList \cup {d}
    BY <2>5
  <2>4. <<d>> \in Seq(Block) /\ <<d, d>> \in Seq(Block)
    OBVIOUS
  <2>7. v \in Seq(Block)
    BY <2>3, <2>4
  <2> QED
    BY <2>2, <2>6, <2>7, <1>2
<1> HIDE DEF Good
<1>3. \A i \in 0 .. n : Good(i)
  <2>1. Good(0)
    BY <1>1 DEF Good, ListedBy
  <2> DEFINE H == {m \in 0 .. n : \A i \in 0 .. m : Good(i)}
  <2>2. 0 \in H
    BY <2>1
  <2>3. IsFiniteSet(H) /\ H \in SUBSET Nat
    <3>1. H \in SUBSET (0 .. n) /\ H \in SUBSET Nat
      OBVIOUS
    <3>2. IsFiniteSet(0 .. n)
      BY FS_Interval
    <3> HIDE DEF H
    <3> QED
      BY <3>1, <3>2, FS_Subset
  <2>4. PICK k \in H : \A m \in H : m <= k
    <3> HIDE DEF H
    <3> QED
      BY <2>2, <2>3, MaximumOf
  <2>5. k = n
    <3> SUFFICES ASSUME k # n PROVE FALSE
      OBVIOUS
    <3>1. k \in 0 .. n /\ k + 1 \in 1 .. n /\ (k + 1) - 1 = k /\ k \in 0 .. k
      OBVIOUS
    <3>2. Good(k + 1)
      BY <3>1, <1>2
    <3>3. \A i \in 0 .. (k + 1) : i \in 0 .. k \/ i = k + 1
      BY <3>1
    <3>4. k + 1 \in H
      BY <3>1, <3>2, <3>3
    <3>5. k + 1 <= k
      BY <2>4, <3>4
    <3> QED
      BY <3>1, <3>5
  <2> QED
    BY <2>5
<1> QED
  BY <1>1, <1>3 DEF Good

\* What a block defines in front of its statement i.
Above(p, b, i) == {j \in SitesIn(p, b) : j < i}
LastAmong(S) == CHOOSE j \in S : \A k \in S : k <= j

LEMMA LastAmongIs ==
    ASSUME LiveTypes, NEW p \in PR, NEW b \in Block, NEW i, Above(p, b, i) # {}
    PROVE  /\ LastAmong(Above(p, b, i)) \in Above(p, b, i)
           /\ \A k \in Above(p, b, i) : k <= LastAmong(Above(p, b, i))
           /\ <<b, LastAmong(Above(p, b, i))>> \in Sites
<1>1. PICK S : S = Above(p, b, i)
  OBVIOUS
<1>2. S \in SUBSET Nat /\ S \in SUBSET SitesIn(p, b) /\ IsFiniteSet(S)
  BY <1>1, SitesAre, FS_Subset DEF Above
<1>3. LastAmong(S) \in S /\ \A k \in S : k <= LastAmong(S)
  BY <1>1, <1>2, LastOf DEF LastAmong
<1> QED
  BY <1>1, <1>2, <1>3, SitesAre

LEMMA VersionAtIs ==
    ASSUME NEW p, NEW b, NEW i
    PROVE  VersionAt(p, b, i) = IF Above(p, b, i) = {} THEN Top(stack[p])
                                ELSE <<b, LastAmong(Above(p, b, i))>>
BY DEF VersionAt, Above, LastAmong

LEMMA VersionAtIsSite ==
    ASSUME LiveTypes, NEW p \in PR, NEW b \in Block, NEW i, stack[p] \in Seq(Sites)
    PROVE  VersionAt(p, b, i) \in Sites
BY VersionAtIs, LastAmongIs, TopIsSite

LEMMA RenamedInLinks ==
    ASSUME TypeInv, NEW b \in Block
    PROVE  RenamedIn(b) \subseteq Links
<1>1. ASSUME NEW p \in PR, NEW i \in DOMAIN code[b]
      PROVE  [pr |-> p, site |-> VersionAt(p, b, i), user |-> Reader(b, i)] \in Links
  <2>1. VersionAt(p, b, i) \in Sites
    BY VersionAtIsSite DEF TypeInv, SSATypes
  <2>2. i \in 1 .. Len(code[b]) /\ Len(code[b]) \in Nat
    BY DEF TypeInv, LiveTypes
  <2>3. Reader(b, i) \in Users
    BY <2>2 DEF Reader, Users, User
  <2> QED
    BY <2>1, <2>3 DEF Links
<1> QED
  BY <1>1 DEF RenamedIn

LEMMA OperandsFromLinks ==
    ASSUME TypeInv, NEW b \in Block, NEW top, \A p \in PR : top[p] \in Seq(Sites)
    PROVE  OperandsFrom(b, top) \subseteq Links
<1>1. ASSUME NEW p \in PR, NEW s \in phi[p]
      PROVE  [pr |-> p, site |-> Top(top[p]), user |-> Operand(s, b)] \in Links
  <2>1. Top(top[p]) \in Sites
    BY TopIsSite DEF TypeInv
  <2>2. s \in Block /\ Len(code[s]) \in Nat
    BY DEF TypeInv, SSATypes, LiveTypes
  <2>3. Operand(s, b) \in Users
    BY <2>2 DEF Operand, Users, User
  <2> QED
    BY <2>1, <2>3 DEF Links
<1> QED
  BY <1>1 DEF OperandsFrom

LEMMA RelinkedLinks ==
    ASSUME TypeInv, NEW p \in PR, NEW b \in Block, Redundant(p, b), NEW ls \in SUBSET Links
    PROVE  Relinked(p, b, ls) \subseteq Links
<1>1. Others(p, b) # {}
  BY FS_EmptySet DEF Redundant
<1>2. Others(p, b) \subseteq Sites
  BY DEF Others, Operands, TypeInv, SSATypes, Links
<1>3. PICK d \in Sites : d = CHOOSE e \in Others(p, b) : TRUE
  BY <1>1, <1>2
<1>4. ASSUME NEW l \in Links
      PROVE  [l EXCEPT !.site = d] \in Links
  BY DEF Links
<1> QED
  BY <1>3, <1>4 DEF Relinked

LEMMA SSAInitTypes == SSAInit => TypeInv
<1> SUFFICES ASSUME SSAInit PROVE TypeInv
  OBVIOUS
<1>1. LiveTypes
  <2>1. PICK prog \in Programs : code = prog.code
    BY DEF SSAInit, LiveInit
  <2>2. code \in [Block -> Seq(Stmt)]
    BY <2>1, ProgramsAssumption
  <2>3. /\ pc = "perform" /\ count = 0 /\ rounds = 0 /\ redundant = {}
        /\ SweepBound \in Nat \ {0} /\ FadeBound \in Nat \ {0}
    BY DEF SSAInit, LiveInit
  <2> QED
    BY <2>2, <2>3 DEF LiveTypes
<1>2. Version0 \in Sites
  BY <1>1, Version0IsSite
<1>3. <<>> \in Seq(Sites) /\ <<>> \in Seq(Block)
  OBVIOUS
<1>4. /\ dom = [b \in Block |-> {}] /\ phi = [p \in PR |-> {}] /\ defbbs = [p \in PR |-> {}]
      /\ link = {} /\ stack = [p \in PR |-> <<>>] /\ path = <<>> /\ renamed = {}
      /\ saved = [b \in Block |-> [p \in PR |-> Version0]]
      /\ work = <<>> /\ inList = {} /\ drops = 0 /\ DropBound \in Nat
  BY DEF SSAInit
<1>5. saved \in [Block -> [PR -> Sites]] /\ stack \in [PR -> Seq(Sites)]
  BY <1>2, <1>3, <1>4
<1> QED
  BY <1>1, <1>3, <1>4, <1>5 DEF TypeInv, SSATypes

LEMMA LiveNextTypes == Types /\ TypeInv /\ LiveNext /\ UNCHANGED ssaVars => TypeInv'
<1> SUFFICES ASSUME Types, TypeInv, LiveNext, UNCHANGED ssaVars PROVE TypeInv'
  OBVIOUS
<1>1. code' = code /\ SSATypes'
  <2>1. code' = code
    BY DEF LiveNext, program, Perform, SweepBB, SweepAgain, Solved, NothingRedundant, Eliminate,
       FadeBB, FadeAgain, Faded
  <2>2. Sites' = Sites /\ Links' = Links
    BY <2>1 DEF Sites, Links, Users
  <2>3. /\ dom' = dom /\ phi' = phi /\ defbbs' = defbbs /\ link' = link /\ stack' = stack
        /\ path' = path /\ renamed' = renamed /\ saved' = saved /\ work' = work
        /\ inList' = inList /\ drops' = drops
    BY DEF ssaVars
  <2>4. SSATypes
    BY DEF TypeInv
  <2>5. link' \subseteq Links' /\ stack' \in [PR -> Seq(Sites')] /\ saved' \in [Block -> [PR -> Sites']]
    BY <2>2, <2>3, <2>4 DEF SSATypes
  <2> QED
    BY <2>1, <2>3, <2>4, <2>5 DEF SSATypes
<1>2. LiveTypes /\ SweepBound \in Nat \ {0} /\ FadeBound \in Nat \ {0}
  BY DEF TypeInv
<1> USE <1>1, <1>2 DEF LiveTypes
<1>3. CASE Perform
  BY <1>3 DEF Perform, fading, TypeInv
<1>4. CASE SweepBB
  BY <1>4 DEF SweepBB, fading, TypeInv
<1>5. CASE SweepAgain
  BY <1>5 DEF SweepAgain, fading, TypeInv
<1>6. CASE Solved
  BY <1>6 DEF Solved, fading, TypeInv
<1>7. CASE NothingRedundant
  BY <1>7 DEF NothingRedundant, fading, solving, TypeInv
<1>8. CASE Eliminate
  <2>1. redundant' \subseteq PR
    BY <1>8, BlockFinite DEF Eliminate, Types
  <2> QED
    BY <1>8, <2>1 DEF Eliminate, fading, TypeInv
<1>9. ASSUME NEW v \in Block, FadeBB(v)
      PROVE  TypeInv'
  BY <1>9 DEF FadeBB, solving, TypeInv
<1>10. CASE FadeAgain
  BY <1>10 DEF FadeAgain, solving, TypeInv
<1>11. CASE Faded
  BY <1>11 DEF Faded, TypeInv
<1> QED
  BY <1>3, <1>4, <1>5, <1>6, <1>7, <1>8, <1>9, <1>10, <1>11 DEF LiveNext

\* What keeps the code keeps the sites, users and links there are.
LEMMA LaterTypes ==
    ASSUME TypeInv, code' = code, count' = count, rounds' = rounds, redundant' = redundant,
           pc' \in {"place", "rename", "refine", "built"}
    PROVE  LiveTypes' /\ Sites' = Sites /\ Links' = Links
BY DEF TypeInv, LiveTypes, Sites, Links, Users

LEMMA PlaceTypes ==
    ASSUME TypeInv, InitMapInfo \/ PlacePhi \/ InitVPRStack
    PROVE  TypeInv'
<1>1. /\ code' = code /\ count' = count /\ rounds' = rounds /\ redundant' = redundant
      /\ pc' \in {"place", "rename", "refine", "built"}
  BY DEF InitMapInfo, PlacePhi, InitVPRStack, liveVars, program, solving, fading
<1>2. LiveTypes' /\ Sites' = Sites /\ Links' = Links
  BY <1>1, LaterTypes
<1>3. SSATypes /\ Version0 \in Sites
  BY Version0IsSite DEF TypeInv
<1> USE <1>2, <1>3 DEF TypeInv, SSATypes
<1>4. CASE InitMapInfo
  BY <1>4 DEF InitMapInfo, Doms, DefBBs
<1>5. CASE PlacePhi
  BY <1>5 DEF PlacePhi, Placed, DF
<1>6. CASE InitVPRStack
  <2>1. stack' \in [PR -> Seq(Sites)]
    BY <1>6 DEF InitVPRStack
  <2> QED
    BY <1>6, <2>1 DEF InitVPRStack
<1> QED
  BY <1>4, <1>5, <1>6

LEMMA VisitTypes ==
    ASSUME TypeInv, NEW b \in Block, VisitBB(b)
    PROVE  TypeInv'
<1>0. /\ code' = code /\ count' = count /\ rounds' = rounds /\ redundant' = redundant
      /\ pc' \in {"place", "rename", "refine", "built"}
  BY DEF VisitBB, liveVars, program, solving, fading
<1>1. LiveTypes' /\ Sites' = Sites /\ Links' = Links
  BY <1>0, LaterTypes
<1>2. LiveTypes /\ SSATypes
  BY DEF TypeInv
<1> DEFINE top == [p \in PR |-> stack[p] \o Pushed(p, b)]
<1>3. \A p \in PR : top[p] \in Seq(Sites)
  BY <1>2, PushedIs DEF SSATypes
<1>4. \A p \in PR : Top(stack[p]) \in Sites
  BY <1>2, TopIsSite DEF SSATypes
<1>5. stack' = top /\ link' = link \cup RenamedIn(b) \cup OperandsFrom(b, top)
  BY DEF VisitBB
<1> HIDE DEF top
<1>6. link' \subseteq Links
  BY <1>2, <1>3, <1>5, RenamedInLinks, OperandsFromLinks DEF SSATypes
<1>7. stack' \in [PR -> Seq(Sites)]
  BY <1>3, <1>5 DEF top
<1>8. saved' \in [Block -> [PR -> Sites]]
  BY <1>2, <1>4 DEF VisitBB, SSATypes
<1>9. path' \in Seq(Block) /\ renamed' \subseteq Block
  BY <1>2 DEF VisitBB, SSATypes
<1>10. /\ dom' = dom /\ phi' = phi /\ defbbs' = defbbs /\ work' = work /\ inList' = inList
       /\ drops' = drops
  BY DEF VisitBB
<1> QED
  BY <1>1, <1>2, <1>6, <1>7, <1>8, <1>9, <1>10 DEF TypeInv, SSATypes

LEMMA LeaveTypes == TypeInv /\ LeaveBB => TypeInv'
<1> SUFFICES ASSUME TypeInv, LeaveBB PROVE TypeInv'
  OBVIOUS
<1>0. /\ code' = code /\ count' = count /\ rounds' = rounds /\ redundant' = redundant
      /\ pc' \in {"place", "rename", "refine", "built"}
  BY DEF LeaveBB, liveVars, program, solving, fading
<1>1. LiveTypes' /\ Sites' = Sites /\ Links' = Links
  BY <1>0, LaterTypes
<1>2. LiveTypes /\ SSATypes
  BY DEF TypeInv
<1>3. PICK b : b = Last(path)
  OBVIOUS
<1>4. stack' \in [PR -> Seq(Sites)] /\ path' \in Seq(Block)
  <2>1. CASE Found(b)
    <3>1. /\ stack' = [p \in PR |-> IF p \in Defined(b) THEN PoppedTo(stack[p], saved[b][p])
                                    ELSE stack[p]]
          /\ path # <<>> /\ path' = Front(path)
      BY <1>3, <2>1 DEF LeaveBB
    <3>2. path' \in Seq(Block)
      BY <3>1, <1>2 DEF SSATypes, Front
    <3>3. ASSUME NEW p \in Defined(b)
          PROVE  PoppedTo(stack[p], saved[b][p]) \in Seq(Sites)
      <4>1. stack[p] \in Seq(Sites) /\ saved[b][p] \in Range(stack[p])
        BY <2>1, <1>2 DEF Found, SSATypes, Defined
      <4>2. PICK k \in 1 .. Len(stack[p]) : PoppedTo(stack[p], saved[b][p]) = SubSeq(stack[p], 1, k)
        BY <4>1, PoppedToIs
      <4> QED
        BY <4>1, <4>2
    <3> QED
      BY <3>1, <3>2, <3>3, <1>2 DEF SSATypes
  <2>2. CASE ~Found(b)
    BY <1>2, <1>3, <2>2 DEF LeaveBB, SSATypes
  <2> QED
    BY <2>1, <2>2
<1>5. /\ dom' = dom /\ phi' = phi /\ defbbs' = defbbs /\ work' = work /\ inList' = inList
      /\ drops' = drops /\ link' = link /\ renamed' = renamed /\ saved' = saved
  BY DEF LeaveBB
<1>6. saved' \in [Block -> [PR -> Sites]] /\ link' \subseteq Links
  BY <1>2, <1>5 DEF SSATypes
<1> QED
  BY <1>1, <1>2, <1>4, <1>5, <1>6 DEF TypeInv, SSATypes

LEMMA AscendingTyped ==
    ASSUME NEW S \in SUBSET Block
    PROVE  Ascending(S) \in Seq(Block)
<1>1. S \in SUBSET Nat /\ IsFiniteSet(S)
  BY BlockFinite, FS_Subset
<1>2. Ascending(S) \in [1 .. Cardinality(S) -> S] /\ Cardinality(S) \in Nat
  BY <1>1, AscendingIs
<1> QED
  BY <1>2

LEMMA StartRefineTypes ==
    ASSUME TypeInv, StartRefine \/ RefineDone \/ \E b, s \in Block : DropEdge(b, s)
    PROVE  TypeInv'
<1>0. /\ code' = code /\ count' = count /\ rounds' = rounds /\ redundant' = redundant
      /\ pc' \in {"place", "rename", "refine", "built"}
  BY DEF StartRefine, RefineDone, DropEdge, liveVars, program, solving, fading
<1>1. LiveTypes' /\ Sites' = Sites /\ Links' = Links
  BY <1>0, LaterTypes
<1>2. LiveTypes /\ SSATypes
  BY DEF TypeInv
<1>3. HasPhi \in SUBSET Block
  BY DEF HasPhi
<1>4. Ascending(HasPhi) \in Seq(Block)
  BY <1>3, AscendingTyped
<1>5. /\ dom' = dom /\ phi' = phi /\ defbbs' = defbbs /\ stack' = stack /\ path' = path
      /\ saved' = saved /\ renamed' = renamed
  BY DEF StartRefine, RefineDone, DropEdge, ssaVars
<1>6. saved' \in [Block -> [PR -> Sites]] /\ stack' \in [PR -> Seq(Sites)]
  BY <1>2, <1>5 DEF SSATypes
<1>7. /\ link' \subseteq Links /\ work' \in Seq(Block) /\ inList' \subseteq Block
      /\ drops' \in 0 .. DropBound
  <2>1. CASE StartRefine
    BY <2>1, <1>2, <1>3, <1>4 DEF StartRefine, SSATypes
  <2>2. CASE RefineDone
    BY <2>2, <1>2 DEF RefineDone, ssaVars, SSATypes
  <2>3. ASSUME NEW b \in Block, NEW s \in Block, DropEdge(b, s)
        PROVE  /\ link' \subseteq Links /\ work' \in Seq(Block) /\ inList' \subseteq Block
               /\ drops' \in 0 .. DropBound
    <3>1. work' = Ascending(HasPhi) /\ inList' = HasPhi /\ link' \subseteq link
      BY <2>3 DEF DropEdge
    <3>2. drops \in 0 .. DropBound /\ drops < DropBound /\ drops' = drops + 1 /\ link \subseteq Links
      BY <2>3, <1>2 DEF DropEdge, SSATypes
    <3> QED
      BY <3>1, <3>2, <1>3, <1>4
  <2> QED
    BY <2>1, <2>2, <2>3
<1> QED
  BY <1>1, <1>2, <1>5, <1>6, <1>7 DEF TypeInv, SSATypes

LEMMA RefineTypes == TypeInv /\ RefineBB => TypeInv'
<1> SUFFICES ASSUME TypeInv, RefineBB PROVE TypeInv'
  OBVIOUS
<1>0. /\ code' = code /\ count' = count /\ rounds' = rounds /\ redundant' = redundant
      /\ pc' \in {"place", "rename", "refine", "built"}
  BY DEF RefineBB, liveVars, program, solving, fading
<1>1. LiveTypes' /\ Sites' = Sites /\ Links' = Links
  BY <1>0, LaterTypes
<1>2. LiveTypes /\ SSATypes
  BY DEF TypeInv
<1> DEFINE b == Head(work)
           gone == {p \in PR : Redundant(p, b)}
           ops == UNION {PhiOperands(p, b) : p \in gone}
           start == [work |-> Tail(work), inList |-> inList \ {b}]
           list == Listed(start, SetToSeq(ops))
<1>3. b \in Block /\ Tail(work) \in Seq(Block)
  BY <1>2 DEF RefineBB, SSATypes
<1>4. /\ phi' = [p \in PR |-> IF p \in gone THEN phi[p] \ {b} ELSE phi[p]]
      /\ link' = UNION {IF p \in gone THEN Relinked(p, b, {l \in link : l.pr = p})
                        ELSE {l \in link : l.pr = p} : p \in PR}
      /\ work' = list.work /\ inList' = list.inList
  BY DEF RefineBB
<1>5. phi' \in [PR -> SUBSET Block]
  BY <1>4, <1>2 DEF SSATypes
<1>6. link' \subseteq Links
  <2>1. ASSUME NEW p \in PR
        PROVE  (IF p \in gone THEN Relinked(p, b, {l \in link : l.pr = p})
                ELSE {l \in link : l.pr = p}) \subseteq Links
    <3>1. {l \in link : l.pr = p} \in SUBSET Links
      BY <1>2 DEF SSATypes
    <3> QED
      BY <3>1, <1>3, RelinkedLinks
  <2> HIDE DEF gone
  <2> QED
    BY <2>1, <1>4
<1>7. work' \in Seq(Block) /\ inList' \subseteq Block
  <2>1. ops \in SUBSET link /\ \A l \in ops : l.site[1] \in Block
    <3>1. ops \in SUBSET link
      BY DEF PhiOperands, Operands
    <3>2. \A l \in link : l.site[1] \in Block
      BY <1>2 DEF SSATypes, Links, Sites, Site
    <3> QED
      BY <3>1, <3>2
  <2>2. link \in SUBSET Links /\ IsFiniteSet(Links)
    BY <1>2, LinksFinite DEF SSATypes, LiveTypes
  <2>3. IsFiniteSet(ops)
    <3> HIDE DEF ops
    <3> QED
      BY <2>1, <2>2, FS_Subset
  <2>4. PICK ls : ls = SetToSeq(ops)
    OBVIOUS
  <2>5. ls \in [1 .. Cardinality(ops) -> ops] /\ Cardinality(ops) \in Nat
    <3> HIDE DEF ops
    <3> QED
      BY <2>3, <2>4, SetToSeqIs
  <2>6. Len(ls) \in Nat /\ \A i \in 1 .. Len(ls) : ls[i].site[1] \in Block
    <3> HIDE DEF ops
    <3>1. ls \in Seq(ops) /\ Len(ls) = Cardinality(ops)
      BY <2>5
    <3>2. \A i \in 1 .. Len(ls) : ls[i] \in ops
      BY <3>1
    <3> QED
      BY <3>1, <3>2, <2>1
  <2>7. PICK st : st = start
    OBVIOUS
  <2>8. st.work \in Seq(Block) /\ st.inList \subseteq Block
    BY <2>7, <1>2, <1>3 DEF SSATypes
  <2>9. Listed(st, ls).work \in Seq(Block) /\ Listed(st, ls).inList \subseteq Block
    BY <2>6, <2>8, ListedTyped
  <2>10. list = Listed(st, ls)
    BY <2>4, <2>7
  <2> QED
    BY <2>9, <2>10, <1>4
<1>8. /\ dom' = dom /\ defbbs' = defbbs /\ stack' = stack /\ path' = path
      /\ saved' = saved /\ renamed' = renamed /\ drops' = drops
  BY DEF RefineBB
<1>9. saved' \in [Block -> [PR -> Sites]] /\ stack' \in [PR -> Seq(Sites)]
  BY <1>2, <1>8 DEF SSATypes
<1> QED
  BY <1>1, <1>2, <1>5, <1>6, <1>7, <1>8, <1>9 DEF TypeInv, SSATypes

LEMMA NextTypes == IInv /\ TypeInv /\ [Next]_vars => TypeInv'
<1> SUFFICES ASSUME IInv, TypeInv, [Next]_vars PROVE TypeInv'
  OBVIOUS
<1>0. Types
  BY DEF IInv
<1>1. CASE LiveNext /\ UNCHANGED ssaVars
  BY <1>0, <1>1, LiveNextTypes
<1>2. CASE InitMapInfo \/ PlacePhi \/ InitVPRStack
  BY <1>2, PlaceTypes
<1>3. ASSUME NEW b \in Block, VisitBB(b)
      PROVE  TypeInv'
  BY <1>3, VisitTypes
<1>4. CASE LeaveBB
  BY <1>4, LeaveTypes
<1>5. CASE StartRefine \/ RefineDone
  BY <1>5, StartRefineTypes
<1>6. CASE RefineBB
  BY <1>6, RefineTypes
<1>7. ASSUME NEW b \in Block, NEW s \in succ[b], DropEdge(b, s)
      PROVE  TypeInv'
  <2>1. s \in Block
    BY <1>0, <1>7 DEF Types
  <2> QED
    BY <2>1, <1>7, StartRefineTypes
<1>8. CASE UNCHANGED vars
  <2>1. UNCHANGED liveVars /\ UNCHANGED ssaVars
    BY <1>8 DEF vars
  <2>2. /\ code' = code /\ pc' = pc /\ count' = count /\ rounds' = rounds
        /\ redundant' = redundant
    BY <2>1 DEF liveVars, program, solving, fading
  <2>3. /\ dom' = dom /\ phi' = phi /\ defbbs' = defbbs /\ link' = link /\ stack' = stack
        /\ path' = path /\ renamed' = renamed /\ saved' = saved /\ work' = work
        /\ inList' = inList /\ drops' = drops
    BY <2>1 DEF ssaVars
  <2>4. LiveTypes' /\ Links' = Links /\ Sites' = Sites
    BY <2>2 DEF TypeInv, LiveTypes, Links, Sites, Users
  <2>5. SSATypes
    BY DEF TypeInv
  <2>6. link' \subseteq Links' /\ stack' \in [PR -> Seq(Sites')] /\ saved' \in [Block -> [PR -> Sites']]
    BY <2>3, <2>4, <2>5 DEF SSATypes
  <2> QED
    BY <2>3, <2>4, <2>5, <2>6 DEF TypeInv, SSATypes
<1>9. CASE Done
  BY <1>8, <1>9 DEF Done
<1> QED
  BY <1>1, <1>2, <1>3, <1>4, <1>5, <1>6, <1>7, <1>8, <1>9 DEF Next

LEMMA TypeInvHolds == Spec => []TypeInv
<1>1. SSAInit => TypeInv
  BY SSAInitTypes
<1>2. IInv /\ TypeInv /\ [Next]_vars => TypeInv'
  BY NextTypes
<1> QED
  BY <1>1, <1>2, InvariantHolds, PTL DEF Spec

\* Every step keeps the types: the versions on the stacks and in the use lists
\* are versions some statement or PHI of the program defines, and the loops
\* that have a bound stay below it.
THEOREM TypesHold == Spec => []TypeOK
<1>1. IInv /\ TypeInv => TypeOK
  <2> SUFFICES ASSUME IInv, TypeInv PROVE TypeOK
    OBVIOUS
  <2>1. Types /\ LiveTypes /\ SSATypes
    BY DEF IInv, TypeInv
  <2>2. LiveTypeOK
    BY <2>1 DEF Types, LiveTypes, LiveTypeOK
  <2>3. Sites \subseteq Site /\ Users \subseteq User
    BY DEF Sites, Users
  <2>4. link \subseteq [pr : PR, site : Site, user : User]
    BY <2>1, <2>3 DEF SSATypes, Links
  <2>5. Seq(Sites) \subseteq Seq(Site)
    BY <2>3
  <2>6. stack \in [PR -> Seq(Site)] /\ saved \in [Block -> [PR -> Site]]
    BY <2>1, <2>3, <2>5 DEF SSATypes
  <2> QED
    BY <2>1, <2>2, <2>4, <2>6 DEF TypeOK, SSATypes, LiveTypes
<1> QED
  BY <1>1, InvariantHolds, TypeInvHolds, PTL

-----------------------------------------------------------------------------
(* Dominance                                                               *)

Graph == succ \in [Block -> SUBSET Block] /\ GraphInv

\* What is reached without a is closed, and is the least such set.
LEMMA WithoutClosed ==
    ASSUME NEW a \in Block, NEW c \in Without(a), NEW s \in succ[c], s # a, s \in Block
    PROVE  s \in Without(a)
<1> SUFFICES ASSUME NEW S \in SUBSET (Block \ {a}), Entry # a => Entry \in S,
                    \A d \in S : succ[d] \ {a} \subseteq S
             PROVE  s \in S
  BY DEF Without
<1>1. c \in S
  BY DEF Without
<1> QED
  BY <1>1

LEMMA WithoutLeast ==
    ASSUME NEW a \in Block, NEW S \in SUBSET (Block \ {a}), Entry # a => Entry \in S,
           \A d \in S : succ[d] \ {a} \subseteq S
    PROVE  Without(a) \subseteq S
BY DEF Without

LEMMA WithoutIs ==
    ASSUME Graph, NEW a \in Block
    PROVE  /\ Without(a) \subseteq Block \ {a}
           /\ Entry # a => Entry \in Without(a)
<1>1. Without(a) \subseteq Block \ {a}
  <2>1. \A d \in Block : succ[d] \subseteq Block
    BY DEF Graph
  <2>2. (Block \ {a}) \in SUBSET (Block \ {a}) /\ (Entry # a => Entry \in Block \ {a})
    BY BlockFinite
  <2> QED
    BY <2>1, <2>2, WithoutLeast
<1>2. Entry # a => Entry \in Without(a)
  BY BlockFinite DEF Without
<1> QED
  BY <1>1, <1>2

LEMMA DomsIs == \A a, b \in Block : a \in Doms(b) <=> a # b /\ b \notin Without(a)
BY DEF Doms

LEMMA DomsBlock == \A b \in Block : Doms(b) \subseteq Block \ {b}
BY DEF Doms

LEMMA EntryDominates ==
    ASSUME Graph
    PROVE  Doms(Entry) = {} /\ \A b \in Block \ {Entry} : Entry \in Doms(b)
<1>1. \A a \in Block \ {Entry} : Entry \in Without(a)
  BY WithoutIs
<1>2. Without(Entry) = {}
  <2>1. {} \in SUBSET (Block \ {Entry}) /\ \A d \in {} : succ[d] \ {Entry} \subseteq {}
    OBVIOUS
  <2> QED
    BY <2>1, BlockFinite, WithoutLeast
<1> QED
  BY <1>1, <1>2, BlockFinite DEF Doms

\* What dominates a block is its predecessor or dominates it.
LEMMA DomsOfPred ==
    ASSUME Graph, NEW b \in Block, NEW a \in Doms(b), NEW q \in Preds(b)
    PROVE  a = q \/ a \in Doms(q)
<1>1. q \in Block /\ b \in succ[q] /\ a \in Block /\ a # b /\ b \notin Without(a)
  BY DEF Preds, Doms
<1>2. CASE q \in Without(a)
  BY <1>1, <1>2, WithoutClosed
<1>3. CASE q \notin Without(a)
  BY <1>1, <1>3, DomsIs
<1> QED
  BY <1>2, <1>3

\* The converse; the predecessors the block itself dominates do not count.
LEMMA DomsFromPreds ==
    ASSUME Graph, NEW b \in Block \ {Entry}, NEW a \in Block \ {b},
           \A q \in Preds(b) : a \in Doms(q) \cup {q} \/ b \in Doms(q) \cup {q}
    PROVE  a \in Doms(b)
<1> SUFFICES ASSUME b \in Without(a) PROVE FALSE
  BY DomsIs
<1>1. CASE a = Entry
  BY <1>1, EntryDominates, DomsIs
<1>2. CASE a # Entry
  <2> DEFINE S == Without(a) \cap Without(b)
  <2>1. S \in SUBSET (Block \ {a}) /\ Entry \in S
    BY <1>2, WithoutIs
  <2>2. ASSUME NEW c \in S, NEW s \in succ[c], s # a
        PROVE  s \in S
    <3>1. c \in Block /\ s \in Block
      BY <2>1 DEF Graph
    <3>2. s \in Without(a)
      BY <2>2, <3>1, WithoutClosed
    <3>3. s # b
      <4> SUFFICES ASSUME s = b PROVE FALSE
        OBVIOUS
      <4>1. c \in Preds(b)
        BY <3>1 DEF Preds
      <4>2. c # a /\ c # b
        BY <3>1, WithoutIs
      <4>3. a \notin Doms(c) /\ b \notin Doms(c)
        BY <3>1, DomsIs
      <4> QED
        BY <4>1, <4>2, <4>3
    <3>4. s \in Without(b)
      BY <3>1, <3>3, WithoutClosed
    <3> QED
      BY <3>2, <3>4
  <2>3. Without(a) \subseteq S
    <3>1. \A d \in S : succ[d] \ {a} \subseteq S
      BY <2>2
    <3> HIDE DEF S
    <3> QED
      BY <2>1, <3>1, WithoutLeast
  <2>4. b \notin Without(b)
    BY WithoutIs
  <2> QED
    BY <2>3, <2>4
<1> QED
  BY <1>1, <1>2

\* What does not pass a does not pass what a dominates.
LEMMA WithoutNested ==
    ASSUME Graph, NEW a \in Block, NEW b \in Block, a \in Doms(b)
    PROVE  Without(a) \subseteq Without(b)
<1> DEFINE S == Without(a) \cap Without(b)
<1>1. b # Entry /\ b \notin Without(a)
  BY EntryDominates, DomsIs
<1>2. S \in SUBSET (Block \ {a}) /\ (Entry # a => Entry \in S)
  BY <1>1, WithoutIs
<1>3. ASSUME NEW c \in S, NEW s \in succ[c], s # a
      PROVE  s \in S
  <2>1. c \in Block /\ s \in Block
    BY <1>2 DEF Graph
  <2>2. s \in Without(a)
    BY <1>3, <2>1, WithoutClosed
  <2>3. s \in Without(b)
    BY <1>1, <2>1, <2>2, WithoutClosed
  <2> QED
    BY <2>2, <2>3
<1>4. \A d \in S : succ[d] \ {a} \subseteq S
  BY <1>3
<1> HIDE DEF S
<1>5. Without(a) \subseteq S
  BY <1>2, <1>4, WithoutLeast
<1> QED
  BY <1>5 DEF S

LEMMA DomsAsymmetric ==
    ASSUME Graph, NEW a \in Block, NEW b \in Block, a \in Doms(b), b \in Doms(a)
    PROVE  FALSE
<1>1. Without(a) = Without(b)
  <2>1. Without(a) \subseteq Without(b)
    BY WithoutNested
  <2>2. Without(b) \subseteq Without(a)
    BY WithoutNested
  <2> QED
    BY <2>1, <2>2
<1>2. a # Entry /\ b # Entry /\ a # b
  BY EntryDominates, DomsIs
<1>3. Entry \in Without(a) /\ a \notin Without(a) /\ Without(a) \in SUBSET Block
  BY <1>2, WithoutIs
<1>4. ASSUME NEW c \in Without(a), NEW s \in succ[c]
      PROVE  s \in Without(a)
  <2>1. s \in Block
    BY <1>3 DEF Graph
  <2>2. CASE s # a
    BY <2>1, <2>2, WithoutClosed
  <2>3. CASE s = a
    BY <1>1, <1>2, <2>1, <2>3, WithoutClosed
  <2> QED
    BY <2>2, <2>3
<1>5. Without(a) = Block
  BY <1>3, <1>4 DEF Graph, GraphInv
<1> QED
  BY <1>3, <1>5

LEMMA DomsTransitive ==
    ASSUME Graph, NEW c \in Block, NEW b \in Doms(c), NEW a \in Doms(b)
    PROVE  a \in Doms(c)
<1>1. a \in Block /\ b \in Block
  BY DomsBlock
<1>2. Without(a) \subseteq Without(b) /\ c \notin Without(b)
  BY <1>1, WithoutNested, DomsIs
<1>3. a # c
  BY <1>1, DomsAsymmetric
<1> QED
  BY <1>1, <1>2, <1>3, DomsIs

LEMMA DomsChain ==
    ASSUME Graph, NEW c \in Block, NEW a \in Doms(c), NEW b \in Doms(c), a # b
    PROVE  a \in Doms(b) \/ b \in Doms(a)
<1>1. a \in Block /\ b \in Block /\ c \notin Without(a) /\ c \notin Without(b)
  BY DomsBlock, DomsIs
<1> SUFFICES ASSUME b \in Without(a), a \in Without(b) PROVE FALSE
  BY <1>1, DomsIs
<1> DEFINE S == Without(a) \cup Without(b)
<1>2. S \in SUBSET Block /\ Entry \in S
  BY <1>1, WithoutIs
<1>3. ASSUME NEW d \in S, NEW s \in succ[d]
      PROVE  s \in S
  <2>1. s \in Block
    BY <1>2 DEF Graph
  <2>2. CASE d \in Without(a)
    BY <1>1, <2>1, <2>2, WithoutClosed
  <2>3. CASE d \in Without(b)
    BY <1>1, <2>1, <2>3, WithoutClosed
  <2> QED
    BY <2>2, <2>3
<1>4. S = Block
  <2>1. \A d \in S : succ[d] \subseteq S
    BY <1>3
  <2> HIDE DEF S
  <2> QED
    BY <1>2, <2>1 DEF Graph, GraphInv
<1> QED
  BY <1>1, <1>4

\* Of blocks on the way to b one is the nearest.
LEMMA NearestOf ==
    ASSUME Graph, NEW b \in Block, NEW D \in SUBSET (Doms(b) \cup {b}), D # {}
    PROVE  \E x \in D : D \ {x} \subseteq Doms(x)
<1>1. D \in SUBSET Block
  BY DomsBlock
<1> DEFINE Far(x) == Block \ Doms(x)
           U == {Far(x) : x \in D}
<1>2. U \subseteq FiniteSubsetsOf(Block) /\ U # {}
  <2>1. \A x \in D : Far(x) \in SUBSET Block
    OBVIOUS
  <2> HIDE DEF Far
  <2>2. \A x \in D : Far(x) \in FiniteSubsetsOf(Block)
    BY <2>1, BlockFinite, FS_Subset DEF FiniteSubsetsOf
  <2> QED
    BY <2>2
<1>3. PICK t \in U : \A u \in U : <<u, t>> \notin StrictSubsetOrdering(Block)
  <2> HIDE DEF U
  <2>1. IsWellFoundedOn(StrictSubsetOrdering(Block), FiniteSubsetsOf(Block))
    BY FS_StrictSubsetOrderingWellFounded
  <2> QED
    BY <1>2, <2>1, WFMin
<1>4. PICK x \in D : t = Far(x)
  OBVIOUS
<1>5. ASSUME NEW y \in D, y # x
      PROVE  y \in Doms(x)
  <2>1. y \in Doms(x) \/ x \in Doms(y)
    BY <1>5, DomsChain
  <2>2. ASSUME x \in Doms(y)
        PROVE  FALSE
    <3>1. Doms(x) \subseteq Doms(y)
      BY <1>1, <2>2, DomsTransitive
    <3>2. x \notin Doms(x) /\ x \in Block
      BY <1>1, DomsBlock
    <3>3. Far(y) \subseteq Far(x) /\ Far(y) # Far(x)
      BY <2>2, <3>1, <3>2
    <3>4. Far(y) \in U
      OBVIOUS
    <3>5. Far(y) \in SUBSET Block /\ Far(x) \in SUBSET Block
      OBVIOUS
    <3> HIDE DEF Far, U
    <3>6. <<Far(y), t>> \in StrictSubsetOrdering(Block)
      BY <3>3, <3>5, <1>4 DEF StrictSubsetOrdering
    <3> QED
      BY <1>3, <3>4, <3>6
  <2> QED
    BY <2>1, <2>2
<1> QED
  BY <1>5

\* The dominance frontier as it is built.
DomIs == dom = [b \in Block |-> Doms(b)]

LEMMA IdomIs ==
    ASSUME Graph, DomIs, NEW b \in Block \ {Entry}
    PROVE  Idom(b) \in Block /\ Doms(b) = Doms(Idom(b)) \cup {Idom(b)}
<1>1. dom[b] = Doms(b) /\ Doms(b) # {} /\ Doms(b) \subseteq Block
  BY EntryDominates, DomsBlock DEF DomIs
<1>2. PICK x \in Doms(b) : Doms(b) \ {x} \subseteq Doms(x)
  <2>1. PICK D : D = Doms(b)
    OBVIOUS
  <2>2. D \in SUBSET (Doms(b) \cup {b}) /\ D # {} /\ b \in Block
    BY <1>1, <2>1
  <2>3. \E x \in D : D \ {x} \subseteq Doms(x)
    BY <2>2, NearestOf
  <2> QED
    BY <2>1, <2>3
<1>3. \A y \in Doms(b) : dom[y] = Doms(y)
  BY <1>1 DEF DomIs
<1>4. PICK y : y = Idom(b)
  OBVIOUS
<1>5. y \in dom[b] /\ dom[b] \ {y} \subseteq dom[y]
  BY <1>1, <1>2, <1>3, <1>4 DEF Idom
<1>6. Doms(y) \subseteq Doms(b)
  BY <1>1, <1>5, DomsTransitive
<1> QED
  BY <1>1, <1>3, <1>4, <1>5, <1>6

LEMMA InDF ==
    ASSUME Graph, DomIs, NEW a \in Block, NEW v \in Block
    PROVE  v \in DF(a) <=> \E q \in Preds(v) : a \in Doms(q) \cup {q} /\ a \notin Doms(v)
<1>1. \A q \in Preds(v) : q \in Block /\ v # Entry
  BY DEF Preds, Graph, GraphInv
<1>2. \A q \in Block : dom[q] = Doms(q)
  BY DEF DomIs
<1>3. ASSUME NEW q \in Preds(v)
      PROVE  (q = v \/ Idom(v) # q) <=> q \notin Doms(v)
  <2>1. q \in Block /\ v # Entry
    BY <1>1, <1>3
  <2>2. Idom(v) \in Block /\ Doms(v) = Doms(Idom(v)) \cup {Idom(v)}
    BY <2>1, IdomIs
  <2>3. CASE q \in Doms(v) /\ q # Idom(v)
    <3>1. q \in Doms(Idom(v))
      BY <2>2, <2>3
    <3>2. Idom(v) \in Doms(q)
      BY <2>2, <2>3, DomsOfPred
    <3> QED
      BY <2>1, <2>2, <3>1, <3>2, DomsAsymmetric
  <2>4. v \notin Doms(v)
    BY DomsBlock
  <2> QED
    BY <2>2, <2>3, <2>4
<1> QED
  BY <1>1, <1>2, <1>3 DEF DF

-----------------------------------------------------------------------------
(* Where the PHIs are placed                                               *)

Early == {"perform", "solve", "solved", "fade", "live"}

\* The blocks that define p, with a statement or a PHI.
Sited(p) == {b \in Block : SitesIn(p, b) # {}}

\* The blocks at the end of which p is live.
LiveOut(p) == {b \in Block : succ[b] \cap LiveAt(p) # {}}

\* What the elimination lets stand is enough: whatever a block other than the
\* entry defines, or is given from inside, is live out where it should be.
InsideLive == \A p \in PR, b \in Block \ {Entry} :
                 /\ p \in Def(b) \/ b \in FromInside(p)
                 /\ b \in LiveOut(p)
                 => p \in liveout[b]

\* Each PHI is in the frontier of another definition, and the frontier of what
\* is live has all its PHIs, except for the blocks still on the list.
PhisInv(p) ==
    /\ defbbs[p] \subseteq Sited(p)
    /\ Entry \notin phi[p]
    /\ phi[p] \subseteq FromInside(p)
    /\ DefBBs(p) = {} => phi[p] = {} /\ defbbs[p] = {}
    /\ \A b \in phi[p] : \E x \in DefBBs(p) \cup (phi[p] \ {b}) : b \in DF(x)
    /\ \A d \in Sited(p) \ defbbs[p] : p \in liveout[d] => DF(d) \subseteq phi[p]

\* From the end of liveness to the end of placePhi, and what lasts from there.
PlaceInv ==
    /\ pc \in Early => phi = [p \in PR |-> {}]
    /\ pc \in Early \cup {"place"} =>
          link = {} /\ path = <<>> /\ renamed = {} /\ stack = [p \in PR |-> <<>>] /\ drops = 0
    /\ pc = "rename" => drops = 0 /\ \A p \in PR : defbbs[p] = {}
    /\ pc \in {"place", "rename"} =>
          /\ DomIs
          /\ ~change /\ ~differs => InsideLive
          /\ \A p \in PR : PhisInv(p)

LEMMA WritesAre ==
    ASSUME LiveTypes, NEW p, NEW b \in Block
    PROVE  Writes(p, b) \subseteq Nat \ {0}
BY DEF Writes, LiveTypes

LEMMA SitedIs ==
    ASSUME LiveTypes, NEW p \in PR, phi[p] \subseteq Block
    PROVE  Sited(p) = DefBBs(p) \cup phi[p]
<1>1. ASSUME NEW b \in Block
      PROVE  SitesIn(p, b) # {} <=> Writes(p, b) # {} \/ b \in phi[p]
  <2>1. \A i \in Writes(p, b) : i # 0
    BY WritesAre
  <2> QED
    BY <2>1 DEF SitesIn
<1> QED
  BY <1>1 DEF Sited, DefBBs

LEMMA DefIs == \A p \in PR, b \in Block : p \in Def(b) <=> b \in DefBBs(p)
BY DEF Def, DefBBs, Writes

\* Whatever is dominated by a block in which a value of the region is defined
\* is reached by that value or another one.
LEMMA DominatedFromInside ==
    ASSUME Graph, NEW p \in PR, NEW d \in Block \ {Entry}, p \in Def(d) \/ d \in FromInside(p),
           NEW q \in Block, d \in Doms(q) \cup {q}, NEW v \in succ[q]
    PROVE  v \in FromInside(p)
<1>0. /\ \A b \in Block : succ[b] \subseteq Block /\ Entry \notin succ[b]
      /\ FromInside(p) \in SUBSET Block
  BY DEF Graph, GraphInv, FromInside
\* FromInside is closed, the entry is not in it.
<1>1. ASSUME NEW x \in Block \ {Entry}, p \in Def(x) \/ x \in FromInside(p), NEW s \in succ[x]
      PROVE  s \in FromInside(p)
  <2> SUFFICES ASSUME NEW S \in SUBSET Block, HandedOn(p, S) \subseteq S
               PROVE  s \in S
    BY <1>0 DEF FromInside
  <2>1. p \in Def(x) \/ x \in S
    BY <1>1 DEF FromInside
  <2>2. x \in Preds(s) \ {Entry} /\ s \in Block
    BY <1>0 DEF Preds
  <2> QED
    BY <2>1, <2>2 DEF HandedOn
<1>2. Entry \notin FromInside(p)
  <2> DEFINE S == Block \ {Entry}
  <2>1. HandedOn(p, S) \subseteq S
    BY <1>0 DEF HandedOn, Preds
  <2> QED
    BY <2>1, FromInsideClosed
<1>3. q \in Block \ {Entry} /\ (p \in Def(q) \/ q \in FromInside(p))
  <2>1. CASE d = q
    BY <2>1
  <2>2. CASE d \in Doms(q)
    <3> DEFINE W == Without(d) \cup {d} \cup FromInside(p)
    <3>1. W \in SUBSET Block /\ Entry \in W
      BY <1>0, WithoutIs
    <3>2. ASSUME NEW x \in W, NEW s \in succ[x]
          PROVE  s \in W
      <4>1. x \in Block /\ s \in Block
        BY <1>0, <3>1
      <4>2. CASE x \in Without(d)
        BY <4>1, <4>2, WithoutClosed
      <4>3. CASE x = d
        BY <4>3, <1>1
      <4>4. CASE x \in FromInside(p)
        BY <4>1, <4>4, <1>1, <1>2
      <4> QED
        BY <4>2, <4>3, <4>4
    <3>3. W = Block
      <4>1. \A x \in W : succ[x] \subseteq W
        BY <3>2
      <4> HIDE DEF W
      <4> QED
        BY <3>1, <4>1 DEF Graph, GraphInv
    <3>4. q \notin Without(d) /\ q # d /\ q # Entry
      BY <2>2, DomsIs, EntryDominates
    <3> QED
      BY <3>3, <3>4
  <2> QED
    BY <2>1, <2>2
<1> QED
  BY <1>1, <1>3

LEMMA EntryFrontier == ASSUME Graph, DomIs PROVE DF(Entry) = {}
<1>1. ASSUME NEW v \in DF(Entry)
      PROVE  FALSE
  <2>1. v \in Block /\ Entry \in Block
    BY BlockFinite DEF DF
  <2>2. PICK q \in Preds(v) : Entry \notin Doms(v)
    BY <2>1, InDF
  <2>3. v # Entry
    BY <2>1, <2>2 DEF Preds, Graph, GraphInv
  <2> QED
    BY <2>1, <2>2, <2>3, EntryDominates
<1> QED
  BY <1>1

\* One round of placePhiForPR.
LEMMA PlacePhiInv == IInv /\ TypeInv /\ PlaceInv /\ PlacePhi => PlaceInv'
<1> SUFFICES ASSUME IInv, TypeInv, PlaceInv, PlacePhi PROVE PlaceInv'
  OBVIOUS
<1>0. /\ pc = "place" /\ pc' = pc
      /\ succ' = succ /\ code' = code /\ liveout' = liveout /\ change' = change
      /\ differs' = differs /\ dom' = dom /\ link' = link /\ path' = path /\ renamed' = renamed
      /\ stack' = stack /\ drops' = drops
      /\ phi' = [p \in PR |-> phi[p] \cup Placed(p)]
      /\ defbbs' = [p \in PR |-> Placed(p)]
  BY DEF PlacePhi, liveVars, program, solving, fading
<1>1. Graph /\ DomIs /\ \A p \in PR : PhisInv(p)
  BY <1>0 DEF PlaceInv, IInv, Types, Graph
<1>2. \A b : DF(b)' = DF(b)
  BY <1>0 DEF DF, Idom, Preds
<1>3. \A b : Use(b)' = Use(b) /\ Def(b)' = Def(b)
  BY <1>0, LiveAtStays
<1>4. \A p : LiveAt(p)' = LiveAt(p) /\ FromInside(p)' = FromInside(p)
  BY <1>0, LiveAtStays
<1>5. \A p : DefBBs(p)' = DefBBs(p)
  BY <1>0 DEF DefBBs, Writes
<1>6. ASSUME NEW p \in PR
      PROVE  PhisInv(p)'
  <2> DEFINE due == {d \in defbbs[p] : p \in liveout[d]}
             all == UNION {DF(b) : b \in due}
             new == (UNION {DF(b) : b \in due}) \ phi[p]
  <2>1. phi'[p] = phi[p] \cup new /\ defbbs'[p] = new
    BY <1>0 DEF Placed
  <2>15. new = all \ phi[p]
    OBVIOUS
  <2>2. phi[p] \subseteq Block /\ \A b : DF(b) \subseteq Block
    BY DEF TypeInv, SSATypes, DF
  <2>3. Sited(p) = DefBBs(p) \cup phi[p]
    BY <2>2, SitedIs DEF TypeInv
  <2>4. phi'[p] \subseteq Block
    BY <2>1, <2>2
  <2>5. Sited(p)' = DefBBs(p) \cup phi'[p]
    <3>1. ASSUME NEW b \in Block
          PROVE  SitesIn(p, b)' # {} <=> Writes(p, b) # {} \/ b \in phi'[p]
      <4>1. \A i \in Writes(p, b) : i # 0
        BY WritesAre DEF TypeInv
      <4>2. Writes(p, b)' = Writes(p, b)
        BY <1>0 DEF Writes
      <4> QED
        BY <4>1, <4>2 DEF SitesIn
    <3> QED
      BY <2>4, <3>1 DEF Sited, DefBBs
  <2>6. PhisInv(p)
    BY <1>1
  <2>7. \A b \in new : \E d \in defbbs[p] : p \in liveout[d] /\ b \in DF(d)
    <3>1. \A b \in new : \E d \in due : b \in DF(d)
      <4> HIDE DEF due
      <4> QED
        OBVIOUS
    <3> HIDE DEF new
    <3> QED
      BY <3>1
  <2>8. \A d \in defbbs[p] : p \in liveout[d] => DF(d) \subseteq phi[p] \cup new
    <3>1. ASSUME NEW d \in due
          PROVE  DF(d) \subseteq phi[p] \cup new
      <4> HIDE DEF due
      <4>1. DF(d) \in {DF(b) : b \in due}
        OBVIOUS
      <4>2. DF(d) \subseteq all
        BY <4>1
      <4> HIDE DEF all, new
      <4> QED
        BY <4>2, <2>15
    <3> HIDE DEF new
    <3> QED
      BY <3>1
  <2>16. new \cap phi[p] = {} /\ (defbbs[p] = {} => new = {})
    <3>1. new \cap phi[p] = {}
      <4> HIDE DEF all, new
      <4> QED
        BY <2>15
    <3> HIDE DEF new
    <3> QED
      BY <2>7, <3>1
  <2> HIDE DEF new, due, all
  <2>9. ASSUME NEW v \in new
        PROVE  v # Entry /\ v \in FromInside(p)
    <3>1. PICK d \in defbbs[p] : v \in DF(d)
      BY <2>7
    <3>2. d \in DefBBs(p) \cup phi[p] /\ d \in Block
      BY <3>1, <2>2, <2>3, <2>6 DEF PhisInv, DefBBs
    <3>3. d # Entry
      BY <3>1, <1>1, EntryFrontier
    <3>4. p \in Def(d) \/ d \in FromInside(p)
      BY <3>2, <2>6, DefIs DEF PhisInv
    <3>5. v \in Block
      BY <3>1 DEF DF
    <3>6. PICK q \in Preds(v) : d \in Doms(q) \cup {q}
      BY <3>1, <3>2, <3>5, <1>1, InDF
    <3>7. q \in Block /\ v \in succ[q]
      BY <3>6 DEF Preds
    <3>8. v \in FromInside(p)
      BY <3>2, <3>3, <3>4, <3>6, <3>7, <1>1, DominatedFromInside
    <3> QED
      BY <3>7, <3>8, <1>1 DEF Graph, GraphInv
  <2>10. Entry \notin phi'[p] /\ phi'[p] \subseteq FromInside(p)
    BY <2>1, <2>6, <2>9 DEF PhisInv
  <2>11. DefBBs(p) = {} => phi'[p] = {} /\ defbbs'[p] = {}
    BY <2>1, <2>6, <2>7 DEF PhisInv
  <2>12. ASSUME NEW b \in phi'[p]
         PROVE  \E x \in DefBBs(p) \cup (phi'[p] \ {b}) : b \in DF(x)
    <3>1. CASE b \in phi[p]
      BY <3>1, <2>1, <2>6 DEF PhisInv
    <3>2. CASE b \in new
      <4>1. PICK d \in defbbs[p] : b \in DF(d)
        BY <3>2, <2>7
      <4>2. d \in DefBBs(p) \cup phi[p]
        BY <4>1, <2>3, <2>6 DEF PhisInv
      <4>3. b \notin phi[p]
        BY <3>2, <2>16
      <4>4. d \in DefBBs(p) \cup (phi'[p] \ {b})
        BY <4>2, <4>3, <2>1
      <4> QED
        BY <4>1, <4>4
    <3> QED
      BY <3>1, <3>2, <2>1
  <2>13. ASSUME NEW d \in Sited(p)' \ defbbs'[p], p \in liveout[d]
         PROVE  DF(d) \subseteq phi'[p]
    <3>1. d \in DefBBs(p) \cup phi[p]
      BY <2>1, <2>5, <2>13
    <3>2. CASE d \in defbbs[p]
      BY <3>2, <2>1, <2>8, <2>13
    <3>3. CASE d \notin defbbs[p]
      BY <3>1, <3>3, <2>1, <2>3, <2>6, <2>13 DEF PhisInv
    <3> QED
      BY <3>2, <3>3
  <2>14. defbbs'[p] \subseteq Sited(p)'
    BY <2>1, <2>5
  <2> QED
    BY <2>10, <2>11, <2>12, <2>13, <2>14, <1>0, <1>2, <1>4, <1>5 DEF PhisInv
<1>7. DomIs'
  BY <1>0, <1>1 DEF DomIs, Doms, Without
<1>8. ~change' /\ ~differs' => InsideLive'
  BY <1>0, <1>3, <1>4 DEF PlaceInv, InsideLive, LiveOut
<1> QED
  BY <1>0, <1>6, <1>7, <1>8 DEF PlaceInv, Early

LEMMA InitPlaceInv == SSAInit => PlaceInv
BY DEF SSAInit, LiveInit, PlaceInv, Early

LEMMA MapInfoInv == IInv /\ TypeInv /\ PlaceInv /\ InitMapInfo => PlaceInv'
<1> SUFFICES ASSUME IInv, TypeInv, PlaceInv, InitMapInfo PROVE PlaceInv'
  OBVIOUS
<1>0. /\ pc = "live" /\ pc' = "place"
      /\ succ' = succ /\ code' = code /\ liveout' = liveout /\ change' = change
      /\ differs' = differs /\ link' = link /\ path' = path /\ renamed' = renamed
      /\ stack' = stack /\ drops' = drops /\ phi' = phi
      /\ dom' = [b \in Block |-> Doms(b)] /\ defbbs' = [p \in PR |-> DefBBs(p)]
  BY DEF InitMapInfo, program, solving, fading
<1>1. /\ phi = [p \in PR |-> {}] /\ link = {} /\ path = <<>> /\ renamed = {}
      /\ stack = [p \in PR |-> <<>>] /\ drops = 0
  BY <1>0 DEF PlaceInv, Early
<1>2. DomIs'
  BY <1>0 DEF DomIs, Doms, Without
<1>3. \A b : Use(b)' = Use(b) /\ Def(b)' = Def(b)
  BY <1>0, LiveAtStays
<1>4. \A p : LiveAt(p)' = LiveAt(p) /\ FromInside(p)' = FromInside(p)
  BY <1>0, LiveAtStays
<1>5. ~change' /\ ~differs' => InsideLive'
  <2> SUFFICES ASSUME ~change, ~differs PROVE InsideLive'
    BY <1>0
  <2>1. InsideValuesStayLive
    BY DEF IInv
  <2> QED
    BY <2>1, <1>0, <1>3, <1>4 DEF InsideValuesStayLive, InsideLive, LiveOut
<1>6. ASSUME NEW p \in PR
      PROVE  PhisInv(p)'
  <2>1. phi'[p] = {} /\ defbbs'[p] = DefBBs(p) /\ DefBBs(p)' = DefBBs(p)
    BY <1>0, <1>1 DEF DefBBs, Writes
  <2>2. Sited(p)' = DefBBs(p)
    <3>1. ASSUME NEW b \in Block
          PROVE  SitesIn(p, b)' # {} <=> Writes(p, b) # {}
      <4>1. \A i \in Writes(p, b) : i # 0
        BY WritesAre DEF TypeInv
      <4>2. Writes(p, b)' = Writes(p, b)
        BY <1>0 DEF Writes
      <4> QED
        BY <2>1, <4>1, <4>2 DEF SitesIn
    <3> QED
      BY <3>1 DEF Sited, DefBBs
  <2> QED
    BY <2>1, <2>2 DEF PhisInv
<1> QED
  BY <1>0, <1>1, <1>2, <1>5, <1>6 DEF PlaceInv, Early

\* The walk and the refinement do not touch what the placement has found.
LEMMA PlaceStays ==
    ASSUME PlaceInv, succ' = succ, code' = code, liveout' = liveout, change' = change,
           differs' = differs, dom' = dom, phi' = phi, defbbs' = defbbs
    PROVE  /\ DomIs' = DomIs /\ InsideLive' = InsideLive
           /\ \A p \in PR : PhisInv(p)' = PhisInv(p)
<1>1. \A b : Use(b)' = Use(b) /\ Def(b)' = Def(b)
  BY LiveAtStays
<1>2. \A p : LiveAt(p)' = LiveAt(p) /\ FromInside(p)' = FromInside(p)
  BY LiveAtStays
<1>3. DomIs' = DomIs
  BY DEF DomIs, Doms, Without
<1>4. InsideLive' = InsideLive
  BY <1>1, <1>2 DEF InsideLive, LiveOut
<1>5. \A b : DF(b)' = DF(b)
  BY DEF DF, Idom, Preds
<1>6. ASSUME NEW p \in PR
      PROVE  PhisInv(p)' = PhisInv(p)
  <2>1. DefBBs(p)' = DefBBs(p) /\ Sited(p)' = Sited(p)
    BY DEF DefBBs, Writes, Sited, SitesIn
  <2> QED
    BY <2>1, <1>2, <1>5 DEF PhisInv
<1> QED
  BY <1>3, <1>4, <1>6

LEMMA NextPlaceInv == IInv /\ TypeInv /\ PlaceInv /\ [Next]_vars => PlaceInv'
<1> SUFFICES ASSUME IInv, TypeInv, PlaceInv, [Next]_vars PROVE PlaceInv'
  OBVIOUS
<1>1. CASE LiveNext /\ UNCHANGED ssaVars
  <2>1. pc \in Early /\ pc' \in Early
    BY <1>1 DEF LiveNext, Early, Perform, SweepBB, SweepAgain, Solved, NothingRedundant, Eliminate,
       FadeBB, FadeAgain, Faded
  <2> QED
    BY <1>1, <2>1 DEF PlaceInv, ssaVars, Early
<1>2. CASE InitMapInfo
  BY <1>2, MapInfoInv
<1>3. CASE PlacePhi
  BY <1>3, PlacePhiInv
<1>4. CASE InitVPRStack \/ (\E b \in Block : VisitBB(b)) \/ LeaveBB
  <2>1. /\ pc' = "rename" /\ pc \in {"place", "rename"}
        /\ succ' = succ /\ code' = code /\ liveout' = liveout /\ change' = change
        /\ differs' = differs /\ dom' = dom /\ phi' = phi /\ defbbs' = defbbs /\ drops' = drops
    BY <1>4 DEF InitVPRStack, VisitBB, LeaveBB, liveVars, program, solving, fading
  <2>2. drops' = 0 /\ \A p \in PR : defbbs'[p] = {}
    BY <1>4, <2>1 DEF InitVPRStack, VisitBB, LeaveBB, PlaceInv
  <2>3. DomIs' /\ (~change' /\ ~differs' => InsideLive') /\ \A p \in PR : PhisInv(p)'
    BY <2>1, PlaceStays DEF PlaceInv
  <2> QED
    BY <2>1, <2>2, <2>3 DEF PlaceInv, Early
<1>5. CASE StartRefine \/ RefineBB \/ RefineDone \/ (\E b \in Block : \E s \in succ[b] : DropEdge(b, s))
  <2>1. pc' \in {"refine", "built"}
    BY <1>5 DEF StartRefine, RefineBB, RefineDone, DropEdge, liveVars
  <2> QED
    BY <2>1 DEF PlaceInv, Early
<1>6. CASE UNCHANGED vars
  <2>1. UNCHANGED liveVars /\ UNCHANGED ssaVars
    BY <1>6 DEF vars
  <2>2. /\ pc' = pc /\ succ' = succ /\ code' = code /\ liveout' = liveout /\ change' = change
        /\ differs' = differs /\ dom' = dom /\ phi' = phi /\ defbbs' = defbbs
        /\ drops' = drops /\ link' = link /\ path' = path /\ renamed' = renamed /\ stack' = stack
    BY <2>1 DEF liveVars, program, solving, fading, ssaVars
  <2>3. DomIs' = DomIs /\ InsideLive' = InsideLive /\ \A p \in PR : PhisInv(p)' = PhisInv(p)
    BY <2>2, PlaceStays
  <2> QED
    BY <2>2, <2>3 DEF PlaceInv
<1> QED
  BY <1>1, <1>2, <1>3, <1>4, <1>5, <1>6 DEF Next, Done

LEMMA PlaceInvHolds == Spec => []PlaceInv
BY InitPlaceInv, NextPlaceInv, InvariantHolds, TypeInvHolds, PTL DEF Spec

-----------------------------------------------------------------------------
(* How many rounds the elimination needs                                   *)

\* The blocks that hand p on, as far as the rounds have found.
Out(p) == {v \in Block : p \in newout[v]}

\* The new sets only grow: what a block has let stand it would let stand again.
Grows == \A v \in Block : newin[v] \subseteq FadedIn(v) /\ newout[v] \subseteq FadedOut(v)

\* Visiting v would not change anything for p.
Same(p, v) == (p \in newin[v] <=> p \in FadedIn(v)) /\ (p \in newout[v] <=> p \in FadedOut(v))

\* p is settled, or in each round one more block hands p on: in this round too,
\* or nothing is to do for p in the blocks it has visited.
FadeProgress(p) ==
    \/ \A v \in Block \ {Entry} : Same(p, v)
    \/ rounds + 1 <= Cardinality(Out(p))
    \/ /\ rounds <= Cardinality(Out(p))
       /\ \A v \in visited \ {Entry} : Same(p, v)

RoundsInv ==
    /\ pc \in {"perform", "solve", "solved"} => rounds = 0
    /\ pc = "fade" =>
         /\ Entry \in visited /\ newout[Entry] = {} /\ Grows /\ rounds <= N
         /\ \A p \in PR : FadeProgress(p)
         /\ differs => \E p \in PR : rounds <= Cardinality(Out(p))
    /\ pc = "live" => rounds <= N + 1

\* A subset of the blocks has at most as many, one without the entry fewer.
LEMMA FewBlocks ==
    ASSUME NEW S \in SUBSET Block
    PROVE  /\ IsFiniteSet(S) /\ Cardinality(S) \in Nat
           /\ Entry \notin S => Cardinality(S) + 1 <= N
           /\ \A T \in SUBSET S : /\ Cardinality(T) \in Nat /\ Cardinality(T) <= Cardinality(S)
                                  /\ T # S => Cardinality(T) + 1 <= Cardinality(S)
<1>1. IsFiniteSet(Block) /\ Cardinality(Block) = N /\ Entry \in Block
  BY FS_Interval, Places DEF Block
<1>2. IsFiniteSet(S) /\ Cardinality(S) \in Nat
  BY <1>1, FS_Subset, FS_CardinalityType
<1>3. ASSUME NEW G, IsFiniteSet(G), NEW T \in SUBSET G
      PROVE  /\ Cardinality(T) \in Nat /\ Cardinality(T) <= Cardinality(G)
             /\ T # G => Cardinality(T) + 1 <= Cardinality(G)
  <2>1. IsFiniteSet(T) /\ Cardinality(T) <= Cardinality(G) /\ (Cardinality(G) = Cardinality(T) => G = T)
    BY <1>3, FS_Subset
  <2>2. Cardinality(T) \in Nat /\ Cardinality(G) \in Nat
    BY <1>3, <2>1, FS_CardinalityType
  <2> QED
    BY <2>1, <2>2
<1>4. Entry \notin S => Cardinality(S) + 1 <= N
  BY <1>1, <1>3
<1> QED
  BY <1>2, <1>3, <1>4

\* What Same depends on.
LEMMA SameStays ==
    ASSUME UNCHANGED <<succ, code, livein, liveout, redundant, newin, newout>>
    PROVE  /\ \A p, v : Same(p, v)' = Same(p, v)
           /\ \A p : Out(p)' = Out(p)
           /\ Grows' = Grows
<1>1. \A v : Fades(v)' = Fades(v)
  BY DEF Fades, Preds
<1>2. \A v : FadedIn(v)' = FadedIn(v) /\ FadedOut(v)' = FadedOut(v)
  BY <1>1, LiveAtStays DEF FadedIn, FadedOut
<1> QED
  BY <1>2 DEF Same, Out, Grows

LEMMA EliminateRounds ==
    ASSUME IInv, RoundsInv, Eliminate
    PROVE  RoundsInv'
<1>1. /\ pc = "solved" /\ pc' = "fade" /\ newin' = NoPRs /\ newout' = NoPRs /\ differs' = FALSE
      /\ rounds' = 0 /\ visited' = {Entry}
  BY DEF Eliminate, RoundsInv
<1>2. Grows' /\ newout'[Entry] = {}
  BY <1>1, Places DEF Grows, NoPRs
<1>3. ASSUME NEW p \in PR PROVE FadeProgress(p)'
  <2>1. Cardinality(Out(p))' \in Nat
    <3>1. Out(p)' = {}
      BY <1>1 DEF Out, NoPRs
    <3> QED
      BY <3>1, FS_EmptySet
  <2> QED
    BY <1>1, <2>1 DEF FadeProgress
<1> QED
  BY <1>1, <1>2, <1>3 DEF RoundsInv

\* What a visit of v does to the sets of one PR.
LEMMA FadeBBGrows ==
    ASSUME IInv, TypeInv, RoundsInv, NEW v \in Block, FadeBB(v)
    PROVE  /\ Grows' /\ v # Entry /\ newout'[Entry] = {} /\ \A p \in PR : Out(p) \subseteq Out(p)'
           /\ \A p \in PR : Same(p, v) => /\ \A u \in Block : p \in newin'[u] <=> p \in newin[u]
                                          /\ Out(p)' = Out(p)
           /\ \A p \in PR : Out(p)' = Out(p) => /\ Same(p, v)'
                                                /\ \A u \in Block \ {v} : Same(p, u)' = Same(p, u)
<1>1. /\ pc = "fade"
      /\ newin' = [newin EXCEPT ![v] = FadedIn(v)] /\ newout' = [newout EXCEPT ![v] = FadedOut(v)]
      /\ succ' = succ /\ code' = code /\ livein' = livein /\ liveout' = liveout
      /\ redundant' = redundant
  BY DEF FadeBB, program, solving
<1>2. Types /\ Grows /\ Entry \in visited /\ newout[Entry] = {}
  BY <1>1 DEF IInv, RoundsInv
<1>3. v # Entry
  BY <1>2 DEF FadeBB, Frontier
<1>4. \A u \in Block : newin[u] \subseteq newin'[u] /\ newout[u] \subseteq newout'[u]
  BY <1>1, <1>2 DEF Grows, Types
<1>5. \A u \in Block \ {v} : newin'[u] = newin[u] /\ newout'[u] = newout[u]
  BY <1>1, <1>2 DEF Types
<1>6. newin'[v] = FadedIn(v) /\ newout'[v] = FadedOut(v)
  BY <1>1, <1>2 DEF Types
<1>7. \A u : Preds(u)' = Preds(u) /\ Preds(u) \subseteq Block /\ Use(u)' = Use(u) /\ Def(u)' = Def(u)
  BY <1>1, LiveAtStays DEF Preds
<1>8. \A u \in Block : FadedIn(u) \subseteq FadedIn(u)' /\ FadedOut(u) \subseteq FadedOut(u)'
  <2> SUFFICES ASSUME NEW u \in Block
               PROVE  FadedIn(u) \subseteq FadedIn(u)' /\ FadedOut(u) \subseteq FadedOut(u)'
    OBVIOUS
  <2>1. UNION {newout[w] : w \in Preds(u)} \subseteq UNION {newout'[w] : w \in Preds(u)}
    BY <1>4, <1>7
  <2>2. Fades(u)' \subseteq Fades(u)
    BY <1>1, <1>7, <2>1 DEF Fades
  <2> QED
    BY <1>1, <1>7, <2>2 DEF FadedIn, FadedOut
<1>9. Grows'
  <2>1. ASSUME NEW u \in Block
        PROVE  newin'[u] \subseteq FadedIn(u)' /\ newout'[u] \subseteq FadedOut(u)'
    <3>1. newin'[u] \subseteq FadedIn(u) /\ newout'[u] \subseteq FadedOut(u)
      BY <1>2, <1>5, <1>6 DEF Grows
    <3> QED
      BY <1>8, <3>1
  <2> QED
    BY <2>1 DEF Grows
<1>10. newout'[Entry] = {} /\ \A p \in PR : Out(p) \subseteq Out(p)'
  BY <1>2, <1>3, <1>4, <1>5, Places DEF Out
<1>11. ASSUME NEW p \in PR, Same(p, v)
       PROVE  /\ \A u \in Block : p \in newin'[u] <=> p \in newin[u]
              /\ Out(p)' = Out(p)
  BY <1>5, <1>6, <1>11 DEF Same, Out
<1>12. ASSUME NEW p \in PR, Out(p)' = Out(p)
       PROVE  /\ Same(p, v)'
              /\ \A u \in Block \ {v} : Same(p, u)' = Same(p, u)
  <2>1. \A u \in Block : p \in newout'[u] <=> p \in newout[u]
    BY <1>12 DEF Out
  <2>2. \A u : p \in Fades(u)' <=> p \in Fades(u)
    BY <1>1, <1>7, <2>1 DEF Fades
  <2>3. \A u : (p \in FadedIn(u)' <=> p \in FadedIn(u)) /\ (p \in FadedOut(u)' <=> p \in FadedOut(u))
    BY <1>1, <1>7, <2>2 DEF FadedIn, FadedOut
  <2>4. Same(p, v)'
    BY <1>6, <2>3 DEF Same
  <2>5. ASSUME NEW u \in Block \ {v} PROVE Same(p, u)' = Same(p, u)
    BY <1>5, <2>3 DEF Same
  <2> QED
    BY <2>4, <2>5
<1> QED
  BY <1>3, <1>9, <1>10, <1>11, <1>12

LEMMA FadeBBProgress ==
    ASSUME IInv, TypeInv, RoundsInv, NEW v \in Block, FadeBB(v), NEW p \in PR
    PROVE  FadeProgress(p)'
<1>1. pc = "fade" /\ rounds' = rounds /\ rounds \in Nat /\ visited' = visited \cup {v}
  BY DEF FadeBB, TypeInv, LiveTypes
<1>2. FadeProgress(p)
  BY <1>1 DEF RoundsInv
<1>3. PICK g, h : /\ g = Cardinality(Out(p)) /\ h = Cardinality(Out(p)')
                  /\ g \in Nat /\ h \in Nat /\ g <= h /\ (Out(p)' # Out(p) => g + 1 <= h)
  <2>1. PICK G, H : G = Out(p) /\ H = Out(p)'
    OBVIOUS
  <2>2. H \in SUBSET Block /\ G \in SUBSET H
    BY <2>1, FadeBBGrows DEF Out
  <2> QED
    BY <2>1, <2>2, FewBlocks
<1>4. Cardinality(Out(p))' = h
  BY <1>3
<1>5. CASE \A u \in Block \ {Entry} : Same(p, u)
  <2>1. Same(p, v) /\ Out(p)' = Out(p)
    BY <1>5, FadeBBGrows
  <2>2. \A u \in Block \ {Entry} : Same(p, u)'
    BY <1>5, <2>1, FadeBBGrows
  <2> QED
    BY <2>2 DEF FadeProgress
<1>6. CASE rounds + 1 <= g
  <2>1. rounds + 1 <= h
    BY <1>1, <1>3, <1>6
  <2> QED
    BY <1>1, <1>4, <2>1 DEF FadeProgress
<1>7. CASE rounds <= g /\ \A u \in visited \ {Entry} : Same(p, u)
  <2>1. CASE Out(p)' # Out(p)
    <3>1. rounds + 1 <= h
      BY <1>1, <1>3, <1>7, <2>1
    <3> QED
      BY <1>1, <1>4, <3>1 DEF FadeProgress
  <2>2. CASE Out(p)' = Out(p)
    <3>1. rounds <= h
      BY <1>1, <1>3, <1>7
    <3>2. visited \subseteq Block
      BY DEF IInv, Types
    <3>3. \A u \in visited' \ {Entry} : Same(p, u)'
      BY <1>1, <1>7, <2>2, <3>2, FadeBBGrows
    <3> QED
      BY <1>1, <1>4, <3>1, <3>3 DEF FadeProgress
  <2> QED
    BY <2>1, <2>2
<1> QED
  BY <1>2, <1>3, <1>5, <1>6, <1>7 DEF FadeProgress

LEMMA FadeBBRounds ==
    ASSUME IInv, TypeInv, RoundsInv, NEW v \in Block, FadeBB(v)
    PROVE  RoundsInv'
<1>1. /\ pc = "fade" /\ pc' = "fade" /\ rounds' = rounds /\ rounds \in Nat /\ visited' = visited \cup {v}
      /\ newin' = [newin EXCEPT ![v] = FadedIn(v)] /\ newout' = [newout EXCEPT ![v] = FadedOut(v)]
      /\ differs' = (differs \/ newin' # newin \/ newout' # newout)
  BY DEF FadeBB, TypeInv, LiveTypes
<1>2. Types /\ Entry \in visited /\ rounds <= N
  BY <1>1 DEF IInv, RoundsInv
<1>3. \A p \in PR : FadeProgress(p) /\ FadeProgress(p)'
  BY <1>1, FadeBBProgress DEF RoundsInv
<1>4. \A p \in PR : /\ Cardinality(Out(p)) \in Nat /\ Cardinality(Out(p))' \in Nat
                    /\ Cardinality(Out(p)) <= Cardinality(Out(p))'
  <2> SUFFICES ASSUME NEW p \in PR
               PROVE  /\ Cardinality(Out(p)) \in Nat /\ Cardinality(Out(p))' \in Nat
                      /\ Cardinality(Out(p)) <= Cardinality(Out(p))'
    OBVIOUS
  <2>1. PICK G, H : G = Out(p) /\ H = Out(p)'
    OBVIOUS
  <2>2. H \in SUBSET Block /\ G \in SUBSET H
    BY <2>1, FadeBBGrows DEF Out
  <2>3. Cardinality(G) \in Nat /\ Cardinality(H) \in Nat /\ Cardinality(G) <= Cardinality(H)
    BY <2>2, FewBlocks
  <2> QED
    BY <2>1, <2>3
<1>5. ASSUME newin' # newin \/ newout' # newout
      PROVE  \E p \in PR : rounds <= Cardinality(Out(p))
  <2>1. FadedIn(v) \subseteq PR /\ FadedOut(v) \subseteq PR /\ newin[v] \subseteq PR /\ newout[v] \subseteq PR
    BY <1>2 DEF FadedIn, FadedOut, Types
  <2>2. newin[v] # FadedIn(v) \/ newout[v] # FadedOut(v)
    BY <1>1, <1>2, <1>5 DEF Types
  <2>3. PICK p \in PR : ~Same(p, v)
    BY <2>1, <2>2 DEF Same
  <2>4. v # Entry
    BY FadeBBGrows
  <2>5. rounds + 1 <= Cardinality(Out(p)) \/ rounds <= Cardinality(Out(p))
    BY <1>3, <2>3, <2>4 DEF FadeProgress
  <2>6. rounds <= Cardinality(Out(p))
    BY <1>1, <1>4, <2>5
  <2> QED
    BY <2>6
<1>6. differs' => \E p \in PR : rounds' <= Cardinality(Out(p))'
  <2> SUFFICES ASSUME differs' PROVE \E p \in PR : rounds' <= Cardinality(Out(p))'
    OBVIOUS
  <2>1. PICK p \in PR : rounds <= Cardinality(Out(p))
    BY <1>1, <1>5 DEF RoundsInv
  <2>2. rounds <= Cardinality(Out(p))'
    BY <1>1, <1>4, <2>1
  <2> QED
    BY <1>1, <2>2
<1> QED
  BY <1>1, <1>2, <1>3, <1>6, FadeBBGrows DEF RoundsInv

\* A PR that keeps the rounds going is handed on by some blocks, not the entry.
LEMMA DiffersFew ==
    ASSUME TypeInv, RoundsInv, pc = "fade", differs
    PROVE  rounds + 1 <= N
<1>1. PICK p \in PR : rounds <= Cardinality(Out(p))
  BY DEF RoundsInv
<1>2. Out(p) \in SUBSET Block /\ Entry \notin Out(p)
  BY DEF RoundsInv, Out
<1>3. Cardinality(Out(p)) \in Nat /\ Cardinality(Out(p)) + 1 <= N
  BY <1>2, FewBlocks
<1>4. rounds \in Nat
  BY DEF TypeInv, LiveTypes
<1> QED
  BY <1>1, <1>3, <1>4

LEMMA FadeAgainRounds ==
    ASSUME IInv, TypeInv, RoundsInv, FadeAgain
    PROVE  RoundsInv'
<1>1. /\ pc = "fade" /\ pc' = "fade" /\ differs /\ differs' = FALSE /\ rounds' = rounds + 1
      /\ Frontier = {} /\ visited' = {Entry}
      /\ UNCHANGED <<succ, code, livein, liveout, redundant, newin, newout>>
  BY DEF FadeAgain, program, solving
<1>2. rounds \in Nat /\ Entry \in visited /\ newout[Entry] = {} /\ Grows
  BY <1>1 DEF TypeInv, LiveTypes, RoundsInv
<1>3. visited = Block
  <2>1. visited \in SUBSET Block /\ GraphInv /\ succ \in [Block -> SUBSET Block]
    BY DEF IInv, Types
  <2>2. \A b \in visited : succ[b] \subseteq visited
    BY <1>1, <2>1 DEF Frontier
  <2> QED
    BY <1>2, <2>1, <2>2 DEF GraphInv
<1>4. rounds' <= N
  BY <1>1, DiffersFew
<1>5. ASSUME NEW p \in PR PROVE FadeProgress(p)'
  <2>1. FadeProgress(p)
    BY <1>1 DEF RoundsInv
  <2>2. \A v : Same(p, v)' = Same(p, v)
    BY <1>1, SameStays
  <2>3. Cardinality(Out(p))' = Cardinality(Out(p))
    BY <1>1, SameStays
  <2>4. CASE \A v \in Block \ {Entry} : Same(p, v)
    BY <2>2, <2>4 DEF FadeProgress
  <2>5. CASE rounds + 1 <= Cardinality(Out(p))
    BY <1>1, <2>3, <2>5 DEF FadeProgress
  <2> QED
    BY <1>3, <2>1, <2>4, <2>5 DEF FadeProgress
<1> QED
  BY <1>1, <1>2, <1>4, <1>5, SameStays DEF RoundsInv

LEMMA NextRounds == IInv /\ TypeInv /\ RoundsInv /\ [Next]_vars => RoundsInv'
<1> SUFFICES ASSUME IInv, TypeInv, RoundsInv, [Next]_vars PROVE RoundsInv'
  OBVIOUS
<1>1. CASE Perform
  BY <1>1 DEF Perform, RoundsInv, fading
<1>2. CASE SweepBB
  BY <1>2 DEF SweepBB, RoundsInv, fading
<1>3. CASE SweepAgain
  BY <1>3 DEF SweepAgain, RoundsInv, fading
<1>4. CASE Solved
  BY <1>4 DEF Solved, RoundsInv, fading
<1>5. CASE Eliminate
  BY <1>5, EliminateRounds
<1>6. ASSUME NEW v \in Block, FadeBB(v) PROVE RoundsInv'
  BY <1>6, FadeBBRounds
<1>7. CASE FadeAgain
  BY <1>7, FadeAgainRounds
<1>8. CASE Faded
  <2>1. pc = "fade" /\ pc' = "live" /\ rounds' = rounds + 1
    BY <1>8 DEF Faded
  <2>2. rounds \in Nat /\ rounds <= N
    BY <2>1 DEF TypeInv, LiveTypes, RoundsInv
  <2> QED
    BY <2>1, <2>2 DEF RoundsInv
<1>9. CASE NothingRedundant
  BY <1>9 DEF NothingRedundant, RoundsInv, fading
<1>10. ASSUME pc' \notin {"perform", "solve", "solved", "fade", "live"} PROVE RoundsInv'
  BY <1>10 DEF RoundsInv
<1>11. CASE InitMapInfo
  BY <1>10, <1>11 DEF InitMapInfo
<1>12. CASE PlacePhi
  BY <1>10, <1>12 DEF PlacePhi, liveVars
<1>13. CASE InitVPRStack
  BY <1>10, <1>13 DEF InitVPRStack
<1>14. ASSUME NEW b \in Block, VisitBB(b) PROVE RoundsInv'
  BY <1>10, <1>14 DEF VisitBB, liveVars
<1>15. CASE LeaveBB
  BY <1>10, <1>15 DEF LeaveBB, liveVars
<1>16. CASE StartRefine
  BY <1>10, <1>16 DEF StartRefine
<1>17. CASE RefineBB
  BY <1>10, <1>17 DEF RefineBB, liveVars
<1>18. CASE RefineDone
  BY <1>10, <1>18 DEF RefineDone
<1>19. ASSUME NEW b \in Block, NEW s \in succ[b], DropEdge(b, s) PROVE RoundsInv'
  BY <1>10, <1>19 DEF DropEdge
<1>20. CASE UNCHANGED vars
  <2>1. UNCHANGED <<pc, rounds, differs, visited, succ, code, livein, liveout, redundant,
                    newin, newout>>
    BY <1>20 DEF vars, liveVars, program, solving, fading
  <2>2. /\ \A p, v : Same(p, v)' = Same(p, v)
        /\ \A p : Out(p)' = Out(p)
        /\ Grows' = Grows
    BY <2>1, SameStays
  <2>3. \A p : FadeProgress(p)' = FadeProgress(p)
    BY <2>1, <2>2 DEF FadeProgress
  <2>4. \A p : Cardinality(Out(p))' = Cardinality(Out(p))
    BY <2>2
  <2> QED
    BY <2>1, <2>2, <2>3, <2>4 DEF RoundsInv
<1> QED
  BY <1>1, <1>2, <1>3, <1>4, <1>5, <1>6, <1>7, <1>8, <1>9, <1>11, <1>12, <1>13,
     <1>14, <1>15, <1>16, <1>17, <1>18, <1>19, <1>20 DEF Next, LiveNext, Done

LEMMA RoundsInvHolds == Spec => []RoundsInv
<1>1. SSAInit => RoundsInv
  BY DEF SSAInit, LiveInit, RoundsInv
<1> QED
  BY <1>1, NextRounds, InvariantHolds, TypeInvHolds, PTL DEF Spec

\* computeGlobal needs two sweeps and one for each edge that does not go
\* forward in the list: each sweep that leaves something to do has found the
\* PR live behind another such edge. eliminateRedundantLiveness visits the blocks
\* in whatever order, and each round that leaves something to do has found
\* one more block, other than the entry, that hands on the PR it is to be done for.
THEOREM SweepsAreFew == Spec => []FewSweeps
<1>1. FewInv /\ RoundsInv => FewSweeps
  <2> SUFFICES ASSUME FewInv, RoundsInv PROVE FewSweeps
    OBVIOUS
  <2>1. pc = "solved" => count <= 2 + Cardinality(Back)
    BY BackFinite DEF FewInv
  <2> QED
    BY <2>1 DEF FewSweeps, RoundsInv, Back
<1> QED
  BY <1>1, FewInvHolds, RoundsInvHolds, PTL

-----------------------------------------------------------------------------
(* With these bounds both data flows settle                                *)

\* The code's 1000 sweeps are enough for every program with up to 997 edges
\* that do not go forward in the list, its 100 rounds for up to 99 blocks.
EnoughRounds ==
    /\ \A prog \in Programs :
         SweepBound > 2 + Cardinality({e \in Block \X Block : e[2] \in prog.succ[e[1]] /\ e[2] <= e[1]})
    /\ FadeBound > N

\* Neither loop ends at its bound.
ConvergeInv ==
    /\ pc \in {"perform", "solve"} => SweepBound > 2 + Cardinality(Back)
    /\ pc \notin {"perform", "solve"} => ~change
    /\ pc # "fade" => ~differs

LEMMA SolvedConverges ==
    ASSUME FewInv, ConvergeInv, Solved
    PROVE  ~change'
<1>1. /\ pc = "solve" /\ count' = count + 1 /\ ~(change /\ count' < SweepBound) /\ change' = change
  BY DEF Solved
<1>2. count \in Nat /\ count <= Cardinality(Back) + 1 /\ SweepBound > 2 + Cardinality(Back)
  BY <1>1 DEF FewInv, ConvergeInv
<1>3. Cardinality(Back) \in Nat
  BY BackFinite
<1>4. count' < SweepBound
  BY <1>1, <1>2, <1>3
<1> QED
  BY <1>1, <1>4

LEMMA NextConverge ==
    ASSUME EnoughRounds
    PROVE  TypeInv /\ FewInv /\ RoundsInv /\ ConvergeInv /\ [Next]_vars => ConvergeInv'
<1> SUFFICES ASSUME TypeInv, FewInv, RoundsInv, ConvergeInv, [Next]_vars PROVE ConvergeInv'
  OBVIOUS
<1> DEFINE Frame == Cardinality(Back)' = Cardinality(Back)
<1>0. succ' = succ => Frame
  <2>1. succ' = succ => Back' = Back
    BY DEF Back
  <2> QED
    BY <2>1
<1> HIDE DEF Frame
<1>1. ASSUME succ' = succ, pc \in {"perform", "solve"}, pc' \in {"perform", "solve"}, differs' = differs
      PROVE  ConvergeInv'
  <2>1. SweepBound > 2 + Cardinality(Back)'
    BY <1>0, <1>1 DEF ConvergeInv, Frame
  <2> QED
    BY <1>1, <2>1 DEF ConvergeInv
<1>2. CASE Perform
  BY <1>1, <1>2 DEF Perform, program, fading
<1>3. CASE SweepBB
  BY <1>1, <1>3 DEF SweepBB, program, fading
<1>4. CASE SweepAgain
  BY <1>1, <1>4 DEF SweepAgain, program, fading
<1>5. CASE Solved
  <2>1. ~change'
    BY <1>5, SolvedConverges
  <2>2. pc = "solve" /\ pc' = "solved" /\ differs' = differs
    BY <1>5 DEF Solved, fading
  <2> QED
    BY <2>1, <2>2 DEF ConvergeInv
<1>6. CASE Eliminate
  BY <1>6 DEF Eliminate, ConvergeInv
<1>7. ASSUME NEW v \in Block, FadeBB(v) PROVE ConvergeInv'
  BY <1>7 DEF FadeBB, ConvergeInv, solving
<1>8. CASE FadeAgain
  BY <1>8 DEF FadeAgain, ConvergeInv, solving
<1>9. CASE Faded
  <2>1. /\ pc = "fade" /\ pc' = "live" /\ rounds' = rounds + 1 /\ change' = change
        /\ ~(differs /\ rounds' < FadeBound) /\ differs' = differs
    BY <1>9 DEF Faded
  <2>2. differs => rounds + 1 <= N
    BY <2>1, DiffersFew
  <2>3. rounds \in Nat /\ FadeBound > N
    BY DEF TypeInv, LiveTypes, EnoughRounds
  <2>4. ~differs
    BY <2>1, <2>2, <2>3
  <2> QED
    BY <2>1, <2>4 DEF ConvergeInv
<1>10. ASSUME pc \notin {"perform", "solve", "fade"}, pc' \notin {"perform", "solve", "fade"},
              change' = change, differs' = differs
       PROVE  ConvergeInv'
  BY <1>10 DEF ConvergeInv
<1>11. CASE NothingRedundant
  BY <1>10, <1>11 DEF NothingRedundant, solving, fading
<1>12. CASE InitMapInfo
  BY <1>10, <1>12 DEF InitMapInfo, solving, fading
<1>13. CASE PlacePhi
  BY <1>10, <1>13 DEF PlacePhi, liveVars, solving, fading
<1>14. CASE InitVPRStack
  BY <1>10, <1>14 DEF InitVPRStack, solving, fading
<1>15. ASSUME NEW b \in Block, VisitBB(b) PROVE ConvergeInv'
  BY <1>10, <1>15 DEF VisitBB, liveVars, solving, fading
<1>16. CASE LeaveBB
  BY <1>10, <1>16 DEF LeaveBB, liveVars, solving, fading
<1>17. CASE StartRefine
  BY <1>10, <1>17 DEF StartRefine, solving, fading
<1>18. CASE RefineBB
  BY <1>10, <1>18 DEF RefineBB, liveVars, solving, fading
<1>19. CASE RefineDone
  BY <1>10, <1>19 DEF RefineDone, solving, fading
<1>20. ASSUME NEW b \in Block, NEW s \in succ[b], DropEdge(b, s) PROVE ConvergeInv'
  BY <1>10, <1>20 DEF DropEdge, solving, fading
<1>21. CASE UNCHANGED vars
  <2>1. UNCHANGED <<pc, change, differs, succ>>
    BY <1>21 DEF vars, liveVars, program, solving, fading
  <2>2. Frame
    BY <1>0, <2>1
  <2> QED
    BY <2>1, <2>2 DEF ConvergeInv, Frame
<1> QED
  BY <1>2, <1>3, <1>4, <1>5, <1>6, <1>7, <1>8, <1>9, <1>11, <1>12, <1>13,
     <1>14, <1>15, <1>16, <1>17, <1>18, <1>19, <1>20, <1>21 DEF Next, LiveNext, Done

LEMMA ConvergeInvHolds == ASSUME EnoughRounds PROVE Spec => []ConvergeInv
<1>1. SSAInit => ConvergeInv
  <2> SUFFICES ASSUME SSAInit PROVE ConvergeInv
    OBVIOUS
  <2>1. pc = "perform" /\ ~change /\ ~differs
    BY DEF SSAInit, LiveInit
  <2>2. PICK prog \in Programs : succ = prog.succ
    BY DEF SSAInit, LiveInit
  <2>3. SweepBound > 2 + Cardinality(Back)
    BY <2>2 DEF EnoughRounds, Back
  <2> QED
    BY <2>1, <2>3 DEF ConvergeInv
<1>2. TypeInv /\ FewInv /\ RoundsInv /\ ConvergeInv /\ [Next]_vars => ConvergeInv'
  BY NextConverge
<1> QED
  BY <1>1, <1>2, TypeInvHolds, FewInvHolds, RoundsInvHolds, PTL DEF Spec

LEMMA BuiltConverged == ConvergeInv => (Built => ~change /\ ~differs)
BY DEF ConvergeInv, Built

=============================================================================
