------------------------------ MODULE Liveness ------------------------------
(***************************************************************************)
(* Liveness of PRs (opt/liveness_mgr.cpp): the backward data flow over the *)
(* RPO list, one block per step, and the pass after it that takes back     *)
(* what the entry seems to receive from outside, until that settles too.   *)
(*                                                                         *)
(* Block b is the b-th vertex of the RPO list.  Nothing depends on the     *)
(* numbers being a reverse postorder, only the number of sweeps does.      *)
(***************************************************************************)
EXTENDS Naturals, Sequences, FiniteSets

CONSTANTS N,           \* number of blocks
          PR,          \* the pseudo registers
          Programs,    \* the programs: [succ |-> ..., code |-> ...]
          SweepBound,  \* 1000: sweeps of the data flow
          FadeBound    \* 100: rounds of the elimination

Block == 1 .. N
Entry == 1

\* A statement reads some PRs and then writes at most one.
Stmt == {[reads |-> r, writes |-> w] : r \in SUBSET PR, w \in SUBSET PR}

ASSUME NAssumption == N \in Nat \ {0}
ASSUME PRAssumption == IsFiniteSet(PR)
ASSUME BoundsAssumption == SweepBound \in Nat \ {0} /\ FadeBound \in Nat \ {0}
ASSUME ProgramsAssumption ==
    \A p \in Programs : /\ p.succ \in [Block -> SUBSET Block]
                        /\ p.code \in [Block -> Seq(Stmt)]
                        /\ \A b \in Block : Entry \notin p.succ[b]
                        /\ \A S \in SUBSET Block :
                             Entry \in S /\ (\A b \in S : p.succ[b] \subseteq S) => S = Block

VARIABLES
    succ,      \* edges of the CFG
    code,      \* statements of the blocks
    pc,
    livein,    \* PRs live at the beginning of a block
    liveout,   \* PRs live at the end of a block
    at,        \* the sweep handles block at next, 0: it is through
    change,    \* the sweep has changed a liveout
    count,     \* sweeps that are through
    redundant, \* livein of the entry as the data flow left it
    newin,     \* AuxLivenessMgr's sets: what the elimination lets stand
    newout,
    visited,   \* the blocks the round has recomputed
    differs,   \* the round has changed one of the new sets
    rounds     \* rounds that are through

program == <<succ, code>>
solving == <<livein, liveout, at, change, count>>
fading == <<redundant, newin, newout, visited, differs, rounds>>
liveVars == <<program, pc, solving, fading>>

Preds(b) == {q \in Block : b \in succ[q]}
NoPRs == [b \in Block |-> {}]
-----------------------------------------------------------------------------
(* What a block needs from its predecessors and what it gives, as walking  *)
(* its statements backwards finds it.                                      *)
Use(b) == {p \in PR : \E i \in DOMAIN code[b] :
              /\ p \in code[b][i].reads
              /\ \A j \in 1 .. i - 1 : p \notin code[b][j].writes}
Def(b) == {p \in PR : \E i \in DOMAIN code[b] : p \in code[b][i].writes}

\* The definition of liveness: p is live at the beginning of block b if some
\* path from there reaches a block that needs p before one that gives it.
NeedsOf(p, S) == {b \in Block : \/ p \in Use(b)
                                \/ p \notin Def(b) /\ succ[b] \cap S # {}}
LiveAt(p) == {b \in Block : \A S \in SUBSET Block : NeedsOf(p, S) \subseteq S => b \in S}

\* The blocks whose beginning a definition of p outside the entry reaches.
HandedOn(p, S) == {b \in Block : \E q \in Preds(b) \ {Entry} : p \in Def(q) \/ q \in S}
FromInside(p) == {b \in Block : \A S \in SUBSET Block : HandedOn(p, S) \subseteq S => b \in S}
-----------------------------------------------------------------------------
LiveInit ==
    /\ \E prog \in Programs : succ = prog.succ /\ code = prog.code
    /\ pc = "perform"
    /\ livein = NoPRs /\ liveout = NoPRs
    /\ at = N /\ change = FALSE /\ count = 0
    /\ redundant = {} /\ newin = NoPRs /\ newout = NoPRs
    /\ visited = {} /\ differs = FALSE /\ rounds = 0

\* computeLocal, initSet and the beginning of computeGlobal.
Perform ==
    /\ pc = "perform"
    /\ pc' = "solve"
    /\ livein' = [b \in Block |-> Use(b)]
    /\ liveout' = NoPRs
    /\ UNCHANGED <<program, at, change, count, fading>>

\* Mutant of Gathered: the first successor only.
GatheredOne(b) == IF succ[b] = {} THEN liveout[b] ELSE livein[CHOOSE s \in succ[b] : TRUE]

\* A block without successors keeps its liveout.
Gathered(b) == IF succ[b] = {} THEN liveout[b] ELSE UNION {livein[s] : s \in succ[b]}

\* Mutant of SweepBB: the list is walked from its head.
SweepBBFromHead ==
    /\ pc = "solve" /\ at # 0
    /\ LET b == N + 1 - at
       IN  /\ liveout' = [liveout EXCEPT ![b] = Gathered(b)]
           /\ livein' = [livein EXCEPT ![b] = (Gathered(b) \ Def(b)) \cup Use(b)]
           /\ change' = (change \/ Gathered(b) # liveout[b])
    /\ at' = at - 1
    /\ UNCHANGED <<program, pc, count, fading>>

SweepBB ==
    /\ pc = "solve" /\ at # 0
    /\ liveout' = [liveout EXCEPT ![at] = Gathered(at)]
    /\ livein' = [livein EXCEPT ![at] = (Gathered(at) \ Def(at)) \cup Use(at)]
    /\ change' = (change \/ Gathered(at) # liveout[at])
    /\ at' = at - 1
    /\ UNCHANGED <<program, pc, count, fading>>

\* Mutant of SweepAgain: the next sweep starts behind the end of the list.
SweepAgainOffByOne ==
    /\ pc = "solve" /\ at = 0
    /\ count' = count + 1
    /\ change /\ count' < SweepBound
    /\ at' = N + 1 /\ change' = FALSE
    /\ UNCHANGED <<program, pc, livein, liveout, fading>>

SweepAgain ==
    /\ pc = "solve" /\ at = 0
    /\ count' = count + 1
    /\ change /\ count' < SweepBound
    /\ at' = N /\ change' = FALSE
    /\ UNCHANGED <<program, pc, livein, liveout, fading>>

Solved ==
    /\ pc = "solve" /\ at = 0
    /\ count' = count + 1
    /\ ~(change /\ count' < SweepBound)
    /\ pc' = "solved"
    /\ UNCHANGED <<program, livein, liveout, at, change, fading>>

NothingRedundant ==
    /\ pc = "solved" /\ livein[Entry] \subseteq Use(Entry)
    /\ pc' = "live"
    /\ UNCHANGED <<program, solving, fading>>

\* eliminateRedundantLiveness up to its loop. The entry's new sets stay empty.
Eliminate ==
    /\ pc = "solved" /\ ~(livein[Entry] \subseteq Use(Entry))
    /\ pc' = "fade"
    /\ redundant' = livein[Entry]
    /\ livein' = [livein EXCEPT ![Entry] = @ \cap Use(Entry)]
    /\ liveout' = [liveout EXCEPT ![Entry] = @ \cap Def(Entry)]
    /\ newin' = NoPRs /\ newout' = NoPRs
    /\ visited' = {Entry} /\ differs' = FALSE /\ rounds' = 0
    /\ UNCHANGED <<program, at, change, count>>

\* The blocks the round's list holds: reached from a visited one.
Frontier == {v \in Block \ visited : \E u \in visited : v \in succ[u]}

\* Of what the entry received, a block keeps what its predecessors now hand
\* on and what it uses itself, or defines itself.
Fades(v) == redundant \ UNION {newout[u] : u \in Preds(v)}
FadedIn(v) == livein[v] \ (Fades(v) \ Use(v))
FadedOutOfAll(v) == liveout[v] \ Fades(v)   \* mutant: also what v defines
FadedOut(v) == liveout[v] \ (Fades(v) \ Def(v))

FadeBB(v) ==
    /\ pc = "fade" /\ v \in Frontier
    /\ newin' = [newin EXCEPT ![v] = FadedIn(v)]
    /\ newout' = [newout EXCEPT ![v] = FadedOut(v)]
    /\ differs' = (differs \/ newin' # newin \/ newout' # newout)
    /\ visited' = visited \cup {v}
    /\ UNCHANGED <<program, pc, solving, redundant, rounds>>

\* Mutant of FadeAgain: a difference of one round counts for all that follow.
FadeAgainUnreset ==
    /\ pc = "fade" /\ Frontier = {}
    /\ rounds' = rounds + 1
    /\ differs /\ rounds' < FadeBound
    /\ visited' = {Entry}
    /\ UNCHANGED <<program, pc, solving, redundant, newin, newout, differs>>

FadeAgain ==
    /\ pc = "fade" /\ Frontier = {}
    /\ rounds' = rounds + 1
    /\ differs /\ rounds' < FadeBound
    /\ visited' = {Entry} /\ differs' = FALSE
    /\ UNCHANGED <<program, pc, solving, redundant, newin, newout>>

\* resetLivenessAfterRemoveRedundantLiveness walks the same blocks again.
Faded ==
    /\ pc = "fade" /\ Frontier = {}
    /\ rounds' = rounds + 1
    /\ ~(differs /\ rounds' < FadeBound)
    /\ pc' = "live"
    /\ LET Kept(new, old) == [b \in Block |-> IF b \in visited \ {Entry}
                                              THEN new[b] ELSE old[b]]
       IN  livein' = Kept(newin, livein) /\ liveout' = Kept(newout, liveout)
    /\ UNCHANGED <<program, at, change, count, redundant, newin, newout, visited, differs>>

LiveNext == \/ Perform \/ SweepBB \/ SweepAgain \/ Solved \/ NothingRedundant
            \/ Eliminate \/ (\E v \in Block : FadeBB(v)) \/ FadeAgain \/ Faded

-----------------------------------------------------------------------------
LiveTypeOK ==
    /\ succ \in [Block -> SUBSET Block]
    /\ code \in [Block -> Seq(Stmt)]
    /\ livein \in [Block -> SUBSET PR] /\ liveout \in [Block -> SUBSET PR]
    /\ at \in 0 .. N /\ change \in BOOLEAN /\ count \in 0 .. SweepBound
    /\ redundant \in SUBSET PR
    /\ newin \in [Block -> SUBSET PR] /\ newout \in [Block -> SUBSET PR]
    /\ visited \in SUBSET Block /\ differs \in BOOLEAN /\ rounds \in 0 .. FadeBound

\* When a sweep has changed nothing (computeGlobal), livein is liveness: a PR
\* is in it exactly where some path leads to a read of it before a write.
SolvedIsLive ==
    pc = "solved" /\ ~change =>
        \A b \in Block : livein[b] = {p \in PR : b \in LiveAt(p)}

\* What the elimination takes back (eliminateRedundantLiveness) is never a
\* value that a block of the region gives: where a definition outside the
\* entry reaches and the PR is live, it stays live.  (PHI placement relies on
\* this; values the entry itself defines are not safe from it.)
InsideValuesStayLive ==
    pc = "live" /\ ~change /\ ~differs =>
        \A p \in PR, b \in Block :
            /\ b \in LiveAt(p) /\ b \in FromInside(p) => p \in livein[b]
            /\ /\ b # Entry /\ (p \in Def(b) \/ b \in FromInside(p))
               /\ succ[b] \cap LiveAt(p) # {}
               => p \in liveout[b]

\* Neither data flow goes round often.  The sweep goes against the edges
\* (computeGlobal walks the list from its tail): one sweep for the straight
\* edges, one for each edge that does not go forward in the list, one to find
\* that nothing changes.  The rounds of eliminateRedundantLiveness visit the
\* blocks in an order that has nothing to do with the one before; still no PR
\* keeps them going for more than a round for each block.
FewSweeps ==
    /\ pc = "solved" => count <= 2 + Cardinality({e \in Block \X Block : e[2] \in succ[e[1]] /\ e[2] <= e[1]})
    /\ pc = "live" => rounds <= N + 1
=============================================================================
