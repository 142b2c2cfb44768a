------------------------------ MODULE ScalarOpt ------------------------------
(***************************************************************************)
(* The scalar optimization pipeline of a Region (opt/scalar_opt.cpp): the  *)
(* passes the options select are performed round by round until a round    *)
(* changes nothing.  Some passes undo each other's work, so a pass that    *)
(* has had its chances is gated (worthToDo).                               *)
(*                                                                         *)
(* What a pass does to the program is abstracted to `opps', the passes     *)
(* that would change the program if they ran now: performing p uses up the *)
(* opportunity of p and may open some of those of Enables[p].              *)
(***************************************************************************)
EXTENDS Naturals, Sequences

CONSTANTS
    OptionSets,  \* the sets of options the compiler may be run with
    Gains,       \* the passes the input program may have an opportunity for
    Enables      \* Enables[p]: the passes p may open an opportunity for

\* passlist in order: a pass and the options that put it there.
Schedule ==
    << [pass |-> "VRP",              needs |-> {"vrp"}],
       [pass |-> "IVR",              needs |-> {"ivr"}],
       [pass |-> "CP",               needs |-> {"cp"}],
       [pass |-> "BCP",              needs |-> {"bcp"}],
       [pass |-> "RCE",              needs |-> {"rce"}],
       [pass |-> "LICM",             needs |-> {"licm"}],
       [pass |-> "RP",               needs |-> {"rp"}],
       [pass |-> "GCSE",             needs |-> {"gcse"}],
       [pass |-> "LCSE",             needs |-> {"lcse"}],
       [pass |-> "CP",               needs |-> {"cp"}],
       [pass |-> "DCE",              needs |-> {"dce"}],
       [pass |-> "DSE",              needs |-> {"dse"}],
       [pass |-> "VECT",             needs |-> {"FOR_IP", "vect"}],
       [pass |-> "ALGE_REASSOCIATE", needs |-> {"FOR_IP", "reassociate"}],
       [pass |-> "GCSE",             needs |-> {"FOR_IP", "reassociate", "gcse"}],
       [pass |-> "DCE",              needs |-> {"FOR_IP", "reassociate", "dce"}],
       [pass |-> "ALGE_DISTRIBUTIVE", needs |-> {"FOR_IP", "distributive"}],
       [pass |-> "IF_CONVERSION",    needs |-> {"FOR_IP", "if_conversion"}],
       [pass |-> "LOOP_CVT",         needs |-> {"loop_convert"}],
       [pass |-> "LFTR",             needs |-> {"lftr"}] >>

PassTypes == {Schedule[i].pass : i \in DOMAIN Schedule}
Options == UNION {Schedule[i].needs : i \in DOMAIN Schedule}

\* The passes worthToDo looks at.
Counted == {"CP", "LICM", "RP", "GCSE", "DCE"}

MAX_DCE_COUNT == 4
MaxRounds == 20

ASSUME ScalarOptAssumption ==
    /\ OptionSets \subseteq SUBSET Options
    /\ Gains \subseteq PassTypes
    /\ Enables \in [PassTypes -> SUBSET PassTypes]

VARIABLES
    options,  \* the options of this run of the compiler
    opps,     \* the passes that would change the program now
    pc,       \* "begin", "loop", "exit", "done", "skipped" or "failed"
    pos,      \* position in passlist
    rounds,   \* the variable count
    times,    \* cp_count, licm_count, rp_count, gcse_count, dce_count
    change,   \* whether this round has changed the program
    res       \* the value perform will return

vars == <<options, opps, pc, pos, rounds, times, change, res>>

-----------------------------------------------------------------------------
\* Mutants of worthToDo: DCE is gated one round before the last DCE is due;
\* DCE is never gated.
worthToDoEarlyDCE(pass, n) ==
    /\ pass \in {"LICM", "CP"} => ~(n["LICM"] > 1 /\ n["CP"] > 1)
    /\ pass = "RP" => ~(n["RP"] > 1 /\ n["CP"] > 1)
    /\ pass = "CP" => ~(n["GCSE"] > 1 /\ n["CP"] > 1)
    /\ pass = "DCE" => n["DCE"] < MAX_DCE_COUNT
worthToDoDCEUngated(pass, n) ==
    /\ pass \in {"LICM", "CP"} => ~(n["LICM"] > 1 /\ n["CP"] > 1)
    /\ pass = "RP" => ~(n["RP"] > 1 /\ n["CP"] > 1)
    /\ pass = "CP" => ~(n["GCSE"] > 1 /\ n["CP"] > 1)

\* ScalarOpt::worthToDo: passes that undo each other stop after both have
\* changed the program twice, DCE after five times.
worthToDo(pass, n) ==
    /\ pass \in {"LICM", "CP"} => ~(n["LICM"] > 1 /\ n["CP"] > 1)
    /\ pass = "RP" => ~(n["RP"] > 1 /\ n["CP"] > 1)
    /\ pass = "CP" => ~(n["GCSE"] > 1 /\ n["CP"] > 1)
    /\ pass = "DCE" => n["DCE"] <= MAX_DCE_COUNT

\* ScalarOpt::updateCounter.
updateCounter(pass, n) ==
    [p \in Counted |-> IF p = pass THEN n[p] + 1 ELSE n[p]]

\* Whether the option for entry i of the schedule is on.
Scheduled(i) == Schedule[i].needs \subseteq options

\* Pass::perform when it changes the program.
Changes(pass) ==
    /\ pass \in opps
    /\ \E opened \in SUBSET Enables[pass] :
          opps' = (opps \ {pass}) \cup opened

\* isParticipateInOpt: a region may be left out by option.
Begin ==
    /\ pc = "begin"
    /\ pc' \in {"loop", "skipped"}
    /\ UNCHANGED <<options, opps, pos, rounds, times, change, res>>

\* Mutant of Perform: the flag tells of the last pass only.
PerformForgets ==
    /\ pc = "loop" /\ pos <= Len(Schedule)
    /\ LET pass == Schedule[pos].pass
       IN  \/ /\ Scheduled(pos) /\ worthToDo(pass, times) /\ Changes(pass)
              /\ change' = TRUE /\ res' = TRUE
              /\ times' = updateCounter(pass, times)
           \/ /\ ~(Scheduled(pos) /\ worthToDo(pass, times) /\ pass \in opps)
              /\ change' = FALSE
              /\ UNCHANGED <<opps, res, times>>
    /\ pos' = pos + 1
    /\ UNCHANGED <<options, pc, rounds>>

\* One iteration of the inner loop.
Perform ==
    /\ pc = "loop" /\ pos <= Len(Schedule)
    /\ LET pass == Schedule[pos].pass
       IN  \/ /\ Scheduled(pos) /\ worthToDo(pass, times) /\ Changes(pass)
              /\ change' = TRUE /\ res' = TRUE
              /\ times' = updateCounter(pass, times)
           \/ /\ ~(Scheduled(pos) /\ worthToDo(pass, times) /\ pass \in opps)
              /\ UNCHANGED <<opps, change, res, times>>
    /\ pos' = pos + 1
    /\ UNCHANGED <<options, pc, rounds>>

\* `while (change && count < 20)' and the assertion after it.
EndRound ==
    /\ pc = "loop" /\ pos > Len(Schedule)
    /\ rounds' = rounds + 1
    /\ IF change /\ rounds' < MaxRounds
       THEN pos' = 1 /\ change' = FALSE /\ UNCHANGED pc
       ELSE pc' = (IF change THEN "failed" ELSE "exit") /\ UNCHANGED <<pos, change>>
    /\ UNCHANGED <<options, opps, times, res>>

\* DCE runs a last time if the loop has gated it.
LastDCE ==
    /\ pc = "exit"
    /\ IF "dce" \in options /\ times["DCE"] > MAX_DCE_COUNT /\ "DCE" \in opps
       THEN Changes("DCE") /\ res' = TRUE
       ELSE UNCHANGED <<opps, res>>
    /\ pc' = "done"
    /\ UNCHANGED <<options, pos, rounds, times, change>>

Init ==
    /\ options \in OptionSets
    /\ opps \in SUBSET Gains
    /\ pc = "begin"
    /\ pos = 1
    /\ rounds = 0
    /\ times = [p \in Counted |-> 0]
    /\ change = FALSE
    /\ res = FALSE

Next == Begin \/ Perform \/ EndRound \/ LastDCE

\* The pipeline is a sequential function: it runs until it returns.
Spec == Init /\ [][Next]_vars /\ WF_vars(Next)

-----------------------------------------------------------------------------
(* Properties.                                                             *)

TypeOK ==
    /\ options \in SUBSET Options
    /\ opps \in SUBSET PassTypes
    /\ pc \in {"begin", "loop", "exit", "done", "skipped", "failed"}
    /\ pos \in 1..(Len(Schedule) + 1)
    /\ rounds \in 0..MaxRounds
    /\ times \in [Counted -> Nat]
    /\ change \in BOOLEAN
    /\ res \in BOOLEAN

\* Entry i of the schedule has nothing left that is worth doing.
Settled(i) ==
    Scheduled(i) =>
        \/ Schedule[i].pass \notin opps
        \/ ~worthToDo(Schedule[i].pass, times)

\* When the loop ends normally no selected pass, wherever it stands in the
\* list, is left with an opportunity that later passes opened for it, unless
\* worthToDo has gated it (the loop of ScalarOpt::perform).
NothingWorthLeft == pc = "exit" => \A i \in DOMAIN Schedule : Settled(i)

\* When perform returns there is no dead code left that DCE would remove, even
\* if DCE was gated while other passes went on producing dead code: the DCE
\* after the loop (scalar_opt.cpp:241) covers exactly the gated case.
DeadCodeGone == pc = "done" /\ "dce" \in options => "DCE" \notin opps

\* Passes that undo each other do not keep the loop going: it ends by itself
\* before the bound on the rounds, so ASSERT0(!change) holds.
Finishes == <>(pc \in {"done", "skipped"})

-----------------------------------------------------------------------------
(* The inductive invariant behind NothingWorthLeft.                        *)

\* In a round that has not changed anything the passes already visited are
\* settled, and they still are when the loop has ended.
SettledSoFar ==
    /\ pc = "begin" => pos = 1
    /\ pc = "loop" /\ ~change => \A i \in 1..(pos - 1) : Settled(i)
    /\ NothingWorthLeft

RoundsLeft == pc \in {"begin", "loop"} => rounds < MaxRounds

ScalarInv == TypeOK /\ SettledSoFar /\ RoundsLeft /\ DeadCodeGone
=============================================================================
