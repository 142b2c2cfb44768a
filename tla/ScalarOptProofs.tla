--------------------------- MODULE ScalarOptProofs ---------------------------
(***************************************************************************)
(* For every selection of options, every program and every way the passes  *)
(* open opportunities for each other: when the loop of ScalarOpt::perform  *)
(* ends, only gated passes are left with work, and no dead code is left.   *)
(***************************************************************************)
EXTENDS ScalarOpt, TLAPS

\* DCE leaves nothing for an immediate second DCE (DeadCodeElim::perform
\* iterates until nothing more is removed).
DCEIsComplete == "DCE" \notin Enables["DCE"]

\* Every entry of the schedule names a pass and its options.
LEMMA ScheduleShape ==
    /\ Len(Schedule) = 20
    /\ DOMAIN Schedule = 1..20
    /\ \A i \in 1..20 : Schedule[i].pass \in PassTypes
<1>1. Len(Schedule) = 20 /\ DOMAIN Schedule = 1..20
  BY DEF Schedule
<1> QED
  BY <1>1 DEF PassTypes

\* DCE is listed, and wherever it is listed it needs its option.
LEMMA ScheduleDCE ==
    /\ Schedule[11].pass = "DCE" /\ Schedule[11].needs = {"dce"}
BY DEF Schedule

\* The counters stay natural numbers.
LEMMA UpdateCounterType ==
    ASSUME NEW n \in [Counted -> Nat], NEW pass
    PROVE  updateCounter(pass, n) \in [Counted -> Nat]
BY DEF updateCounter

\* What a pass opens is again a set of passes.
LEMMA ChangesType ==
    ASSUME NEW pass \in PassTypes, opps \in SUBSET PassTypes, Changes(pass)
    PROVE  opps' \in SUBSET PassTypes
BY ScalarOptAssumption DEF Changes

\* Settledness depends on the program, the options and the counters only.
LEMMA SettledStays ==
    ASSUME NEW i, UNCHANGED <<options, opps, times>>, Settled(i)
    PROVE  Settled(i)'
BY DEF Settled, Scheduled, worthToDo

\* Each step of the pipeline keeps the inductive invariant.
LEMMA ScalarInvStep ==
    ASSUME DCEIsComplete, ScalarInv, [Next]_vars
    PROVE  ScalarInv'
<1> USE DEF ScalarInv
<1>1. CASE Begin
  <2>1. TypeOK' /\ RoundsLeft'
    BY <1>1 DEF Begin, TypeOK, RoundsLeft
  <2>2. SettledSoFar'
    <3>1. pc = "begin" /\ pos = 1 /\ 1..(pos - 1) = {}
      BY <1>1 DEF Begin, SettledSoFar
    <3> QED
      BY <1>1, <3>1 DEF Begin, SettledSoFar, NothingWorthLeft
  <2>3. DeadCodeGone'
    BY <1>1 DEF Begin, DeadCodeGone
  <2> QED
    BY <2>1, <2>2, <2>3
<1>2. CASE Perform
  <2> DEFINE pass == Schedule[pos].pass
             doit == Scheduled(pos) /\ worthToDo(pass, times) /\ pass \in opps
  <2>0. pc = "loop" /\ pos \in 1..20 /\ pass \in PassTypes
    BY <1>2, ScheduleShape DEF Perform, TypeOK
  <2>1. CASE doit
    <3>1. Changes(pass) /\ change' = TRUE /\ res' = TRUE
      BY <1>2, <2>1 DEF Perform
    <3>2. times' \in [Counted -> Nat]
      <4>1. times' = updateCounter(pass, times)
        BY <1>2, <2>1 DEF Perform
      <4> QED
        BY <4>1, UpdateCounterType DEF TypeOK
    <3>3. opps' \in SUBSET PassTypes
      BY <2>0, <3>1, ChangesType DEF TypeOK
    <3>4. pos' \in 1..21 /\ UNCHANGED <<options, pc, rounds>>
      BY <1>2, <2>0 DEF Perform
    <3>5. TypeOK'
      BY <3>1, <3>2, <3>3, <3>4, ScheduleShape DEF TypeOK
    <3> QED
      BY <2>0, <3>1, <3>4, <3>5 DEF SettledSoFar, NothingWorthLeft, RoundsLeft, DeadCodeGone
  <2>2. CASE ~doit
    <3>1. /\ pos' = pos + 1
          /\ UNCHANGED <<options, pc, rounds, opps, change, res, times>>
      BY <1>2, <2>2 DEF Perform, Changes
    <3>2. TypeOK'
      BY <2>0, <3>1, ScheduleShape DEF TypeOK
    <3>3. ASSUME ~change', NEW i \in 1..(pos' - 1)
          PROVE  Settled(i)'
      <4>1. i \in 1..(pos - 1) \/ i = pos
        BY <2>0, <3>1
      <4>2. Settled(i)
        BY <2>0, <2>2, <3>1, <3>3, <4>1 DEF SettledSoFar, Settled
      <4> QED
        BY <3>1, <4>2, SettledStays
    <3> QED
      BY <2>0, <3>1, <3>2, <3>3 DEF SettledSoFar, NothingWorthLeft, RoundsLeft, DeadCodeGone
  <2> QED
    BY <2>1, <2>2
<1>3. CASE EndRound
  <2>0. /\ pc = "loop" /\ pos = 21 /\ rounds' = rounds + 1
        /\ UNCHANGED <<options, opps, times, res>>
    BY <1>3, ScheduleShape DEF EndRound, TypeOK
  <2>R. rounds \in 0..19
    BY <2>0 DEF TypeOK, RoundsLeft, MaxRounds
  <2>1. CASE change /\ rounds' < MaxRounds
    <3>1. pos' = 1 /\ change' = FALSE /\ pc' = pc /\ 1..(pos' - 1) = {}
      BY <1>3, <2>1 DEF EndRound
    <3>2. TypeOK'
      <4>1. rounds' \in 0..MaxRounds
        BY <2>0, <2>R DEF MaxRounds
      <4>2. pos' \in 1..(Len(Schedule) + 1)
        BY <3>1, ScheduleShape
      <4> QED
        BY <2>0, <3>1, <4>1, <4>2 DEF TypeOK
    <3> QED
      BY <2>0, <2>1, <3>1, <3>2 DEF SettledSoFar, NothingWorthLeft, RoundsLeft, DeadCodeGone
  <2>2. CASE ~(change /\ rounds' < MaxRounds)
    <3>1. /\ pc' = IF change THEN "failed" ELSE "exit"
          /\ UNCHANGED <<pos, change>>
      BY <1>3, <2>2 DEF EndRound
    <3>2. rounds' \in 0..MaxRounds
      BY <2>0, <2>R DEF MaxRounds
    <3>3. TypeOK'
      BY <2>0, <3>1, <3>2 DEF TypeOK
    <3>4. ASSUME pc' = "exit", NEW i \in DOMAIN Schedule
          PROVE  Settled(i)'
      <4>1. ~change /\ i \in 1..(pos - 1)
        BY <2>0, <3>1, <3>4, ScheduleShape
      <4>2. Settled(i)
        BY <2>0, <4>1 DEF SettledSoFar
      <4> QED
        BY <2>0, <4>2, SettledStays
    <3> QED
      BY <2>0, <3>1, <3>3, <3>4 DEF SettledSoFar, NothingWorthLeft, RoundsLeft, DeadCodeGone
  <2> QED
    BY <2>1, <2>2
<1>4. CASE LastDCE
  <2> DEFINE again == /\ "dce" \in options
                      /\ times["DCE"] > MAX_DCE_COUNT
                      /\ "DCE" \in opps
  <2>0. /\ pc = "exit" /\ pc' = "done"
        /\ UNCHANGED <<options, pos, rounds, times, change>>
    BY <1>4 DEF LastDCE
  <2>1. CASE again
    <3>1. Changes("DCE") /\ res' = TRUE
      BY <1>4, <2>1 DEF LastDCE
    <3>2. opps' \in SUBSET PassTypes
      BY <3>1, ChangesType, ScheduleShape, ScheduleDCE DEF TypeOK
    <3>3. "DCE" \notin opps'
      BY <3>1 DEF Changes, DCEIsComplete
    <3> QED
      BY <2>0, <3>1, <3>2, <3>3
      DEF TypeOK, SettledSoFar, NothingWorthLeft, RoundsLeft, DeadCodeGone
  <2>2. CASE ~again
    <3>1. UNCHANGED <<opps, res>>
      BY <1>4, <2>2 DEF LastDCE
    <3>2. TypeOK'
      BY <2>0, <3>1 DEF TypeOK
    <3>3. ASSUME "dce" \in options
          PROVE  "DCE" \notin opps
      <4>1. Settled(11) /\ Scheduled(11)
        BY <2>0, <3>3, ScheduleShape, ScheduleDCE
        DEF SettledSoFar, NothingWorthLeft, Scheduled
      <4>2. "DCE" \notin opps \/ ~worthToDo("DCE", times)
        BY <4>1, ScheduleDCE DEF Settled
      <4>3. times["DCE"] <= MAX_DCE_COUNT => worthToDo("DCE", times)
        BY DEF worthToDo
      <4>4. times["DCE"] \in Nat
        BY DEF TypeOK, Counted
      <4> QED
        BY <2>2, <3>3, <4>2, <4>3, <4>4 DEF MAX_DCE_COUNT
    <3> QED
      BY <2>0, <3>1, <3>2, <3>3 DEF SettledSoFar, NothingWorthLeft, RoundsLeft, DeadCodeGone
  <2> QED
    BY <2>1, <2>2
<1>5. CASE UNCHANGED vars
  BY <1>5
  DEF vars, TypeOK, SettledSoFar, NothingWorthLeft, RoundsLeft, DeadCodeGone,
      Settled, Scheduled, worthToDo
<1> QED
  BY <1>1, <1>2, <1>3, <1>4, <1>5 DEF Next

\* The pipeline starts in the invariant.
LEMMA ScalarInvInit == Init => ScalarInv
<1> SUFFICES ASSUME Init PROVE ScalarInv
  OBVIOUS
<1>1. options \in SUBSET Options /\ opps \in SUBSET PassTypes
  BY ScalarOptAssumption DEF Init
<1>2. times \in [Counted -> Nat]
  BY DEF Init
<1>a. pc = "begin" /\ change = FALSE /\ res = FALSE
  BY DEF Init
<1>b. pos \in 1..(Len(Schedule) + 1) /\ rounds \in 0..MaxRounds
  BY ScheduleShape DEF Init, MaxRounds
<1>3. TypeOK
  BY <1>1, <1>2, <1>a, <1>b DEF TypeOK
<1> QED
  BY <1>3 DEF Init, MaxRounds, ScalarInv, SettledSoFar, NothingWorthLeft, RoundsLeft, DeadCodeGone

\* ScalarInv holds throughout.
LEMMA ScalarInvAlways == ASSUME DCEIsComplete PROVE Spec => []ScalarInv
<1>1. Init => ScalarInv
  BY ScalarInvInit
<1>2. ScalarInv /\ [Next]_vars => ScalarInv'
  BY ScalarInvStep
<1> QED
  BY <1>1, <1>2, PTL DEF Spec

\* When the loop of ScalarOpt::perform ends normally, a selected pass that
\* still has an opportunity is one that worthToDo gates.
THEOREM OnlyGatedLeft == ASSUME DCEIsComplete PROVE Spec => []NothingWorthLeft
<1>1. ScalarInv => NothingWorthLeft
  BY DEF ScalarInv, SettledSoFar
<1> QED
  BY <1>1, ScalarInvAlways, PTL

\* When ScalarOpt::perform returns, DCE would find nothing to remove.
THEOREM NoDeadCode == ASSUME DCEIsComplete PROVE Spec => []DeadCodeGone
<1>1. ScalarInv => DeadCodeGone
  BY DEF ScalarInv
<1> QED
  BY <1>1, ScalarInvAlways, PTL
=============================================================================
