---------------------------- MODULE AnalysisCache ----------------------------
(***************************************************************************)
(* What the passes of a region are promised about analysis results,        *)
(* whatever the mechanism that keeps it: a result they trust describes the *)
(* program, it was computed from results that were trusted at the time,    *)
(* and while a request is served the program stands still.                 *)
(***************************************************************************)
CONSTANTS Result,  \* the analysis results
          Inputs,  \* Inputs[r]: the results r is computed from
          Naming   \* results whose entries name versions that others keep

VARIABLES trusted,   \* the results a pass would use without asking
          outdated,  \* the results that do not describe the program
          serving    \* a request is under way

cacheVars == <<trusted, outdated, serving>>

Init == trusted = {} /\ outdated = {} /\ serving = FALSE

\* What becomes trusted was computed in this step, from trusted results.
Founded == \A r \in trusted' \ trusted : Inputs[r] \subseteq trusted

\* Nothing that is trusted is outdated.
Sound == trusted' \cap outdated' = {}

Ask == ~serving /\ serving' /\ UNCHANGED <<trusted, outdated>>

\* A computation may bring results up to date. It ages none, except that one
\* which renews its versions leaves the names in others behind.
Serve == /\ serving
         /\ outdated' \subseteq outdated \cup Naming
         /\ Founded /\ Sound

\* A pass changes the program, which may age any result, and brings up to
\* date what it maintains itself.
Change == /\ ~serving
          /\ outdated' \subseteq Result
          /\ Founded /\ Sound

Next == Ask \/ Serve \/ Change
Spec == Init /\ [][Next]_cacheVars
=============================================================================
