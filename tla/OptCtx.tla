------------------------------- MODULE OptCtx -------------------------------
(***************************************************************************)
(* The cache of analysis results one Region keeps: the validity bits of   *)
(* OptCtx (opt/optctx.h, opt/optctx.cpp), the validity of the registered  *)
(* pass objects, and the on-demand recomputation driven by                *)
(* PassMgr::checkValidAndRecompute (opt/pass_mgr.cpp).                    *)
(*                                                                         *)
(* The code is single-threaded but re-entrant: recomputing one result     *)
(* asks the pass manager for the results it reads.  `agenda' is the call  *)
(* stack of those nested requests, flattened: its head is the next thing  *)
(* to run, what follows a task is what its callers still have to do.      *)
(*                                                                         *)
(* `stale' is a history variable: the results whose content no longer     *)
(* describes the program.  No guard reads it.                             *)
(***************************************************************************)
EXTENDS Naturals, Sequences, FiniteSets

CONSTANTS
    Requests,     \* lists passed to checkValidAndRecompute by the passes
    IPARequests,  \* lists passed to it by IPA::recomputeDUChain
    Excludes,     \* lists passed to setInvalidIfCFGChangedExcept, as sets
    Edits,        \* which kinds of program change the passes may make
    BBCounts,     \* possible sizes of the BB list: "none", "few", "many"
    ByPRSSA,      \* the option g_compute_pr_du_chain_by_prssa
    DensePRSSA    \* PRSSA is also asked for where the dominance frontier is
                  \* beyond the threshold of DfMgr

\* Results whose validity is a bit of OptCtx::u1.  PRDU and NONPRDU are the
\* two halves of PASS_CLASSIC_DU_CHAIN.
BitResults == {"CFG", "RPO", "DOM", "PDOM", "LOOP_INFO", "AA", "MD_REF",
               "REACH_DEF", "AVAIL_REACH_DEF", "LIVE_EXPR", "PRDU", "NONPRDU"}

\* Results whose validity is Pass::m_is_valid of the registered object.
ObjResults == {"CDG", "SCC", "EXPR_TAB", "GVN", "PRSSA_MGR", "MDSSA_MGR"}

Results == BitResults \cup ObjResults

\* The pass objects that can be registered (PassMgr::m_registered_pass).
Objects == ObjResults \cup {"CFG", "AA", "DU_MGR"}

\* What can be named in a request.
Passes == (Results \ {"PRDU", "NONPRDU"}) \cup {"CLASSIC_DU_CHAIN"}

\* The results that describe the shape of the CFG.
CFGResults == {"RPO", "LOOP_INFO", "DOM", "PDOM", "CDG", "SCC"}

\* Results computed by SolveSetMgr, by name of the request.
Solved == {"REACH_DEF", "AVAIL_REACH_DEF", "LIVE_EXPR"}

EditKinds == {"cfg", "except", "global_refine", "trampoline", "live", "simplify",
              "cp", "licm", "mdref", "mdssa", "dce", "all", "ipa_destroy"}

ASSUME OptCtxAssumption ==
    /\ Requests \subseteq Seq(Passes)
    /\ IPARequests \subseteq Seq(Passes)
    /\ Excludes \subseteq SUBSET CFGResults
    /\ Edits \subseteq EditKinds
    /\ BBCounts \subseteq {"none", "few", "many"}
    /\ ByPRSSA \in BOOLEAN
    /\ DensePRSSA \in BOOLEAN

VARIABLES
    bits,        \* the results whose bit is set in OptCtx::u1
    registered,  \* the objects in PassMgr::m_registered_pass
    okobj,       \* those of them with m_is_valid
    rpolist,     \* CFG::m_rpo_vexlst is not null
    nbb,         \* size class of the BB list
    agenda,      \* the pending tasks of the nested requests
    asked,       \* the outermost request served last, <<>> once edited
    failed,      \* the assertion that stopped the compiler, or "no"
    stale        \* history: results that do not describe the program

cache == <<bits, registered, okobj, rpolist>>
vars == <<bits, registered, okobj, rpolist, nbb, agenda, asked, failed, stale>>

\* A pending task: what to do, for which pass, and the options it carries.
Task(op, p, opts) == [op |-> op, p |-> p, opts |-> opts]
Tasks == [op : {"check", "ensure", "finish", "du", "solve"}, p : Passes,
          opts : SUBSET (Passes \cup Results)]
           \cup [op : {"build"}, p : {"PRSSA_MGR"}, opts : {{}}]
           \cup [op : {"solved"}, p : Passes, opts : SUBSET Solved]

-----------------------------------------------------------------------------
(* Validity, as the code reads and writes it.                              *)

\* OptCtx::isPassValid: the registered object is valid, or the bit is set.
isPassValid(p) ==
    \/ p \in registered \cap okobj
    \/ p \in bits
    \/ p = "CLASSIC_DU_CHAIN" /\ bits \cap {"PRDU", "NONPRDU"} # {}

\* The test by which a consumer decides that it need not recompute p: the bit
\* for the results that have one, isPassValid for the others.
Valid(p) == IF p \in BitResults THEN p \in bits ELSE p \in registered \cap okobj

BitsOf(S) == IF "CLASSIC_DU_CHAIN" \in S THEN S \cup {"PRDU", "NONPRDU"} ELSE S

\* Mutant of setInvalid: the registered objects keep their validity.
setInvalidBitsOnly(S) ==
    /\ bits' = bits \ BitsOf(S)
    /\ rpolist' = (rpolist /\ "RPO" \notin S)
    /\ UNCHANGED <<registered, okobj>>

\* OptCtx::setInvalidPass for every pass of S.  Invalidating RPO also deletes
\* the RPO vertex list of the CFG.
setInvalid(S) ==
    /\ bits' = bits \ BitsOf(S)
    /\ okobj' = okobj \ S
    /\ rpolist' = (rpolist /\ "RPO" \notin S)
    /\ UNCHANGED registered

\* OptCtx::setValidPass / Pass::set_valid for every result of S, each
\* computed by an object in reg.
setValid(S, reg) ==
    /\ bits' = bits \cup (S \cap BitResults)
    /\ okobj' = okobj \cup (S \cap reg)
    /\ registered' = reg

-----------------------------------------------------------------------------
(* What a computation reads.  A result is up to date only if each of the   *)
(* results it was computed from was valid and up to date at that moment.   *)
Inputs == [r \in Results |->
    CASE r \in {"DOM", "PDOM"}      -> {"RPO"}
      [] r = "LOOP_INFO"            -> {"DOM"}
      [] r = "CDG"                  -> {"PDOM"}
      [] r = "AA"                   -> {"LOOP_INFO", "SCC"}
      [] r = "MD_REF"               -> {"AA"}
      [] r \in Solved               -> {"RPO", "MD_REF"}
      [] r \in {"PRDU", "NONPRDU"}  -> {"MD_REF", "REACH_DEF"}
      [] r = "GVN"                  -> {"RPO", "DOM", "MD_REF"}
      [] r = "PRSSA_MGR"            -> {"RPO", "DOM"}
      [] r = "MDSSA_MGR"            -> {"DOM", "MD_REF"}
      [] OTHER                      -> {}]

UpToDate(r) == Valid(r) /\ r \notin stale

Recomputed(S) ==
    stale' = {r \in stale \cup S :
                 r \in S => \E q \in Inputs[r] : ~UpToDate(q)}

-----------------------------------------------------------------------------
(* Requests.                                                               *)

\* checkValidAndRecompute: the option set built from the list; DOM and PDOM
\* are always wanted together.
OptsOf(list) ==
    LET S == {list[i] : i \in DOMAIN list}
    IN  IF S \cap {"DOM", "PDOM"} = {} THEN S ELSE S \cup {"DOM", "PDOM"}

\* checkValidAndRecomputeImpl: the passes of the list, in its order.
Checks(list) == [i \in DOMAIN list |-> Task("check", list[i], OptsOf(list))]

Top(op, p) == agenda # <<>> /\ Head(agenda).op = op /\ Head(agenda).p = p
Replace(tasks) == agenda' = tasks \o Tail(agenda)
Return == agenda' = Tail(agenda)

\* An ASSERT of the code fails: the compiler stops here.
Assertions == {"CFG first", "AA reads a valid CFG object",
               "AA reads LOOP_INFO and SCC", "DUMgr reads AA and CFG",
               "MD_REF reads AA", "PRDU is computed by PRSSA",
               "solver reads MD_REF", "LIVE_EXPR needs a DU flag",
               "DU chain reads MD_REF and REACH_DEF",
               "MDSSA reads MD_REF and DOM",
               "stripped PRs have a version"}
Assert(what) ==
    /\ failed' = what
    /\ agenda' = <<>>
    /\ UNCHANGED <<bits, registered, okobj, rpolist, nbb, asked, stale>>

Quiet == UNCHANGED <<nbb, asked, failed>>
Skip == Return /\ Quiet /\ UNCHANGED <<bits, registered, okobj, rpolist, stale>>

-----------------------------------------------------------------------------
(* PassMgr::checkValidAndRecomputePass, one action per case, and the       *)
(* computations it calls.                                                  *)

\* PASS_CFG: initCFG on a new object, rebuild on an existing one; initCFG
\* leaves an empty BB list alone.
CheckCFG ==
    /\ Top("check", "CFG")
    /\ IF "CFG" \in bits
       THEN Skip
       ELSE /\ Return /\ Quiet
            /\ IF nbb = "none"
               THEN /\ registered' = registered \cup {"CFG"}
                    /\ UNCHANGED <<bits, okobj, rpolist, stale>>
               ELSE /\ setValid({"CFG"}, registered \cup {"CFG"})
                    /\ Recomputed({"CFG"})
                    /\ UNCHANGED rpolist

\* Mutant of CheckRPO: only the bit is looked at.
CheckRPOBitOnly ==
    /\ Top("check", "RPO")
    /\ IF "CFG" \notin bits
       THEN Assert("CFG first")
       ELSE IF "RPO" \in bits \/ nbb = "none"
       THEN Skip
       ELSE /\ Return /\ Quiet
            /\ setValid({"RPO"}, registered)
            /\ rpolist' = TRUE
            /\ Recomputed({"RPO"})

\* PASS_RPO: recompute when the bit is off or the vertex list is gone.
CheckRPO ==
    /\ Top("check", "RPO")
    /\ IF "CFG" \notin bits
       THEN Assert("CFG first")
       ELSE IF (("RPO" \in bits) /\ rpolist) \/ nbb = "none"
       THEN Skip
       ELSE /\ Return /\ Quiet
            /\ setValid({"RPO"}, registered)
            /\ rpolist' = TRUE
            /\ Recomputed({"RPO"})

\* PASS_DOM and PASS_PDOM share a case: both are brought up to date.
CheckDom(p) ==
    /\ Top("check", p)
    /\ Replace(<<Task("ensure", "DOM", {}), Task("ensure", "PDOM", {})>>)
    /\ Quiet /\ UNCHANGED <<bits, registered, okobj, rpolist, stale>>

\* IRCFG::computeDomAndIdom and computePdomAndIpdom, up to their request.
EnsureDom(p) ==
    /\ Top("ensure", p)
    /\ IF p \in bits
       THEN Skip
       ELSE IF "CFG" \notin bits
       THEN Assert("CFG first")
       ELSE IF nbb = "none"
       THEN Skip
       ELSE /\ Replace(Checks(<<"RPO">>) \o <<Task("finish", p, {})>>)
            /\ Quiet /\ UNCHANGED <<bits, registered, okobj, rpolist, stale>>

\* PASS_LOOP_INFO and IRCFG::LoopAnalysis.
CheckLoopInfo ==
    /\ Top("check", "LOOP_INFO")
    /\ IF "LOOP_INFO" \in bits
       THEN Skip
       ELSE IF "CFG" \notin bits
       THEN Assert("CFG first")
       ELSE IF nbb = "none"
       THEN Skip
       ELSE /\ Replace(Checks(<<"DOM">>) \o <<Task("finish", "LOOP_INFO", {})>>)
            /\ Quiet /\ UNCHANGED <<bits, registered, okobj, rpolist, stale>>

\* Mutant of CheckCDG: an object that exists is taken as valid.
CheckCDGExists ==
    /\ Top("check", "CDG")
    /\ IF "CDG" \in registered
       THEN Skip
       ELSE IF "CFG" \notin bits
       THEN Assert("CFG first")
       ELSE /\ registered' = registered \cup {"CDG"}
            /\ IF nbb = "none"
               THEN Return
               ELSE Replace(Checks(<<"PDOM">>) \o <<Task("finish", "CDG", {})>>)
            /\ Quiet /\ UNCHANGED <<bits, okobj, rpolist, stale>>

\* PASS_CDG and CDG::build.
CheckCDG ==
    /\ Top("check", "CDG")
    /\ IF "CDG" \in registered \cap okobj
       THEN Skip
       ELSE IF "CFG" \notin bits
       THEN Assert("CFG first")
       ELSE /\ registered' = registered \cup {"CDG"}
            /\ IF nbb = "none"
               THEN Return
               ELSE Replace(Checks(<<"PDOM">>) \o <<Task("finish", "CDG", {})>>)
            /\ Quiet /\ UNCHANGED <<bits, okobj, rpolist, stale>>

\* PASS_SCC and GSCC::perform.
CheckSCC ==
    /\ Top("check", "SCC")
    /\ IF isPassValid("SCC")
       THEN Skip
       ELSE IF "CFG" \notin bits
       THEN Assert("CFG first")
       ELSE /\ Return /\ Quiet
            /\ setValid({"SCC"}, registered \cup {"SCC"})
            /\ Recomputed({"SCC"})
            /\ UNCHANGED rpolist

\* PASS_EXPR_TAB and ExprTab::perform.
CheckExprTab ==
    /\ Top("check", "EXPR_TAB")
    /\ IF isPassValid("EXPR_TAB") \/ nbb = "none"
       THEN Skip
       ELSE /\ Return /\ Quiet
            /\ setValid({"EXPR_TAB"}, registered \cup {"EXPR_TAB"})
            /\ Recomputed({"EXPR_TAB"})
            /\ UNCHANGED rpolist

\* Mutant of CheckAAandDU: AA forgets to ask for SCC.
CheckAAandDUNoSCC(p) ==
    /\ p \in {"AA", "MD_REF"} \cup Solved
    /\ Top("check", p)
    /\ LET du == <<Task("du", p, Head(agenda).opts)>>
       IN  IF "AA" \notin Head(agenda).opts \/ "AA" \in bits \/ nbb = "none"
           THEN /\ Replace(du)
                /\ Quiet /\ UNCHANGED <<bits, registered, okobj, rpolist, stale>>
           ELSE /\ registered' = registered \cup {"AA"}
                /\ Replace(Checks(<<"LOOP_INFO">>)
                             \o <<Task("finish", "AA", {})>> \o du)
                /\ Quiet /\ UNCHANGED <<bits, okobj, rpolist, stale>>

\* checkAndRecomputeAAandDU: first checkAndRecomputeAA, then the DU part.
\* A flow sensitive analysis also asks for RPO.
CheckAAandDU(p) ==
    /\ p \in {"AA", "MD_REF"} \cup Solved
    /\ Top("check", p)
    /\ LET opts == Head(agenda).opts
           du == <<Task("du", p, opts)>>
       IN  IF "AA" \notin opts \/ "AA" \in bits \/ nbb = "none"
           THEN /\ Replace(du)
                /\ Quiet /\ UNCHANGED <<bits, registered, okobj, rpolist, stale>>
           ELSE IF "CFG" \notin bits
           THEN Assert("CFG first")
           ELSE IF "CFG" \notin okobj
           THEN Assert("AA reads a valid CFG object")
           ELSE /\ registered' = registered \cup {"AA"}
                /\ \E flow \in {<<>>, Checks(<<"RPO">>)} :
                      Replace(Checks(<<"LOOP_INFO", "SCC">>) \o flow
                                \o <<Task("finish", "AA", {})>> \o du)
                /\ Quiet /\ UNCHANGED <<bits, okobj, rpolist, stale>>

\* The solver flags that checkAndRecomputeAAandDU derives from the options.
\* A stale DU chain asks for reach-definitions although nobody listed them.
SolveFlags(opts) ==
    {s \in Solved : s \in opts /\ s \notin bits}
      \cup {s \in {"REACH_DEF"} :
               /\ s \notin bits
               /\ "CLASSIC_DU_CHAIN" \in opts
               /\ ~({"PRDU", "NONPRDU"} \subseteq bits)}

\* The constructor of DUMgr takes the registered AA and CFG.
CanHaveDUMgr == "DU_MGR" \in registered \/ {"AA", "CFG"} \subseteq registered

\* The DU part of checkAndRecomputeAAandDU with DUMgr::perform inlined: MD
\* reference is computed here, the data-flow sets by the next task.
RecomputeDU ==
    /\ agenda # <<>> /\ Head(agenda).op = "du"
    /\ LET opts  == Head(agenda).opts
           ref   == "MD_REF" \in opts /\ "MD_REF" \notin bits
           flags == SolveFlags(opts)
       IN  IF (~ref /\ flags = {}) \/ nbb = "none"
           THEN Skip
           ELSE IF ~CanHaveDUMgr
           THEN Assert("DUMgr reads AA and CFG")
           ELSE IF nbb = "many"
           THEN /\ registered' = registered \cup {"DU_MGR"}
                /\ Return /\ Quiet
                /\ UNCHANGED <<bits, okobj, rpolist, stale>>
           ELSE IF "CFG" \notin bits
           THEN Assert("CFG first")
           ELSE IF ref /\ "AA" \notin bits
           THEN Assert("MD_REF reads AA")
           ELSE IF ByPRSSA /\ "MD_REF" \in opts /\ "REACH_DEF" \in flags
           THEN Assert("PRDU is computed by PRSSA")
           ELSE /\ registered' = registered \cup {"DU_MGR"}
                /\ IF ref
                   THEN /\ bits' = bits \cup {"MD_REF"}
                        /\ Recomputed({"MD_REF"})
                   ELSE UNCHANGED <<bits, stale>>
                /\ Replace(IF flags = {} THEN <<>>
                           ELSE <<Task("solve", Head(agenda).p,
                                       flags \cup (opts \cap {"MD_REF"}))>>)
                /\ Quiet /\ UNCHANGED <<okobj, rpolist>>

\* Mutant of StartSolve: the solver trusts that RPO is there.
StartSolveNoRPO ==
    /\ agenda # <<>> /\ Head(agenda).op = "solve"
    /\ Replace(<<Task("solved", Head(agenda).p, Head(agenda).opts \cap Solved)>>)
    /\ Quiet /\ UNCHANGED <<bits, registered, okobj, rpolist, stale>>

\* SolveSetMgr::perform up to its request for RPO.
StartSolve ==
    /\ agenda # <<>> /\ Head(agenda).op = "solve"
    /\ LET flags == Head(agenda).opts
       IN  IF "MD_REF" \notin bits
           THEN Assert("solver reads MD_REF")
           ELSE IF "LIVE_EXPR" \in flags /\ "MD_REF" \notin flags
           THEN Assert("LIVE_EXPR needs a DU flag")
           ELSE /\ Replace(Checks(<<"RPO">>)
                             \o <<Task("solved", Head(agenda).p,
                                       flags \cap Solved)>>)
                /\ Quiet /\ UNCHANGED <<bits, registered, okobj, rpolist, stale>>

\* Mutant of DUChainPrereqs: the DU chain asks for itself.
DUChainPrereqsItself == <<"RPO", "DOM", "MD_REF", "REACH_DEF", "CLASSIC_DU_CHAIN">>

\* checkAndRecomputeDUChain up to its own nested request.
DUChainPrereqs ==
    (IF "MD_REF" \in bits THEN <<>> ELSE <<"RPO", "DOM", "MD_REF">>)
      \o (IF "REACH_DEF" \in bits THEN <<>>
          ELSE <<"RPO", "DOM", "MD_REF", "REACH_DEF">>)

\* Mutant of CheckDUChain: the request is repeated instead of computed.
CheckDUChainRetry ==
    /\ Top("check", "CLASSIC_DU_CHAIN")
    /\ IF {"PRDU", "NONPRDU"} \subseteq bits \/ nbb = "none"
       THEN Skip
       ELSE IF ~CanHaveDUMgr
       THEN Assert("DUMgr reads AA and CFG")
       ELSE /\ registered' = registered \cup {"DU_MGR"}
            /\ Replace(Checks(DUChainPrereqs) \o <<Head(agenda)>>)
            /\ Quiet /\ UNCHANGED <<bits, okobj, rpolist, stale>>

CheckDUChain ==
    /\ Top("check", "CLASSIC_DU_CHAIN")
    /\ IF {"PRDU", "NONPRDU"} \subseteq bits \/ nbb = "none"
       THEN Skip
       ELSE IF ~CanHaveDUMgr
       THEN Assert("DUMgr reads AA and CFG")
       ELSE /\ registered' = registered \cup {"DU_MGR"}
            /\ Replace(Checks(DUChainPrereqs)
                         \o <<Task("finish", "CLASSIC_DU_CHAIN",
                                   Head(agenda).opts)>>)
            /\ Quiet /\ UNCHANGED <<bits, okobj, rpolist, stale>>

\* Mutants of FinishDUChain: the pass name is stored as a bit; the request's
\* list is not looked at before reach-definitions are dropped.
FinishDUChainAsBit ==
    /\ Top("finish", "CLASSIC_DU_CHAIN")
    /\ bits' = bits \cup {"CLASSIC_DU_CHAIN"}
    /\ Return /\ Quiet /\ UNCHANGED <<registered, okobj, rpolist, stale>>

FinishDUChainDropping ==
    /\ Top("finish", "CLASSIC_DU_CHAIN")
    /\ bits' = (bits \ {"REACH_DEF"}) \cup {"PRDU", "NONPRDU"}
    /\ Return /\ Quiet /\ UNCHANGED <<registered, okobj, rpolist, stale>>

\* DUMgr::computeMDDUChain: reach-definitions are dropped afterwards unless
\* the request lists them.
FinishDUChain ==
    /\ Top("finish", "CLASSIC_DU_CHAIN")
    /\ IF "CFG" \notin bits
       THEN Assert("CFG first")
       ELSE IF ~({"MD_REF", "REACH_DEF"} \subseteq bits)
       THEN Assert("DU chain reads MD_REF and REACH_DEF")
       ELSE /\ IF nbb = "many"
               THEN /\ bits' = bits \ {"REACH_DEF"}
                    /\ UNCHANGED stale
               ELSE /\ bits' = (IF "REACH_DEF" \in Head(agenda).opts
                                THEN bits ELSE bits \ {"REACH_DEF"})
                                 \cup {"PRDU", "NONPRDU"}
                    /\ Recomputed({"PRDU", "NONPRDU"} \ bits)
            /\ Return /\ Quiet /\ UNCHANGED <<registered, okobj, rpolist>>

\* The default case for GVN, PRSSA and MDSSA: perform() unless the object is
\* valid.  GVN gives up unless MD_REF and some DU information is there.
PrereqsOf(p) == IF p = "GVN" THEN <<"RPO", "DOM">> ELSE <<"DOM">>
WorkOf(p) == IF p = "PRSSA_MGR" THEN "build" ELSE "finish"

GVNReady ==
    /\ "MD_REF" \in bits
    /\ "PRDU" \in bits \/ "PRSSA_MGR" \in registered \cap okobj
    /\ "NONPRDU" \in bits \/ "MDSSA_MGR" \in registered \cap okobj

\* PRSSA drops its old versions, and with them the value numbers, first, and
\* looks at the dominance frontier before it asks for more.
CheckPass(p) ==
    /\ p \in {"GVN", "PRSSA_MGR", "MDSSA_MGR"}
    /\ Top("check", p)
    /\ IF p \in registered \cap okobj
       THEN Skip
       ELSE /\ registered' = registered \cup {p}
            /\ okobj' = IF p = "PRSSA_MGR" THEN okobj \ {"GVN"} ELSE okobj
            /\ stale' = IF p = "PRSSA_MGR" THEN stale \cup {"GVN"} ELSE stale
            /\ IF p = "GVN" /\ (nbb = "none" \/ ~GVNReady)
               THEN Return
               ELSE Replace(Checks(PrereqsOf(p)) \o
                            <<Task(WorkOf(p), p, {})>>)
            /\ Quiet /\ UNCHANGED <<bits, rpolist>>

\* PRSSAMgr::constructVPRAndPhi: PHIs are placed where PRs are live.  Liveness
\* is computed for the occasion and destroyed at the end; what it leaves
\* behind is the RPO it asks for.
BuildPRSSA ==
    /\ Top("build", "PRSSA_MGR")
    /\ Replace(Checks(<<"RPO">>) \o <<Task("finish", "PRSSA_MGR", {})>>)
    /\ Quiet /\ UNCHANGED <<bits, registered, okobj, rpolist, stale>>

\* The frontier is too dense and no version is made, but constructByDomTree
\* goes on all the same.  It asserts that a PR has a version and reads it
\* (stripStmtVersion): a failed assertion, and where assertions are off what
\* it reads may be a version the manager has freed.  If it gets to its end
\* the manager is valid, without versions unless the region has no PR, and
\* the classic PR DU chain is kept.
GiveUpPRSSA ==
    /\ DensePRSSA
    /\ Top("build", "PRSSA_MGR")
    /\ \/ Assert("stripped PRs have a version")
       \/ /\ okobj' = okobj \cup {"PRSSA_MGR"}
          /\ \E unversioned \in {{}, {"PRSSA_MGR"}} :
                stale' = (stale \ {"PRSSA_MGR"}) \cup unversioned
          /\ Return /\ Quiet /\ UNCHANGED <<bits, registered, rpolist>>

\* The PHIs are placed, the PRs renamed: the classic PR DU chain ends.
FinishPRSSA ==
    /\ Top("finish", "PRSSA_MGR")
    /\ bits' = bits \ {"PRDU"}
    /\ okobj' = okobj \cup {"PRSSA_MGR"}
    /\ Recomputed({"PRSSA_MGR"})
    /\ Return /\ Quiet /\ UNCHANGED <<registered, rpolist>>

\* The end of a computation whose prerequisites have been asked for.
Finish(p) ==
    /\ Top("finish", p)
    /\ p \in {"DOM", "PDOM", "LOOP_INFO", "CDG", "AA", "GVN"}
    /\ IF p = "AA" /\ ~(Valid("LOOP_INFO") /\ Valid("SCC"))
       THEN Assert("AA reads LOOP_INFO and SCC")
       ELSE /\ setValid({p}, registered)
            /\ Recomputed({p})
            /\ Return /\ Quiet /\ UNCHANGED rpolist

FinishSolve ==
    /\ agenda # <<>> /\ Head(agenda).op = "solved"
    /\ bits' = bits \cup Head(agenda).opts
    /\ Recomputed(Head(agenda).opts)
    /\ Return /\ Quiet /\ UNCHANGED <<registered, okobj, rpolist>>

\* Mutant of FinishMDSSA: the caller forgets what reconstruction invalidates.
FinishMDSSAForgets ==
    /\ Top("finish", "MDSSA_MGR")
    /\ okobj' = okobj \cup {"MDSSA_MGR"}
    /\ stale' = (stale \ {"MDSSA_MGR"}) \cup {"GVN"}
    /\ Return /\ Quiet /\ UNCHANGED <<bits, registered, rpolist>>

\* The construction of MDSSA may give up on a dense frontier and leave the
\* manager invalid.  It has destroyed the old versions by then, which value
\* numbers computed under MDSSA still name; some callers invalidate results
\* (opts) as soon as it returns.
FinishMDSSA ==
    /\ Top("finish", "MDSSA_MGR")
    /\ IF ~({"MD_REF", "DOM"} \subseteq bits)
       THEN Assert("MDSSA reads MD_REF and DOM")
       ELSE /\ \E built \in {{}, {"MDSSA_MGR"}} :
                LET dropped == Head(agenda).opts
                    renamed == IF "NONPRDU" \notin bits THEN {"GVN"} ELSE {}
                IN  /\ bits' = bits \ dropped
                    /\ okobj' = (okobj \cup built) \ dropped
                    /\ stale' = {r \in stale \cup renamed \cup built :
                                   r \in built =>
                                     \E q \in Inputs[r] : ~UpToDate(q)}
            /\ Return /\ Quiet /\ UNCHANGED <<registered, rpolist>>

-----------------------------------------------------------------------------
(* What the passes do between two requests.                                *)

Idle == agenda = <<>> /\ failed = "no"

\* A pass asks for a list of results.  Every pass runs on a CFG that is
\* already there, and the passes that read DU information return before their
\* request unless MD_REF is valid.
CallerReady(list) ==
    \/ list # <<>> /\ list[1] = "CFG"
    \/ "CFG" \in bits /\ ("MD_REF" \in OptsOf(list) => "MD_REF" \in bits)

Request ==
    /\ Idle
    /\ \E list \in Requests :
          /\ CallerReady(list)
          /\ agenda' = Checks(list)
          /\ asked' = list
    /\ UNCHANGED <<bits, registered, okobj, rpolist, nbb, failed, stale>>

\* IPA::recomputeDUChain: registers AA when its bit is off and asks.
IPARequest ==
    /\ Idle
    /\ nbb # "none"
    /\ "AA" \in bits \/ "CFG" \in registered
    /\ registered' = IF "AA" \in bits THEN registered
                     ELSE registered \cup {"AA"}
    /\ \E list \in IPARequests : agenda' = Checks(list) /\ asked' = list
    /\ UNCHANGED <<bits, okobj, rpolist, nbb, failed, stale>>

Edited(kind) ==
    /\ Idle
    /\ kind \in Edits
    /\ asked' = <<>>
    /\ UNCHANGED <<agenda, failed>>

Resize == nbb' \in IF nbb = "none" THEN {"none"} ELSE BBCounts \ {"none"}

\* setInvalidIfCFGChanged after a structural change.
CFGChanged ==
    /\ Edited("cfg")
    /\ "CFG" \in bits
    /\ setInvalid(CFGResults)
    /\ stale' = stale \cup CFGResults
    /\ Resize

\* setInvalidIfCFGChangedExcept: the pass kept the excluded results up to date
\* itself.  With an empty list the function returns at once.
InvalidatedExcept(ex) == IF ex = {} THEN {} ELSE CFGResults \ ex

CFGChangedExcept ==
    /\ Edited("except")
    /\ "CFG" \in bits
    /\ \E ex \in Excludes :
          /\ setInvalid(InvalidatedExcept(ex))
          /\ stale' = stale \cup (CFGResults \ ex)
    /\ Resize

\* GlobalRefine::perform: setInvalidCFG clears the bit only.
GlobalRefined ==
    /\ Edited("global_refine")
    /\ bits' = bits \ (CFGResults \cup {"CFG"})
    /\ okobj' = okobj \ CFGResults
    /\ rpolist' = FALSE
    /\ stale' = stale \cup CFGResults
    /\ UNCHANGED <<registered, nbb>>

\* removeTrampolinEdgeCase2_1 and Case2_2: the edge pred->bb becomes
\* pred->succ.  DOM is maintained when it is valid, at the cost of PDOM; the
\* other results are invalidated only when bb has lost its last predecessor.
\* removeTrampolinEdge made RPO valid first if it had to maintain DOM.
RedirectTrampoline ==
    /\ Edited("trampoline")
    /\ "CFG" \in bits
    /\ "DOM" \in bits => "RPO" \in bits /\ rpolist
    /\ \E unreachable \in BOOLEAN :
          LET maintained == IF "DOM" \in bits THEN {"DOM", "RPO"} ELSE {"RPO"}
          IN  /\ setInvalid(IF unreachable THEN CFGResults
                            ELSE IF "DOM" \in bits THEN {"PDOM"} ELSE {})
              /\ stale' = stale \cup (IF unreachable THEN CFGResults
                                      ELSE CFGResults \ maintained)
    /\ UNCHANGED nbb

\* setInvalidIfDUMgrLiveChanged, after statements were moved or removed.
LiveChanged ==
    /\ Edited("live")
    /\ setInvalid({"EXPR_TAB"} \cup Solved)
    /\ stale' = stale \cup {"EXPR_TAB"} \cup Solved
    /\ UNCHANGED nbb

\* Region::doMDRef and doMDRefAndClassicDU: MD reference is computed without
\* a request, and MDSSA is invalidated since it may have changed.
MDReferenced ==
    /\ Edited("mdref")
    /\ {"CFG", "AA"} \subseteq bits
    /\ nbb = "few"
    /\ bits' = bits \cup {"MD_REF"}
    /\ registered' = registered \cup {"DU_MGR"}
    /\ okobj' = okobj \ {"MDSSA_MGR"}
    /\ Recomputed({"MD_REF"})
    /\ UNCHANGED <<rpolist, nbb>>

\* Region::doMDSSA: an invalid MDSSA is constructed without a request, the
\* value numbers and the classic chain end with it.
DoMDSSA ==
    /\ Idle
    /\ "mdssa" \in Edits
    /\ {"CFG", "MD_REF"} \subseteq bits
    /\ nbb # "none"
    /\ registered' = registered \cup {"MDSSA_MGR"}
    /\ asked' = <<>>
    /\ IF "MDSSA_MGR" \in okobj
       THEN bits' = bits \ {"NONPRDU"} /\ UNCHANGED agenda
       ELSE /\ agenda' = Checks(<<"DOM">>)
                           \o <<Task("finish", "MDSSA_MGR", {"GVN", "NONPRDU"})>>
            /\ UNCHANGED bits
    /\ UNCHANGED <<okobj, rpolist, nbb, failed, stale>>

\* elimImpl of DCE, after a CFG optimization that lost DOM: MDSSA is
\* invalidated and constructed again by a request.
MDSSALost ==
    /\ Idle
    /\ "dce" \in Edits
    /\ {"CFG", "MD_REF"} \subseteq bits
    /\ "DOM" \notin bits
    /\ LET list == <<"MDSSA_MGR", "DOM", "LOOP_INFO", "CDG">>
       IN  agenda' = Checks(list) /\ asked' = list
    /\ setInvalid({"MDSSA_MGR"})
    /\ UNCHANGED <<nbb, failed, stale>>

\* Region::lowerIRTreeToLowestHeight: simplification may split basic blocks,
\* in which case reconstructBBList invalidates the CFG results and the CFG is
\* rebuilt on the spot.
Simplified ==
    /\ Edited("simplify")
    /\ "CFG" \in bits
    /\ \E rebuilt \in BOOLEAN :
          LET gone == (IF rebuilt THEN CFGResults ELSE {})
                        \cup {"AA", "PRDU", "NONPRDU", "REACH_DEF",
                              "AVAIL_REACH_DEF"}
          IN  /\ bits' = bits \ gone
              /\ okobj' = (okobj \ gone) \cup (IF rebuilt THEN {"CFG"} ELSE {})
              /\ rpolist' = (rpolist /\ ~rebuilt)
              /\ stale' = stale \cup gone
    /\ UNCHANGED <<registered, nbb>>

\* CopyProp::perform: MD references were maintained while propagating.
Propagated ==
    /\ Edited("cp")
    /\ "MD_REF" \in bits
    /\ setInvalid({"EXPR_TAB", "AA"})
    /\ stale' = stale \cup {"EXPR_TAB", "AA"}
    /\ UNCHANGED nbb

\* postProcessIfChanged of LICM: the RPO vertex list is deleted although RPO
\* stays valid.  The CFG edits themselves, the preheaders before it and the
\* CFG optimizations after it, are the actions above.
Hoisted ==
    /\ Edited("licm")
    /\ "DOM" \in bits
    /\ \E cfg_changed, duset_changed, use_gvn \in BOOLEAN :
          LET gone == {"EXPR_TAB"} \cup (IF duset_changed THEN Solved ELSE {})
          IN  /\ bits' = bits \ gone
              /\ okobj' = okobj \ (gone \cup IF duset_changed /\ use_gvn
                                             THEN {"GVN"} ELSE {})
              /\ rpolist' = (rpolist /\ ~cfg_changed)
              /\ stale' = stale \cup gone
    /\ UNCHANGED <<registered, nbb>>

\* post_process of Region::process: the SSA managers are destroyed and every
\* flag and every registered pass becomes invalid; the pass manager survives
\* unless g_retain_pass_mgr_for_region is off.
RegionDone ==
    /\ Edited("all")
    /\ bits' = {}
    /\ okobj' = {}
    /\ \E retained \in BOOLEAN :
          /\ registered' =
                IF retained
                THEN registered \ (({"PRSSA_MGR"} \cap okobj) \cup {"MDSSA_MGR"})
                ELSE {}
          /\ rpolist' = (rpolist /\ retained)
    /\ UNCHANGED <<nbb, stale>>

\* IPA::createCallDummyuse destroys the DU manager of a region after its DU
\* chain was recomputed; the bits of its OptCtx stay.
IPADestroyed ==
    /\ Edited("ipa_destroy")
    /\ "DU_MGR" \in registered
    /\ registered' = registered \ {"DU_MGR"}
    /\ UNCHANGED <<bits, okobj, rpolist, nbb, stale>>

-----------------------------------------------------------------------------
Init ==
    /\ bits = {}
    /\ registered = {}
    /\ okobj = {}
    /\ rpolist = FALSE
    /\ nbb \in BBCounts
    /\ agenda = <<>>
    /\ asked = <<>>
    /\ failed = "no"
    /\ stale = {}

Recompute ==
    \/ CheckCFG \/ CheckRPO \/ CheckLoopInfo \/ CheckCDG \/ CheckSCC
    \/ CheckExprTab \/ RecomputeDU \/ StartSolve \/ CheckDUChain
    \/ FinishDUChain \/ FinishSolve
    \/ BuildPRSSA \/ GiveUpPRSSA \/ FinishPRSSA \/ FinishMDSSA
    \/ \E p \in {"DOM", "PDOM"} : CheckDom(p) \/ EnsureDom(p)
    \/ \E p \in Passes : CheckAAandDU(p) \/ CheckPass(p)
    \/ \E p \in Passes : Finish(p)

Edit ==
    \/ CFGChanged \/ CFGChangedExcept \/ GlobalRefined
    \/ RedirectTrampoline \/ LiveChanged \/ Simplified
    \/ MDReferenced \/ DoMDSSA \/ MDSSALost \/ Propagated \/ Hoisted \/ RegionDone \/ IPADestroyed

Next == Recompute \/ Request \/ IPARequest \/ Edit

\* The compiler is sequential: a request that has started keeps running.
Spec == Init /\ [][Next]_vars /\ WF_vars(Recompute)

-----------------------------------------------------------------------------
(* Properties.                                                             *)

\* Every variable keeps its type: the agenda holds only tasks of the call
\* stack, and the bits of OptCtx::u1 only name results that have a bit.
TypeOK ==
    /\ bits \subseteq BitResults
    /\ registered \subseteq Objects
    /\ okobj \subseteq Objects
    /\ rpolist \in BOOLEAN
    /\ nbb \in {"none", "few", "many"}
    /\ agenda \in Seq(Tasks)
    /\ asked \in Seq(Passes)
    /\ failed \in Assertions \cup {"no"}
    /\ stale \subseteq Results

\* A result that a consumer would take as valid describes the program as it
\* is now: no edit, however it is followed by partial invalidation, nested
\* recomputation and other edits, leaves a stale result behind a set bit or a
\* valid pass object (OptCtx::setInvalidPass and its callers), and no computation
\* marks a result valid that it has not made ("Set to true if PR ssa is
\* constructed.", PRSSAMgr::clean).
ValidNotStale == \A r \in Results : Valid(r) => r \notin stale

\* When a computation starts its real work, every result it reads has been
\* made valid by the requests before it and nothing those requests did has
\* dropped it again; a result read off the RPO vertex list also finds the list
\* allocated (the callees of checkValidAndRecomputePass).
InputsReady ==
    agenda # <<>> /\ Head(agenda).op \in {"build", "finish", "solved"} =>
        LET t    == Head(agenda)
            made == IF t.op = "solved" THEN t.opts ELSE {t.p}
        IN  t.p \notin {"CLASSIC_DU_CHAIN", "MDSSA_MGR"} =>
              \A r \in made : \A q \in Inputs[r] :
                 \/ t.op = "build" /\ q = "RPO"   \* not asked for yet
                 \/ Valid(q) /\ (q = "RPO" => rpolist)

\* Re-entrancy is bounded: no computation that has asked for its inputs is
\* asked for again before it ends, directly or through the requests of the
\* computations it waits for.
NoSelfDependence ==
    \A i, j \in DOMAIN agenda :
        i # j /\ {agenda[i].op, agenda[j].op} \subseteq {"build", "finish"}
            => agenda[i].p # agenda[j].p

\* What a caller may rely on when checkValidAndRecompute returns: every result
\* it listed is valid, whatever the later entries of the list recomputed or
\* dropped.  GVN needs DU information to start from; SSA construction and a
\* graph beyond the threshold of DUMgr may decline.
RequestDelivers ==
    agenda = <<>> /\ failed = "no" /\ nbb = "few" =>
        \A i \in DOMAIN asked :
            \/ asked[i] \in {"PRSSA_MGR", "MDSSA_MGR", "CLASSIC_DU_CHAIN"}
            \/ asked[i] = "GVN" /\ ~GVNReady
            \/ Valid(asked[i])

\* No sequence of edits and requests the passes make runs into an assertion
\* of the recomputation code.
NoAssertFails == failed = "no"

\* DUMgr::perform: "First of all, only CFG is needed", and it is there.
CFGIsThere == failed # "CFG first"

\* Every request of a pass returns: nested recomputation ends.
RequestReturns == (agenda # <<>>) ~> (agenda = <<>>)

-----------------------------------------------------------------------------
(* The inductive invariant behind ValidNotStale.                           *)

\* The results a pending task relies on without asserting them when it runs.
Wanted(t) ==
    IF t.op = "finish" /\ t.p \in {"DOM", "PDOM", "LOOP_INFO", "CDG", "GVN",
                                   "PRSSA_MGR"}
    THEN Inputs[t.p]
    ELSE IF t.op = "solved" THEN {"RPO", "MD_REF"}
    ELSE IF t.op = "build" THEN {"DOM"} ELSE {}

\* The tasks after which RPO, DOM or PDOM is up to date.
Provides(t, q) ==
    \/ t.op = "check" /\ t.p = q /\ q = "RPO"
    \/ t.op = "check" /\ t.p \in {"DOM", "PDOM"} /\ q \in {"DOM", "PDOM"}
    \/ t.op \in {"ensure", "finish"} /\ t.p = q /\ q \in {"DOM", "PDOM"}

\* Everything a pending task relies on is up to date already, or a task that
\* runs before it brings it up to date.
PromisesKept ==
    \A i \in DOMAIN agenda : \A q \in Wanted(agenda[i]) :
        UpToDate(q) \/ \E j \in 1..(i - 1) : Provides(agenda[j], q)

\* The tasks that construct SSA: the manager is registered, and the
\* construction of MDSSA is followed by the invalidation of GVN.
SSATask(t, reg) ==
    /\ t.op = "check" => t.p # "MDSSA_MGR"
    /\ t.op \in {"build", "finish"} /\ t.p \in {"PRSSA_MGR", "MDSSA_MGR"} =>
          t.p \in reg /\ t.opts \subseteq {"GVN", "NONPRDU"}
    /\ t.op = "finish" /\ t.p = "MDSSA_MGR" => "GVN" \in t.opts
SSATasks == \A i \in DOMAIN agenda : SSATask(agenda[i], registered)

\* Only registered objects are valid, and a valid CFG has basic blocks.
ObjectsRegistered == okobj \cap ObjResults \subseteq registered
CFGHasBB == "CFG" \in bits => nbb # "none"

\* The exceptions: edits and lists after which a valid result may be stale,
\* and the graphs on which PRSSA gives up.
CleanUse ==
    /\ ~DensePRSSA
    /\ Edits \cap {"trampoline", "dce"} = {}
    /\ {} \notin Excludes
    /\ \A list \in Requests \cup IPARequests :
          \A i \in DOMAIN list : list[i] # "MDSSA_MGR"

\* The lists of the repository that ask for value numbers name otherwise only
\* results of the CFG (BCP, CP, GCSE, IVR, LICM, RCE, loop dependence,
\* vectorization).
GVNWithCFGOnly ==
    \A list \in Requests \cup IPARequests :
        (\E i \in DOMAIN list : list[i] = "GVN") =>
            \A i \in DOMAIN list : list[i] \in CFGResults \cup {"CFG", "EXPR_TAB", "GVN"}

\* What the passes of a region ask for: the CFG by itself, DU information and
\* MDSSA only where MD references are, no DU chain, and no reach-definitions
\* where PRSSA stands for the DU chain of PRs.  IPA keeps none of this.
OwnRequests ==
    /\ IPARequests = {} /\ "ipa_destroy" \notin Edits
    /\ \A list \in Requests : LET S == {list[i] : i \in DOMAIN list} IN
          /\ list # <<>> /\ list[1] = "CFG" => Len(list) = 1
          /\ "CLASSIC_DU_CHAIN" \notin S
          /\ S \cap (Solved \cup {"MDSSA_MGR"}) # {} => "MD_REF" \in S
          /\ "REACH_DEF" \in S => ~ByPRSSA

\* Every pending computation finds what it relies on up to date when its turn
\* comes, although other computations run and invalidate results in between
\* (the nested requests of PassMgr::checkValidAndRecomputePass).
CacheInv == /\ TypeOK
            /\ ValidNotStale
            /\ PromisesKept
            /\ SSATasks
            /\ ObjectsRegistered
            /\ CFGHasBB
=============================================================================
