------------------------------ MODULE MCOptCtx ------------------------------
(***************************************************************************)
(* TLC instances of OptCtx.  The request and exclusion lists are those of  *)
(* the call sites in the repository.                                       *)
(***************************************************************************)
EXTENDS OptCtxCache

\* CFG analyses and AA (CDG, DCE, RCE, GCSE, LCSE, PRSSA, Region::doAA).
MCCFGRequests ==
    {<<"CFG">>, <<"CDG">>, <<"LOOP_INFO", "SCC">>, <<"PDOM", "CDG", "RPO">>,
     <<"DOM", "PDOM", "EXPR_TAB">>, <<"DOM", "LOOP_INFO", "AA">>}

\* What the passes that read DU information and value numbers ask for
\* (Region::doAA, Region::doPRSSA, IVR, RCE).
MCDURequests ==
    {<<"CFG">>, <<"DOM", "LOOP_INFO", "AA">>, <<"PRSSA_MGR">>,
     <<"MD_REF", "DOM", "LOOP_INFO", "RPO">>, <<"RPO", "DOM", "GVN">>}

\* Region::doPRSSA on a graph that has just been built.
MCSSARequests == {<<"CFG">>, <<"PRSSA_MGR">>}

\* The DU chain as IPA asks for it, and the lists that lead up to it.
MCIPACallers == {<<"CFG">>, <<"DOM", "LOOP_INFO", "AA">>}
MCIPARegions == MCIPACallers \cup {<<"PRSSA_MGR">>}
MCIPARequests ==
    {<<"CFG", "CLASSIC_DU_CHAIN">>, <<"MD_REF", "CFG", "CLASSIC_DU_CHAIN">>,
     <<"REACH_DEF", "CFG", "CLASSIC_DU_CHAIN">>}
MCDefaultIPA == {<<"MD_REF", "CFG">>}

\* Lists given to setInvalidIfCFGChangedExcept.
MCExcludes ==
    {{"RPO", "DOM", "PDOM"}, {"RPO", "LOOP_INFO", "DOM", "PDOM"},
     {"RPO", "DOM", "LOOP_INFO"}, {"DOM", "RPO"}, {"RPO", "LOOP_INFO"}}
MCNone == {}

MCCFGEdits == {"cfg", "except", "simplify", "licm"}
MCDUEdits == {"cfg", "live", "simplify", "cp", "licm", "mdref", "mdssa"}
MCPassesRequests == MCCFGRequests \cup MCDURequests
MCPassesEdits == MCCFGEdits \cup MCDUEdits
MCIPAEdits == {"cfg", "live", "global_refine", "trampoline", "mdref", "dce",
               "all", "ipa_destroy"}
=============================================================================
