----------------------------- MODULE MCScalarOpt -----------------------------
(* The counter-effects the comments of worthToDo name, in three builds.     *)
EXTENDS ScalarOpt

MCScalar == {"cp", "licm", "rp", "gcse", "dce"}
MCOptionSets ==
    {MCScalar, MCScalar \ {"dce"}, MCScalar \cup {"FOR_IP", "reassociate"}}
MCGains == {"CP", "LICM", "RP", "GCSE", "DCE", "ALGE_REASSOCIATE"}

\* LICM, RP and GCSE each work against CP; LICM inserts the trampoline blocks
\* that DCE removes; reassociation opens common subexpressions.
MCEnables == [p \in PassTypes |->
    CASE p = "CP"   -> {"LICM", "RP", "GCSE"}
      [] p = "LICM" -> {"CP", "DCE"}
      [] p = "RP"   -> {"CP"}
      [] p = "GCSE" -> {"CP"}
      [] p = "DCE"  -> {"LICM"}
      [] p = "ALGE_REASSOCIATE" -> {"GCSE", "DCE"}
      [] OTHER      -> {}]
=============================================================================
