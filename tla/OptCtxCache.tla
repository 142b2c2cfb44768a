----------------------------- MODULE OptCtxCache -----------------------------
(***************************************************************************)
(* OptCtx and PassMgr as an implementation of AnalysisCache: the bits and  *)
(* the registered objects together decide what is trusted, the history     *)
(* variable says what is outdated, and a request is under way as long as   *)
(* the call stack is not empty.                                            *)
(***************************************************************************)
EXTENDS OptCtx

Trusted == {r \in Results : Valid(r)}

Promise == INSTANCE AnalysisCache
             WITH Result <- Results, Inputs <- Inputs, Naming <- {"GVN"},
                  trusted <- Trusted, outdated <- stale, serving <- agenda # <<>>

\* Every step of requests, nested recomputation and edits is a step the
\* abstract cache allows, or one it does not see: no result becomes valid
\* before those it is computed from, none is valid and outdated, and a request
\* ages no result but value numbers (PassMgr::checkValidAndRecompute,
\* OptCtx::setInvalidPass).
KeepsPromise == Promise!Spec
=============================================================================
