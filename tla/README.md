# A TLA+ verification project for xoc

xoc is an infrastructure for optimizing compilers: a program is a tree of
*regions*; each region is lowered to basic blocks and rewritten by *passes*
that rely on *analyses*. Everything runs in one thread. What makes it hard is
not concurrency but *cached results*: analyses are computed on demand, kept,
invalidated piecemeal by dozens of passes, and recomputed by requests that
call each other. A unit test runs one pass on one program; the interesting
states are reached by long sequences of edits and requests.

This directory holds TLA+ models translated from the code, the TLC instances
that check them, and theorems TLAPS proves about them.

## 1. Inventory

| part | state it keeps | operations | who it talks to | hard behaviour |
|---|---|---|---|---|
| `OptCtx` (opt/optctx) | one bit per analysis (`u1`) | set/clear a bit, `isPassValid`, groups of invalidations for a kind of edit | reads and writes the validity of registered pass objects | validity lives in two places; a partial invalidation must name every dependent result |
| `PassMgr` (opt/pass_mgr) | registered pass objects | `registerPass`, `checkValidAndRecompute`, destroy | calls the `perform` of an analysis, which calls `PassMgr` again | re-entrant requests; a list is served in order and its entries may undo each other |
| `ScalarOpt` (opt/scalar_opt) | pass list, counters of changes | one loop of rounds | `perform` of every scalar pass | passes that undo each other, termination |
| `Region` process (opt/ir_middle_opt, ir_high_opt, region) | the IR, the BB list | simplify, build CFG, AA, DU, SSA, optimize, post-process | drives everything | validity at the end of a region, and after it |
| `IPA` (opt/ipa) | none of its own | recompute DU chains of finished regions | `PassMgr` and `OptCtx` of other regions | requests on regions whose flags are off and whose passes are destroyed |
| CFG (opt/ir_cfg, optcfg, cfg.h) | graph, BB list, labels, RPO list | add/remove edge and block, `refineCFG` and `performMiscOpt` | DOM, MDSSA and RPO are maintained on the fly | text, statements and edges are changed by hand; maintained versus invalidated results; fixpoints with a bound |
| RPO (com/rpo) | numbers and used numbers | renumber, squeeze in a number | CFG | the interval between two numbers runs out |
| graphs (com/sgraph, domtree, scc) | vertices, edges, dominator sets | dominators, components, removal | CFG, CDG | fixpoints, unreachable vertices |
| DU analysis (opt/ir_du, solve_set) | MD references, data-flow sets, DU chains | `perform`, `computeMDDUChain`, solvers | AA, CFG | results dropped after use, gives up on large graphs |
| AA (opt/ir_aa) | points-to sets | `perform` | LOOP_INFO, SCC, RPO | fixpoint |
| PRSSA, MDSSA (opt/ir_ssa, ir_mdssa) | versions, PHI | construction, destruction, maintenance | DOM, MD_REF, liveness; ends the classic chains | may give up, and PRSSA is marked valid all the same; old versions are named by value numbers |
| DCE (opt/ir_dce) | marks on statements and blocks | mark, propagate, remove, optimize the CFG, again | DU, CDG, CFG | one dependence too few changes the program; the CFG optimizations rewrite what the next round marks |
| CP, LICM, RP, GCSE, RCE, GVN, ... | worklists | `perform` | all of the above | worklist termination; what they invalidate |
| liveness (opt/liveness_mgr) | live-in/out sets | fixpoint over the RPO list, elimination of redundant liveness | RPO; read by PRSSA | iteration bound; a second data flow takes back what the first has found |
| loops (opt/loop) | loop tree | insert a loop, grow it, insert it again | CFG, DOM | bodies are compared while they may still grow |
| register allocation | lifetimes, positions | only partly in this repository | liveness | |
| memory pool (com/smempool) | chunk lists | allocate, grow, delete | everyone | chunks are moved around in the middle of a search |
| containers (com) | segments, lists | iterate, recycle | everyone | empty segments |
| log/action manager, numeric library, ELF/DWARF, readers | | | | I/O, parsing and arithmetic |

What makes each part correct: a valid analysis describes the present program
(`OptCtx`); a request delivers and ends (`PassMgr`); the pipeline ends and
leaves nothing undone that it means to do (`ScalarOpt`); numbering agrees with
the edges and stays unique (RPO); a fixpoint is the least solution of its
equations (DU, liveness, dominators); a read of a register sees the definition
that reaches it (PRSSA); the edges say what the statements do (CFG); removal
keeps the statements with an effect and what they depend on (DCE); a block of
memory is handed out once (pool).

The hazards, each at its line, are listed in `PROJECT.json` with the properties
that watch them; most are of one family: *a result that was true when it was
checked and is not when it is used*.

## 2. Modules and plan

| module | what it is | on top of |
|---|---|---|
| `OptCtx` | the analysis cache and the requests that fill it | |
| `AnalysisCache`, `OptCtxCache` | the abstract promise, and the mapping that shows `OptCtx` keeps it | `OptCtx` |
| `ScalarOpt` | the round loop of the scalar pipeline | |
| `RPO`, `Dominators` | numbers that survive edits, and dominators computed from them | `Dominators` extends `RPO` |
| `CFGOpt` | the CFG optimizations and the two loops that drive them | |
| `DCE` | dead code elimination, composed with `CFGOpt` | `CFGOpt` |
| `LoopTree` | the construction of the loop tree, a pure algorithm | the graphs of `CFGOpt` |
| `Liveness` | liveness of PRs and its reduction | |
| `PRSSA` | SSA construction and refinement, composed with `Liveness` | `Liveness` |
| `MemPool` | the memory pool | |

`MC...` modules hold the values of the constants for TLC; `...Proofs` modules
hold theorems: `OptCtxProofs`, `OptCtxCacheProofs` (on top of it),
`ScalarOptProofs`, `RPOProofs`, `DCEProofs`, `SSAProofs` (liveness, types,
dominance, placement), `PRSSAProofs` (versions, on top of it), `MemPoolProofs`.

`CFGOpt` and `OptCtx` describe the CFG optimizer from two sides: `CFGOpt` has
its code and the validity flags it touches on one program, `OptCtx` what such
an edit does to every cached result. `RPO` has the edits that keep the
numbering, `CFGOpt` those that rewrite the text.

Left to do, in this order:

1. Proofs: under which bounds and for which programs `Settles` holds, the hypothesis
   of `ControlDepsAreBlocks` (it does not for all: section 6); `Dominators` without
   recursive operators, so that `IdomsRightUnlessRedirected` can be proved.
2. `PRSSA`: construction over an SSA region (bbset, prset) and the incremental
   repair of `InsertDefRecur`.
3. `Dominators`: the dominators that edits maintain on the fly
   (`addDomInfoToNewIDom`, `changeDomInfoByAddBypassEdge`), post-dominators.
4. `PassLife`: creation, replacement and destruction of pass objects and the
   pointers other passes hold (opt/pass_mgr, ipa, region).
5. `SBitSet`: recycling of segments (com).

## 3. `OptCtx`: the analysis cache

### Correspondence

| TLA+ | code |
|---|---|
| `bits` | the bits of `OptCtx::u1`; `PRDU` and `NONPRDU` are the two halves of the classic DU chain |
| `registered`, `okobj` | `PassMgr::m_registered_pass`; `Pass::m_is_valid` of those objects |
| `rpolist` | `CFG::m_rpo_vexlst` is not null |
| `nbb` | the BB list is empty, below, or above `g_thres_opt_bb_num` |
| `agenda` | the call stack of nested requests, flattened: each task is a call still to be made or a computation to be finished |
| `asked` | the list of the last outermost request |
| `failed` | the assertion that stopped the compiler |
| `stale` | history: results whose content is not that of the present program; no guard reads it |

A request (`checkValidAndRecompute`) puts one `check` task per pass on the
agenda. A `check` takes the case of `checkValidAndRecomputePass` for its pass:
it returns if the result is valid, fails if an assertion does, computes at once,
or replaces itself by the requests its computation makes followed by a `finish`
task. So between asking for its inputs and reading them a computation is
exposed to everything the nested requests do, as in the code. Edits happen only
between requests: each edit action is the effect of one pass, or one function
of a pass, on the cache (`CFGChanged`, `CFGChangedExcept`, `GlobalRefined`,
`RedirectTrampoline`, `LiveChanged`, `Simplified`, `Propagated`, `Hoisted`,
`MDReferenced`, `DoMDSSA`, `MDSSALost`, `RegionDone`, `IPADestroyed`). Which
edits, request lists and exclusion lists occur are constants; the instances
give them the lists of the call sites in the repository.

`Inputs` says what a computation reads. When a result is recomputed it becomes
fresh only if every input was valid and fresh then (`Recomputed`): a result
computed from a stale one is stale.

AA asks for RPO only when it is flow sensitive: a choice. So is that SSA
construction gives up, on a graph whose dominance frontier is too dense, and
the two managers differ there:

* MDSSA (`FinishMDSSA`) has destroyed its old versions and stays invalid;
* PRSSA looks at the frontier when DOM is there (`BuildPRSSA`). If it goes on it
  asks for PR liveness, which asks for RPO, and destroys it at the end: what a
  request leaves behind is RPO. (`FinishPRSSA` ends the classic PR DU chain.) If
  it gives up (`GiveUpPRSSA`) the rest of `constructByDomTree` runs all the same: it
  asserts that PRs have versions, reads them, and at its end marks the
  manager valid; the PR DU chain is kept. Whether the assertion stops the
  compiler, and whether the region has PRs at all, are choices. `DensePRSSA`
  says whether PRSSA is asked for on such graphs.

Not in this module: the flags of register allocation (only invalidated here),
PR liveness as a result of its own (it exists only while PRSSA is
constructed, but for back ends that are not in the repository), and the content
of every analysis.

### Runs

| run | question | bounds |
|---|---|---|
| `passes` | CFG analyses, AA, MD reference, PRSSA, MDSSA and GVN under structural edits, exclusion lists, simplification, LICM, copy propagation | ten request lists, five exclusion lists, nine edits, empty and non-empty BB lists, graphs on which PRSSA does not give up; 979,979 states |
| `ipa` | the classic DU chain and reach-definitions as IPA asks for them, after every kind of edit and the end of the region, with the DU manager destroyed and graphs beyond the threshold, PR DU chains not computed by PRSSA, which is asked for as well and may give up (`DensePRSSA`) | 259,529 states |
| `giveup`, `ipa_first` | findings, below | |

The bounds are complete in this sense: every variable but `agenda` ranges over
all subsets the code can reach, there is no bound on the number of edits and
requests, and `agenda` is finite by itself because nesting is (which
`NoSelfDependence` says). What is bounded is the collection of lists and edits
of one instance; the theorems lift it. Deadlock is not checked because a failed
assertion stops the compiler.

Properties: `ValidNotStale` (nothing stale behind a valid flag), `InputsReady`
(a computation finds its inputs valid when it really starts, including an
allocated RPO list), `RequestDelivers` (what was listed is valid on return, for
results that cannot decline), `NoAssertFails`, `NoSelfDependence` (no
computation waits for itself), `RequestReturns`, and `CacheInv`, the inductive
invariant of the first proof, of which `ValidNotStale` is a conjunct. It is not
checked in `ipa`, where valid results do get stale: by a PRSSA that gives up (the
finding `giveup`), by the MDSSA that DCE reconstructs (below) and by the
redirected trampoline edge of section 5. `InputsReady` and `RequestDelivers` hold
there as well: they are about what is valid, and these results are.

### The abstract cache

`AnalysisCache` says in forty lines what the passes of a region are promised,
whatever the mechanism: a result that becomes trusted was computed in that step
from results that were trusted before it (`Founded`), no trusted result is
outdated (`Sound`), and while a request is served the program stands still, so
that serving ages nothing but value numbers, which name versions that SSA
construction renews. `OptCtxCache` maps the code to it: *trusted* is
`isPassValid`, put together from the bits and the objects; *outdated* is the
history `stale`; *serving* is a call stack that is not empty. `KeepsPromise`,
`Promise!Spec` under this mapping, is checked in `passes` and proved as
`CacheRefines`. It says more than `ValidNotStale`: an implementation that sets
the flag of a result before it has brought its inputs up to date keeps that
invariant (as long as the inputs are not stale but only missing) and breaks the
promise.

Fairness: weak fairness of `Recompute` only. The code is sequential, so a
request that has begun is the only thing that runs until it returns; nothing is
assumed about edits or further requests.

### Proofs

`OptCtxProofs`: `TypeCorrect`, `Spec => []TypeOK`, for all constants that
satisfy `OptCtxAssumption` (lists of passes, sets of CFG results, known edits).

`OptCtxCacheProofs`: `Consistent`, `Spec => []ValidNotStale`, for all constants
that also satisfy `CleanUse`: PRSSA is not asked for on graphs on which it gives
up (`~DensePRSSA`), the faulty edits (trampoline edges, MDSSA in DCE) do not
occur, no exclusion list is empty, and no request names MDSSA. The assumption is
as weak as it can be: without each of its parts there is a counterexample, and
for the first the code itself breaks the theorem (`giveup`). The instance `passes`
satisfies it.

In the same module, `CacheRefines`, `Spec => KeepsPromise` under the same
assumption. `Sound` is `Consistent` in every step. For `Founded` each `finish`
needs its inputs valid: `PromisesKept` for the head of the agenda says so,
and for results computed without a task of their own the `check` that
computes them has just tested the flag.

`ValidNotStale` is not inductive: DOM computed while RPO is stale would be
stale, and when a computation finishes nothing in the state says what its
requests achieved. `CacheInv` adds it:

* `PromisesKept`: whatever a pending task will rely on is up to date now, or a
  task that runs before it brings it up to date;
* `SSATasks`: a pending SSA construction belongs to a registered manager, and
  the one of MDSSA carries the invalidation of GVN;
* `ObjectsRegistered`, `CFGHasBB`: only registered objects are valid, and a
  valid CFG has blocks (otherwise RPO and DOM return without a result).

The argument: the tasks pushed by a `check` start with those that provide what
its `finish` wants (lemmas on concatenated agendas); a task in the middle of an
agenda is unaffected by one that runs before it, because computations only add
fresh results and the only ones that drop any (SSA construction, the DU chain)
drop results no pending task wants. Edits are harmless because they happen on
an empty agenda and clear the validity of whatever they make stale.

The other safety properties need no `CleanUse`; their theorems, in
`OptCtxProofs`, cover the faulty edits and the lists of IPA as well. They rest
on `OrderInv`, which looks at the agenda only:

* `Nesting`: the tasks in front of a `finish` are for results of a lower
  `Level` (RPO, CFG, SCC and EXPR_TAB are lowest, then dominators, then loops
  and CDG, then AA and the data-flow sets, then value numbers, SSA and the DU
  chain);
* `Supplied`: what the end of a computation reads is there, or a task in front of
  it supplies it (`Needs`, `Supplies`): the counterpart of `PromisesKept` for
  being there instead of being up to date;
* no pending SSA construction drops more than value numbers and NONPRDU, and
  `CFGHasBB`.

`NoReentry` (`NoSelfDependence`) reads off `Nesting`: two pending computations
have different levels. `InputsAvailable` (`InputsReady`) is `Supplied` for the
head. `OrderInv` is needed because neither property says anything of the tasks
that are not yet at the head. A step replaces the head by tasks that are in
order among themselves (`Follows`), no higher than the head, and shifts the
others; those keep what they wait for, since the head either supplied it
itself, and its replacement does so too, or has made it valid (`WaitStep`,
`DoneStep`).

`RequestsDeliver` (`RequestDelivers`) adds `Owed`: every listed result is there,
may be declined, or a pending task ends with it (`Delivers`). A task of the list
hands its debt to the tasks that replace it. `Fit` says what the tasks in
between may not do: a DU chain that is built while reach-definitions are owed
carries them in its options, so that it keeps them; and while GVN is owed only
results of the CFG are computed, because GVN that has given up for want of DU
information would otherwise owe its result again as soon as that information is
there. The second is the hypothesis `GVNWithCFGOnly`, which every request list
of the repository satisfies. No edit is excluded.

`NoRequestAsserts` (`NoAssertFails`) has the hypothesis `OwnRequests`: the lists
that passes of a region use, every edit but the destruction of the DU manager,
and none of the requests of IPA, which do run into assertions (`ipa_first`). The
other hypothesis is `~DensePRSSA`: a PRSSA that gives up may fail an assertion.
`SafeInv` says of every pending task that it is followed through without an
assertion (`Safe`: the CFG is valid; whoever names data-flow sets names MD
references, and they are there), and of the state that a valid CFG is a valid
object and MD references have a DU manager (`Managed`). What AA and MDSSA
assert about their inputs is `Supplied`.

Only model-checked: `RequestReturns` (liveness is out of the prover's reach).

### Disagreements found

* `giveup`: PRSSA that gives up (opt/ir_ssa.cpp 3892-3894) is marked valid at
  3945, although it has made no version, against what the field promises (1334:
  "Set to true if PR ssa is constructed.") and `ValidNotStale`. The passes that
  find it valid afterwards take PRs without versions for PRs in SSA form.
* `ipa_first`: IPA (opt/ipa.cpp 201-203) asks for MD_REF before CFG on a
  finished region; the assertion at opt/ir_du.cpp 4344 fails.

Seen while reading, without a run of their own: DCE (opt/ir_dce.cpp 1087-1092)
reconstructs MDSSA without the invalidation of GVN that opt/optctx.h 165-172
asks for, so that GVN stays valid while it names versions that are gone
(`MDSSALost`: with this edit `ValidNotStale` is violated); `removeTrampolinEdgeCase2_1` and `Case2_2`
(opt/ir_cfg.cpp 2041-2127) leave LOOP_INFO, CDG and SCC valid unless the block
has become unreachable, while their sibling `Case2_3` states that the change
affects them and invalidates them (the same lines as the finding
`rpo_trampoline`); `setInvalidIfCFGChangedExcept` with an empty
list invalidates nothing (opt/optctx.cpp 232), which no call site does;
`GlobalRefine` clears the CFG bit only, so the CFG object stays valid
(opt/ir_global_refine.cpp 156); the request list MD_REF, CFG, CLASSIC_DU_CHAIN
runs into opt/ir_du.cpp 4364 with the default of
`g_compute_pr_du_chain_by_prssa`, which is why `ipa` turns it off.

## 4. `ScalarOpt`: the pipeline

### Correspondence

`Schedule` is the pass list with the options each entry needs; an entry whose
option is off is passed over. `times` are the five counters, `rounds` the
variable `count`, `change` and `res` the flags of the same name. What passes do
to the program is abstracted to `opps`, the passes that would change it now: a
pass returns true exactly when it is in `opps`, which removes it and may add any
of `Enables[p]`. `Begin` is `isParticipateInOpt`, `Perform` one iteration of the
inner loop, `EndRound` the loop condition with the assertion after it,
`LastDCE` the DCE after the loop. The verification calls between passes are
left out.

### Run

`scalar`: CP, LICM, RP, GCSE and DCE with exactly the counter-effects that the
comments of `worthToDo` name (LICM, RP and GCSE against CP, LICM's trampoline
blocks against DCE), with and without DCE, and with reassociation (the second
GCSE and DCE of the list); every initial set of opportunities and every choice
of what a pass opens; 914,672 states.

* `NothingWorthLeft`: when the loop ends, every selected pass with an
  opportunity is a gated one.
* `DeadCodeGone`: no dead code is left on return.
* `Finishes`: the loop ends by itself, so the assertion after it holds. The
  longest behaviour of this instance takes 9 rounds of the 20 allowed. This
  depends on `Enables`: two ungated passes that enabled each other would reach
  the bound, and the code says by its gates that only these do.

Fairness: weak fairness of `Next`, since a sequential function runs on.

### Proofs

`ScalarOptProofs`: `OnlyGatedLeft` and `NoDeadCode` for all option sets,
programs and `Enables` in which DCE leaves nothing for an immediate second DCE
(`DCEIsComplete`; DCE iterates until nothing is removed). The inductive
invariant `ScalarInv` says that in a round without a change the entries already
visited are settled; at the end of such a round all are. `NoDeadCode` then is
the agreement of two thresholds: an unsettled DCE is gated, hence has changed
the program more than `MAX_DCE_COUNT` times, which is the condition of the last
DCE. `Finishes` is liveness and stays with TLC.

## 5. `RPO` and `Dominators`: numbers that survive edits

The blocks of a CFG are numbered in reverse postorder, ten apart. Most passes
that insert a block squeeze a number for it in between instead of numbering
again, and most that remove one give its number back. Whoever walks the RPO list
or compares two numbers afterwards, as the dominator computation does, relies on
the result. The check that was meant to watch this, `verifyRPOVexList`
(com/rpo.cpp 396), returns before it does anything, because the expected order
is not unique; `DownEdgesCloseLoopsUnlessRedirected` and `ListLeadsTo` say what
is expected of every order.

### Correspondence

| TLA+ | code |
|---|---|
| `vexs`, `edges` | the CFG as a `DGraph`; a block is its vertex |
| `rpo`, `used` | `Vertex::m_rpo`, `RPOMgr::m_used_rpo` |
| `vlst` | `CFG::m_rpo_vexlst` |
| `valid` | PASS_RPO is valid |
| `stk`, `order` | the stack and the list of a running `RPOMgr::computeRPO` |
| `verifying` | it runs inside `DGraph::verifyDom` |
| `debug`, `failed` | assertions are compiled in; one has failed |
| `redirected` | history: some trampoline edge was redirected |

The search is one action per step (`VisitKid`, `LeaveVertex`) and takes the
successors in any order. Every edit is one action: the number is computed from
the graph as it was, then graph, numbers and list change together, as in the
code, where `tryUpdateRPOBeforeCFGChanged` comes first. The order of the block
list and the contents of blocks are left out, so an edit may happen wherever the
graph allows it. `removeTrampolinEdge` includes the removal of the block when
nothing leads to it any more (the next `removeUnreachBB`). What nobody reads
while the numbering is invalid is forgotten (`Forget`).

`verifyDom` is in the model because it is not as innocent as its `const`: it
numbers the vertices of the CFG it verifies, with an `RPOMgr` of its own. After
it the CFG's set of used numbers holds marks no block has, and a debug build
goes on from other numbers than a release build. Nothing breaks by this
(`NumbersUnique` holds), but `UsedIsTaken` is exact in release builds only.

`Dominators` computes immediate dominators as `computeIdom2` does from the list
and the numbers as they are, and compares them with dominance by paths. The
order of the in-edges is a choice, a climb that does not end or meets a vertex
without idom is left where it stands.

### Runs

| run | question | bounds |
|---|---|---|
| `rpo` | five properties, debug and release builds | 164,021 states |
| `rpo_assert` | finding, debug build, interval 10 | |
| `rpo_trampoline` | finding, release build, interval 10 | |

Four vertex ids (`Vertices`), from a branch around a block and a loop: insertions
and removals lead from these to every shape of that size that they can build,
nested and multiple loops included. The interval of `rpo` is 4: with three
numbers in a gap and at most four blocks gaps run out, and ranges straddle a
multiple, after a few edits; with the 10 of the code the same needs more blocks.
There is no bound on the number of edits. `MaxMarks` is a bound: `verifyDom`
runs only with at most one number of a gap in use, which bounds the marks it
leaves. Ids other than the entry are symmetric.

* `NumbersUnique`: under a valid numbering every block has a number of its own.
* `UsedIsTaken`: no number of a gap is given out while a block has it; none
  leaks (release builds).
* `DownEdgesCloseLoopsUnlessRedirected`: an edge that does not go up in the numbers is the back
  edge of a natural loop. Checked as long as no trampoline edge was redirected.
* `ListLeadsTo`: the list holds every block once and each after a predecessor.
* `IdomsRightUnlessRedirected`: `computeIdom2` returns the immediate dominators, whatever was
  edited since the last numbering. Checked as long as no trampoline edge was
  redirected; without that it is the finding.

Only reducible graphs are begun with. In an irreducible one every order has an
edge that goes down without closing a natural loop, so the property would have
to be another one.

### Disagreements found

* `rpo_assert`: a range no longer than the interval can still straddle a
  multiple of it (numbers 0 and 12: range 1..11); the assertion "cross interval"
  (com/rpo.cpp 189) fails. In release builds the number found is usable.
* `rpo_trampoline`: redirecting a trampoline edge leaves PASS_RPO valid
  (opt/ir_cfg.cpp 2070, 2124, 2180). The order no longer agrees with the edges,
  numbers given later follow it, and dominators computed from it are wrong.

Seen while reading, without a run: a new block is listed next to its marker
whatever number it got, so the list need not be ordered by number (r, x, a, b
with x at 15 and a at 10, after a block on the edge r->b), although com/rpo.h
116 speaks of RPO order, and `ListLeadsTo` asks no more than what one walk needs;
a preheader in front of a loop head with a latch behind it finds no
number at all (the maximum over the predecessors includes the latch), so the
numbering is given up each time; in release builds a vertex in front of number 0
would get a negative number.

### Proofs

`RPOProofs`: `NumbersAreUnique` (`Spec => []NumbersUnique`) and `NoNumberLeaks`
(`Spec => []UsedIsTaken`) for every set of vertices, every interval above 1,
every initial graph in which the entry reaches all and has no predecessor, and
every `MaxMarks`. For these two no assumption is made on the search for a free number but that
it returns one `isUsableRPO` accepts or none, so the theorems cover whatever the
range computation does.

The inductive invariant `IInv` has three parts. `NumbersInv`: numbers are
distinct, and those in gaps are marked; a free number is not marked, hence new.
`SearchInv`: the vertices numbered so far have distinct multiples above the next
one, and lead only to what has been visited. `GraphInv`: the entry reaches every
vertex, stated by closed sets. The last is why the proof is about the graph at
all: a search numbers what it reaches, so a vertex has a number at the end only
if every edit has kept the graph connected. Each edit has its lemma for this
(`InFrontOfConnected`, `OnEdgeConnected`, `BypassConnected`,
`RedirectConnected`, `ReachConnected`).

`DownEdgesAreBackEdges` (`DownEdgesCloseLoopsUnlessRedirected`) and `ListHoldsAll`
(`ListLeadsTo`) have one hypothesis more, `ReducibleShapes`: each graph to begin
with has *some* numbers that go up along every edge that does not lead to a
dominator. In an irreducible graph no numbering has the property, so the
hypothesis cannot be dropped; the shapes of the instance satisfy it, which TLC
evaluates (`MCReducibleShapes` in `MCRPO`). What the theorems say is that the
search finds such numbers and that no edit loses them. Neither property is
inductive; `OrderInv` adds:

* `PathInv`: the stack of a running search is a path from the entry, disjoint
  from the list built so far, whose numbers ascend. So a vertex that lies on the
  stack when a finished one leads to it is above it in the search tree, and
  dominates it because the graph is reducible (`StackDominates`);
* `DownInv`: until a trampoline edge is redirected the graph is reducible, whether
  it is numbered or not: edits made without a numbering decide what the next one
  can achieve. Dominance survives each kind of edit (`InFrontDom` and its
  like), and so do the numbers (`InFrontUp`, `OnEdgeUp`, `BypassUp`, `FewerUp`, `JumpUp`).
  The number of a new block lies between those of its neighbours
  (`FoundBetween`, `PriorBetween`, `AfterBetween`): these unfold the range
  computation, which the first two theorems could leave open;
* `ListInv`: the positions in the list are numbers of that kind as well. They must
  be a second set, since the list need not be sorted by `rpo` (above).

That a block of the list stands behind a predecessor follows from this at the
end: in numbers of that kind every block but the entry has a predecessor that
does not close a loop, or the entry would not reach it.

Dominance is stated by closed sets of vertices instead of paths (`Dom`), as
reachability is. `Without`, the removal from a list, is a recursive function; its
values are known by an argument from the least position where a claim fails.

Only model-checked: `IdomsRightUnlessRedirected`; `Dominators` uses recursive
operators.

## 6. `CFGOpt`, `DCE` and `LoopTree`: rewriting a program

Dead code elimination (opt/ir_dce.cpp) marks what has an effect and what that
depends on, removes the rest, lets the CFG optimizer clean up, and starts
again as long as something went. The optimizer (opt/ir_cfg.cpp, opt/optcfg.h)
removes blocks and branches in six ways, each of which changes statements,
labels, the order of the text and the edges by hand, until none changes
anything.

### Correspondence

| TLA+ | code |
|---|---|
| `bbs` | the BB list; a block's number is its place in the text |
| `body`, `term` | the IR list of a block: at most one ordinary statement, then the branch |
| `edges`, `labels`, `exits` | the graph, label lists, the flag `is_exit` |
| `valid`, `rpo` | the flags of `OptCtx` that these functions touch, the numbering computed last |
| `by`, `pc`, `at` | the driver (`initCFG`, `refineCFG`, `performMiscOpt`), the optimization under way, the block it is at |
| `unreach`, `res`, `lchange`, `change`, `count` | `CfgOptCtx::has_generate_unreach_bb` and the flags and the counter of the loops |
| `reach`, `ipdom`, `cdg` | the classic DU chain of the variable, post-dominators, control dependences, as computed last |
| `eff`, `effBB` | the marks of `EffectStmt` |
| `strayed`, `orig` | history: a block has lost a goto that led elsewhere than to the next block; what the program did at first |

An optimization that visits the blocks one after the other is one action per
change it makes, followed by the return of the function to the driver; the
order of the optimizations and the restarts (`goto AGAIN`) are those of the
code. Reaching definitions,
post-dominators and control dependences are computed by their definitions, at
the moment the code asks for them, and kept until it asks again: a stale one is
used stale.

Abstractions: one variable; no PHIs, no MDSSA (DU information is the classic
chain of PRs); the reverse postorder of these modules is by levels. Left out:
exception edges, indirect jumps, dedicated labels.

`removeTrampolinBB` of `refineCFG` (opt/ir_cfg.cpp 1046-1055) is a step of its own
that changes nothing. It would remove a block that only jumps to the next one, if nothing
else leads there, which is the first case of `removeTrampolinEdge`;
`refineCFG` runs that optimization just before and starts over as long as it
changes anything. So no such block is left when the step is reached, its own
restart is never taken, and that is not assumed: `TrampolinesGone` is part
of `Settles` in the run and the theorem `NoTrampolinBBLeft`.

`LoopTree` is the algorithm of `ConstructLoopTree` (opt/loop.h) as operators: a
natural loop for each back edge, in the order of the text (edges of one block
in both orders), loops with the same head grow together, and a loop is inserted
into lists of siblings by comparing bodies, then again when it has grown. It
has no state of its own; what is hard is the graphs it meets, so it is checked
on every graph the optimizations of the run produce.

### Runs

| run | question | bounds |
|---|---|---|
| `dce` | all of the below, under fairness | 8,871 programs of five blocks in four families (branches and loops around observable and unused statements; switches and constant conditions; blocks that only jump, also to themselves; nested loops and loops with several back edges); 402,332 states |
| `dce_goto` | finding | programs in which a goto passes over an empty block |

`RefineBound` is the 20 of the code. `MiscBound` (20 for 1000) and `DCEBound`
(6 for 0xFFFF) are smaller than the code's, which makes `Settles` and
`NothingLeft` stronger: the loops end far earlier than the code allows.

* `EdgesMatchCode`: the edges are where the statements and the order of the text
  lead. `NoDanglingBranch`: no branch leads to a removed or unlabelled block.
* `LoopTreeNests`: the tree built from the graph nests the loops as their final
  bodies do, each loop in one list, with the outer links agreeing.
* `Settles`: `refineCFG` and `performMiscOpt` stop because nothing changed, so
  the assertions after their loops hold, and leave `removeTrampolinBB` nothing to
  do (`TrampolinesGone`). `NothingLeft`: the same for DCE.
* `BehaviourKeptUnlessStrayed`: for each value of the variable the program's
  observable trace is what it was, if it ended. (An endless loop without
  effect may be removed; the code means to.) Two cases are excused by
  `strayed`: the finding, and the block that only jumps (both below).
* `ControlDepsPresent`: marking never walks a control dependence of a block that
  is gone.
* `Terminates`: the pass returns.

Fairness: the pass is one thread that runs until it returns: `WF_vars(Next)`,
written out because no state but the last is without a step. Deadlock is
checked (`Returned` is the last step).

### Proofs

`DCEProofs`: `EdgesAlwaysMatchCode` and `BranchesNeverDangle`, for every number
of blocks, every program and all bounds. The inductive invariant `CodeInv`
relates edges, text and labels: there is an edge exactly where a statement
leads, given the *next* block of the text, and a branch's target is in the text
and has a label. The proofs have one lemma per optimization; the work is in the
next block, which changes for the predecessor in the text when a block goes
(`NextWithout`) and for nobody else (`NextKept`). For the removal of an empty
block, for example, the block before falls into the one after, and that must
be the target of the edge the code adds.

`NoTrampolinBBLeft`: `TrampolinesGone`, for every program and bound. The step is
reached only from a round of `removeTrampolinEdge` that has changed nothing
(`TrampInv`), and a round changes nothing only if no block is passed by.

`ControlDepsAreBlocks`: `ControlDepsPresent`, for every program and bound for which
`Settles` holds throughout (`Spec /\ []Settles => []ControlDepsPresent`). The
assertion that marking relies on (opt/ir_dce.cpp 529) depends on two others: a
driver that stopped at its bound could leave an unreachable block, and the
control dependence graph of a CFG with an unreachable block may name it after
the block has gone. The run `dce` checks that `Settles` holds; it is not proved.
The inductive invariant `DepInv` says how far each analysis may lag behind:

* a driver whose round has changed nothing leaves every block reachable (`Whole`),
  and so is every block from the end of the optimizations to the end of marking;
* PDOM is valid only together with DOM, which goes with the first edge that is
  edited, and its values are blocks;
* CDG, when valid, has only blocks, but for the time between the first block that
  `removeEmptyBB` removes and the end of that optimization; `refineCFG` finds only
  RPO valid.

That the control dependences of blocks are blocks (`CDGOfBlocks`) is a fact about
the closure that computes them, a recursive function on the naturals: every value
is one step after another from the first (`Iterates`).

Only model-checked: `Settles`, `NothingLeft`, `Terminates` (a measure would have
to be found that no optimization increases, and there is none as simple as the
number of statements: `reviseTrampolinBranchEdge` adds none but redirects),
`BehaviourKeptUnlessStrayed` (the behaviour of a program is an execution of any
length) and `LoopTreeNests` (`LoopTree` has recursive operators).

### Disagreements found

* `dce_goto`: a goto to a block without effect is not marked when no sibling has
  an effect either (`find_effect_kid_uncondbr`, opt/ir_dce.cpp 483), and its
  removal lets the block continue into the next one of the text, though the
  comment at 673 says of this case that the goto cannot be removed.

Seen while reading, without a run: a branch over a block that only jumps takes
the jump over (opt/ir_cfg.cpp 3311); a switch that leads to the same block then
falls through. `has_generate_unreach_bb` is never reset inside `refineCFG`, so
after the first unreachable block each round ends early, and a chain of twenty
jump-only blocks would use the 20 rounds up (opt/ir_cfg.cpp 1069).
`markEffectIRForReturn` says "Do NOT set exit-bb to be effect" and passes true
(opt/ir_dce.cpp 315-330). `removeUnreachSingleBB` clears the caller's DOM flag
through an `OptCtx` that was meant to be temporary (opt/optcfg.h 616-621).

## 7. `Liveness` and `PRSSA`: from registers to versions

PHIs are pruned by liveness, so SSA construction is right only if liveness is
never too small; and liveness is made smaller on purpose by a second data flow
that takes back what the entry seems to receive from outside.

### Correspondence

| TLA+ | code |
|---|---|
| `succ`, `code` | the CFG; block b is the b-th of the RPO list; a statement reads PRs, then writes at most one |
| `livein`, `liveout` | `LivenessMgr::m_livein_set`, `m_liveout_set` |
| `at`, `change`, `count` | the sweep of `computeGlobal` over the list, from its tail |
| `redundant`, `newin`, `newout`, `visited`, `differs`, `rounds` | `eliminateRedundantLiveness` and its `AuxLivenessMgr` |
| `dom`, `phi`, `defbbs` | strict dominators, `placePhiForPR` |
| `link` | the use lists of the versions |
| `stack`, `path`, `renamed`, `saved` | the version stacks and the walk of `rename` over the dominator tree |
| `work`, `inList` | the worklist of `refinePhi` |

A version is named by the statement or PHI that defines it; version 0 is the
entry's. Placement and initialisation are atomic, the sweep is one block per
step, renaming one visit or one return per step, refinement one block per step.
`DropEdge` is a branch that loses an edge later
(`removeSuccessorDesignatedPhiOpnd`, then the edge), followed by a refinement.

Abstractions: dominators by definition; the PHI worklist a level at a time; a
round of the elimination visits blocks in any order (the code's order does not
matter, and this shows it); one edge is dropped, and only if everything stays
reachable. Left out: SSA regions, density give-up, stripping of versions to new
PR numbers, incremental repair, target-specific references.

### Run

`ssa`: nine graphs of four blocks (two arms, loops with one and two latches,
nested and irreducible loops, branches over blocks), four shapes of code for x
in each block and three variants for y: 6,912 programs, 380,332 states. The code
of the blocks ranges over everything that matters for one register in a block
(nothing, read, write, read then write); what needs two registers is that one of
them is redundant at the entry while the other is not.

* `SolvedIsLive`: a sweep without a change has found liveness along paths.
* `InsideValuesStayLive`: the elimination takes back no value a block other than
  the entry defines. Values that the entry itself defines can be lost: the code
  starts the second flow with nothing at the entry. PHI placement does not
  notice, because the entry dominates every use.
* `FewSweeps`: at most two sweeps and one for each edge against the list. The
  code stops at 1000 and goes on with what it has. The elimination needs at most
  one round more than there are blocks; there the code stops at 100.
* `ReadsSeeTheirVersion`, `OperandsSeeTheirVersion`: each read, and each operand
  of a live PHI, is linked with exactly the definition that arrives there over
  all paths, after construction and after each refinement.
* `PhisMerge`: construction places no PHI that refinement would remove.
* `GetsBuilt`: construction and each refinement end. It assumes weak fairness of
  `Next` while work is left, as one thread does. Leaving a block searches the
  stack for the dominator's version and would look for ever if it were not
  there.

### Proofs

The theorems cover every number of blocks, every finite set of PRs (`PRAssumption`), every
code, every graph in which the entry has no predecessor and reaches all, and
every list order. `SSAProofs` goes as far as placement, `PRSSAProofs` has
the versions. Most actions need facts of the invariants before them, which each
theorem therefore uses: `IInv`, then types, then placement, then renaming, then
what holds once the form is built.

*Liveness* (`DataFlowIsLiveness`, `EliminationSparesInsideValues`). Liveness along
paths is stated as membership in every set closed under the equations, which
needs no induction over paths. `IInv` says that no block holds more than liveness
(so the sets only grow towards it), that the blocks a quiet sweep has passed
satisfy their equation (so at its end the sets are closed, hence at least
liveness), and in the elimination that a value from inside that a path still
needs is never dropped, whatever the order of visits. A data flow stopped by its
bound is covered too: the two theorems then claim nothing.

*How often* (`SweepsAreFew`). Both data flows for each PR by itself, since no PR
waits for another. `FewInv`: either nothing is left to do for a PR, or each sweep
has found it live behind one more edge against the list, and what the present
sweep has passed follows from those known when it began. `RoundsInv`: either a PR
is settled, or in each round one more block, never the entry, hands it on. The
sets of the elimination only grow (`Grows`), although each visit recomputes its
block, because what a block lets stand depends monotonically on what its
predecessors do.

*Types* (`TypesHold`). `TypeInv` is smaller than `TypeOK` where the type of a step needs
it: links and stacks name definitions and statements the program has. The
sequences the code fills from sets (the first worklist, the versions a block
pushes) are `Ascending`, of which `AscendingIs` says all that is used.

*Placement.* Dominance, too, is stated by closed sets: a dominates b if some set that
holds the entry, but for a itself, and is closed under the edges that do not enter a
leaves b out. `PlaceInv` says of the PHIs
placed so far that each is in the frontier of another definition, and that the
frontier of every definition that is live at its end has all its PHIs, except
for the definitions still to be visited; it needs `InsideLive`, what the
elimination lets stand put in terms of liveness.

*Renaming.* `RenameInv` says what the walk has linked (`LinkInv`): for the blocks it has
entered, exactly the version of the nearest dominator that defines the PR
(`EndSite`). This is inductive only with the stacks: they hold the versions of the
blocks on the way from the entry, one part for each, and what a block has saved
is the end of the part before (`StackOf`). Then popping until the saved version
comes up takes back exactly the block's own part.

*No PHI in vain* (`PhisDoMerge`). A PHI of b is there because of a definition in some x
that has b in its frontier: x dominates a predecessor, but not b. That predecessor
ends with a version of a block c that x dominates, or of x. If the operands named no
other version besides the PHI, each predecessor would be dominated by c, or by b, and
so c would dominate b, and x with it (`PhiMerges`).

*Everybody sees what arrives* (`UsersSeeTheirVersion`). After renaming, dominance has to
agree with paths (`SitesAtEnd` is a definition over paths): where a PR is live, the
nearest dominating definition is the only one that arrives, because a second
one would have put a PHI in between (`EndIsEndSite`, `MergedIsBefore`). From there
on `BuiltInv` carries three statements for each PR: where it is live and
has no PHI, one version arrives (`OneArrives`), and reads and operands are linked
with what arrives (`ReadsAre`, `OperandsAre`). The first is what makes the other two
inductive; dominance is of no use any more, since edges go. A step of the
refinement for one PR is `Gone`: the PHI of b goes and its uses pass to d, its only
operand besides itself; the proof is by what the block had beside the PHI, and
by whether anybody wants its value: a PHI whose value is dead may have any
operands, but from where it arrives nothing live is reached (`DeadGoesNowhere`). A
lost edge is `Cut`: with one way less, a block that one version reached is still
reached by it, for every block is still entered.

The hypothesis of that theorem is that neither data flow was stopped (`~change`,
`~differs`): otherwise PHIs are missing. `ReadsSeeTheirs` and `OperandsSeeTheirs` trade
it for `EnoughRounds`, that the bounds are greater than what `SweepsAreFew`
says may be needed: with the code's 1000 and 100, every region with up
to 997 edges against the list and 99 blocks. (`ConvergeInv`; the instance `ssa`
satisfies it.) Larger regions are covered as long as the loops end by themselves.

Two remarks on form. Facts about definitions over paths are needed of the
state after a step as well; they are collected in `PathFacts`, proved once,
and used primed. And `UNION A \ B` is written with parentheses, because the
two parsers do not agree on what it means without.

Only model-checked: `GetsBuilt`, which is liveness.

Seen while reading: `refinePhi` revisits the blocks of the PHIs that define a
changed PHI's operands, not of its users (opt/ir_ssa.cpp 3155), so a redundant
PHI can stay, which `PhisMerge` therefore does not exclude after an edge was
dropped. A construction that gives up on a dense frontier is marked valid all
the same (opt/ir_ssa.cpp 3892, 3945): section 3 and the run `giveup`. `PRSSA` is
about constructions that do not.

## 8. `MemPool`: chunks that move while they are searched

A pool is a doubly linked list of chunks. A search takes chunks that are full
out of the list, strings them together, and hangs them in again behind the chunk
that serves the request; meanwhile their back links are empty.

### Correspondence

`next`, `prev`, `pool_size`, `start_pos` are the fields of `SMemPool` per chunk,
`grow_size` that of the handler. `cur`, `last`, `full_head`, `tail` are the
local variables `tmp_rest`, the last chunk that stays, the list set aside and
its end. `used` and `block` are the bytes handed out, chunk by chunk. The
statements of the loop of `smpoolMalloc` are steps (`Malloc`, `Fits`, `Stays`,
`SetAside`, `Grow`, `SeekTail`, `Finish`); a request of a const-size pool is
atomic (`FromFirstTwo`, `GrowConst`); `smpoolDelete` frees chunk by chunk.
`WORD_ALIGN` is 1 and the margin 0, as com/smempool.h 48-49 define them. A
const-size pool has one element size for all requests, as at every call site.
Not modelled: pools found by index, statistics, `size_t` overflow.

### Run

`mempool`: pools of 1 or 2 bytes, requests of 1 to 3, grow sizes 0 and 1 (what
plain calls and the pool's operator new pass, com/allocator.h 33), elements of 1
or 2; up to five chunks and 22 bytes; 694,282 states. Five chunks let three be
set aside before the one that serves, with another behind it; bytes count
because a chunk must be able to be partly, exactly and not used.

* `BlocksApart`: no byte is handed out twice or lies outside its chunk.
* `UnlinksCleanly`: the chunk taken out of the list knows its predecessor, as
  `remove_smp` asserts, although the chunks set aside earlier have lost theirs:
  a full chunk in front of it has always been taken out before.
* `FreedOnce`: deletion frees every chunk once: none is lost, no ring is closed.
* `GrowsOnlyWhenFull`: a pool grows only if no chunk has room, though const-size
  pools look at two chunks only.
* `CallsReturn`: under weak fairness of the running call, calls end.

### Proofs

`MemPoolProofs` proves the first four, and `TypeOK`, for every bound, grow size
and element size, with requests of any size: `NoByteTwice`,
`RemoveFindsPredecessor`, `DeleteFreesAllOnce`, `NoRoomLeft`, `PoolTypes`. The
inductive invariant `IInv` has three parts besides the types:

* `ChunksInv`: there is a set of chunks, those set aside, such that the links
  are two lists without a common chunk, the pool's and theirs, that no chunk is
  linked twice, that every chunk is in one of them, and that a back link is
  missing only behind a full chunk (`Lists`). None of the properties is
  inductive without it: that the search finds the predecessor of a full chunk
  depends on how the searches before it have joined the lists. While a search
  runs, the chunks it has passed are a set closed under predecessors without
  room for the request (`Scan`), and at its end the tail is reached from the
  head of the list set aside (`Fin`);
* `FreeInv`: what has been freed is what the deletion has passed;
* `BytesInv` and `KindInv`: bytes handed out lie below the start position, and
  from the third chunk on a const-size pool has no room.

Lists are described by closed sets of chunks (`Closed`, `LeadTo`, `Walk`), not by
paths: that every chunk is in the lists is *a closed set that contains their
heads contains everything*, which a change of two links preserves by an argument
about sets, where a path would call for an induction the provers cannot do. One
lemma per change of links (`SetAsideLists`, `InsertLists`, `HangBehindLists` and so
on) carries the proof; the actions then only have to be matched with them.
`CallsReturn` is liveness and stays with TLC.

Seen while reading: `smpoolFiniPool` links pools by the field that links chunks,
frees the first pool's list and then reads the next link of its second element
(com/smempool.cpp 213). Nothing in the repository uses pools by index.

## 9. What is proved and what is only checked

| theorem | states | strengthening |
|---|---|---|
| `TypeCorrect`, `CacheCorrect`, `Consistent` | no valid result is stale, unless PRSSA gives up | `CacheInv` |
| `NoReentry`, `InputsAvailable` | no computation waits for itself; each finds what it reads | `OrderInv` |
| `RequestsDeliver` | a request leaves what it listed | `DeliverInv` |
| `NoRequestAsserts` | no assertion fails, unless PRSSA gives up | `SafeInv` |
| `CacheRefines` | `OptCtx` implements `AnalysisCache`, unless PRSSA gives up | `CacheInv` |
| `OnlyGatedLeft`, `NoDeadCode` | what the pipeline leaves | `ScalarInv` |
| `NumbersAreUnique`, `NoNumberLeaks` | RPO numbers | `IInv` of `RPOProofs` |
| `DownEdgesAreBackEdges`, `ListHoldsAll` | the numbers and the list are a reverse postorder as far as anybody relies on it | `OrderInv` of `RPOProofs` |
| `EdgesAlwaysMatchCode`, `BranchesNeverDangle` | graph and text agree | `CodeInv` |
| `NoTrampolinBBLeft` | `removeTrampolinBB` finds nothing | `TrampInv` |
| `ControlDepsAreBlocks` | DCE's control dependences are of this graph, if the CFG loops settle | `DepInv` |
| `DataFlowIsLiveness`, `EliminationSparesInsideValues` | liveness is right, and enough is left of it | `IInv` of `SSAProofs` |
| `SweepsAreFew` | neither data flow goes round often | `FewInv`, `RoundsInv` |
| `TypesHold` | types of liveness and SSA construction | `TypeInv` |
| `PhisDoMerge` | construction places no PHI in vain | `PlaceInv`, `RenameInv`, `MergeInv` |
| `UsersSeeTheirVersion`, `ReadsSeeTheirs`, `OperandsSeeTheirs` | every use is linked with what arrives | `PlaceInv`, `RenameInv`, `BuiltInv`, `ConvergeInv` |
| `PoolTypes`, `NoByteTwice`, `RemoveFindsPredecessor`, `DeleteFreesAllOnce`, `NoRoomLeft` | the pool hands out each byte once, loses no chunk and grows only when it must | `IInv` of `MemPoolProofs` |

Each holds for all values of the constants that satisfy the named assumptions of
its modules, which TLC evaluates in the runs, and the hypotheses stated in the
theorem. Liveness properties stay with TLC: fairness is out of the prover's reach.
Five safety properties have no theorem. `IdomsRightUnlessRedirected` and
`LoopTreeNests` are of modules with recursive operators, `BehaviourKeptUnlessStrayed`
speaks of executions of any length: their value is a recursion over data.
`Settles` and `NothingLeft` say that a loop ends before its bound, which is not so
for every program and bound.

## 10. Not modelled

See the component list of `PROJECT.json`. In short: alias analysis and the set
equations over memory (the memory model is too large for TLC to say anything
useful); MDSSA and RegSSA beyond their requests; the rewriting of IR trees by
the other scalar passes (long sequential functions whose only shared state is
the analysis cache, which is modelled); register allocation (mostly outside
this repository); and formats, parsing, dumping, containers and numeric
libraries (no protocol).
