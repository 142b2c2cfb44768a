------------------------------- MODULE PRSSA -------------------------------
(***************************************************************************)
(* Construction of SSA form for PRs (opt/ir_ssa.cpp), with the liveness it *)
(* prunes PHIs by: placing PHIs, renaming along the dominator tree with    *)
(* one stack of versions per PR, and the refinement that removes redundant *)
(* PHIs, after the construction and after a branch has lost an edge.       *)
(*                                                                         *)
(* A version is named by its site: <<b, i>> is what statement i of block b *)
(* defines, <<b, 0>> what the PHI of block b defines, and <<Entry, 0>> is  *)
(* version 0, the entry never has a PHI.                                   *)
(***************************************************************************)
EXTENDS Liveness, SequencesExt

CONSTANT DropBound  \* edges the branches lose after the construction

ASSUME DropBoundAssumption == DropBound \in Nat

Site == Block \X Nat
Version0 == <<Entry, 0>>

\* The users of versions: statement i of bb, or, with i = 0, the operand of
\* bb's PHI for the predecessor from.
User == [bb : Block, i : Nat, from : Block]
Reader(b, i) == [bb |-> b, i |-> i, from |-> b]
Operand(b, q) == [bb |-> b, i |-> 0, from |-> q]

VARIABLES
    dom,    \* dom[b]: the blocks that dominate b, as requested
    phi,    \* phi[p]: the blocks that have a PHI for p
    defbbs, \* defbbs[p]: worklist of placePhiForPR
    link,   \* use lists of the versions: [pr, site, user]
    stack,  \* stacks of versions
    path,   \* the way from the root to the block the walk is at
    renamed,\* the blocks handleBBRename has been called for
    saved,  \* saved[b][p]: the top of p's stack when b was met
    work,   \* worklist of refinePhi
    inList, \* the blocks it believes to be on it
    drops   \* edges dropped so far

ssaVars == <<dom, phi, defbbs, link, stack, path, renamed, saved, work, inList,
             drops>>
vars == <<liveVars, ssaVars>>
-----------------------------------------------------------------------------
(* Strict dominance, by its definition: what the request for PASS_DOM      *)
(* delivers (computeDom2: "set does NOT include node itself").             *)
Without(a) == {b \in Block : \A S \in SUBSET (Block \ {a}) :
                  /\ Entry # a => Entry \in S
                  /\ \A c \in S : succ[c] \ {a} \subseteq S
                  => b \in S}
Doms(b) == {a \in Block \ {b} : b \notin Without(a)}

Idom(b) == CHOOSE a \in dom[b] : dom[b] \ {a} \subseteq dom[a]
Kids(a) == {b \in Block \ {Entry} : Idom(b) = a}

\* Mutant of DF: every predecessor counts.
DFOfAll(a) == {v \in Block : \E q \in Preds(v) : a = q \/ (a \in dom[q] /\ a \notin dom[v])}

\* DfMgr::build: v is in the frontier of a predecessor that is not its
\* immediate dominator, and of what dominates a predecessor but not v.
DF(a) == {v \in Block : \E q \in Preds(v) :
            \/ a = q /\ (q = v \/ Idom(v) # q)
            \/ a \in dom[q] /\ a \notin dom[v]}

Writes(p, b) == {i \in DOMAIN code[b] : p \in code[b][i].writes}
DefBBs(p) == {b \in Block : Writes(p, b) # {}}
\* The PRs which have a definition, initMapInfo's set.
Versioned == {p \in PR : DefBBs(p) # {}}
\* What a block defines, in the order in which it is renamed.
SitesIn(p, b) == {i \in Writes(p, b) \cup {0} : i = 0 => b \in phi[p]}
Top(s) == IF s = <<>> THEN Version0 ELSE Last(s)
-----------------------------------------------------------------------------
SSAInit ==
    /\ LiveInit
    /\ dom = [b \in Block |-> {}]
    /\ phi = [p \in PR |-> {}] /\ defbbs = [p \in PR |-> {}] /\ link = {}
    /\ stack = [p \in PR |-> <<>>] /\ path = <<>> /\ renamed = {}
    /\ saved = [b \in Block |-> [p \in PR |-> Version0]]
    /\ work = <<>> /\ inList = {} /\ drops = 0

\* construction requests PASS_DOM; collectPRAndInitVPRForBB: every definition
\* starts a worklist.
InitMapInfo ==
    /\ pc = "live"
    /\ dom' = [b \in Block |-> Doms(b)]
    /\ pc' = "place"
    /\ defbbs' = [p \in PR |-> DefBBs(p)]
    /\ UNCHANGED <<program, solving, fading, phi, link, stack, path, renamed,
                   saved, work, inList, drops>>

\* The blocks on the lists of placePhiForPR are handled together, those that
\* get a PHI are the next lists. A definition that is not live out counts for
\* nothing (isLiveOut): the construction is pruned.
Placed(p) == (UNION {DF(b) : b \in {d \in defbbs[p] : p \in liveout[d]}}) \ phi[p]

PlacePhi ==
    /\ pc = "place" /\ \E p \in PR : defbbs[p] # {}
    /\ phi' = [p \in PR |-> phi[p] \cup Placed(p)]
    /\ defbbs' = [p \in PR |-> Placed(p)]
    /\ UNCHANGED <<liveVars, dom, link, stack, path, renamed, saved, work,
                   inList, drops>>

\* Mutant of InitVPRStack: no version 0 at the bottom of the stacks.
InitVPRStackEmpty ==
    /\ pc = "place" /\ \A p \in PR : defbbs[p] = {}
    /\ pc' = "rename"
    /\ UNCHANGED <<program, solving, fading, dom, phi, defbbs, link, stack, path,
                   renamed, saved, work, inList, drops>>

\* initVPRStack; the walk along the dominator tree starts at the root.
InitVPRStack ==
    /\ pc = "place" /\ \A p \in PR : defbbs[p] = {}
    /\ pc' = "rename"
    /\ stack' = [p \in PR |-> IF p \in Versioned THEN <<Version0>> ELSE <<>>]
    /\ UNCHANGED <<program, solving, fading, dom, phi, defbbs, link, path, renamed,
                   saved, work, inList, drops>>

\* Mutant of VersionAt: the statement's own definition is renamed first.
VersionAtAfter(p, b, i) ==
    LET above == {j \in SitesIn(p, b) : j <= i}
    IN  IF above = {} THEN Top(stack[p])
        ELSE <<b, CHOOSE j \in above : \A k \in above : k <= j>>

\* The version a read of p in front of statement i of block b gets: renameRHS
\* comes before renameLHS of the same statement.
VersionAt(p, b, i) ==
    LET above == {j \in SitesIn(p, b) : j < i}
    IN  IF above = {} THEN Top(stack[p])
        ELSE <<b, CHOOSE j \in above : \A k \in above : k <= j>>

\* A set of numbers as an ascending sequence.
Ascending(S) ==
    [j \in 1 .. Cardinality(S) |->
        CHOOSE i \in S : Cardinality({k \in S : k < i}) = j - 1]

Pushed(p, b) == [j \in 1 .. Cardinality(SitesIn(p, b)) |->
                    <<b, Ascending(SitesIn(p, b))[j]>>]

RenamedIn(b) ==
    UNION {{[pr |-> p, site |-> VersionAt(p, b, i), user |-> Reader(b, i)] :
              i \in {j \in DOMAIN code[b] : p \in code[b][j].reads}} : p \in PR}

\* Mutant of OperandsFrom: the versions on top before block b was renamed.
OperandsFromBefore(b, top) ==
    UNION {{[pr |-> p, site |-> Top(stack[p]), user |-> Operand(s, b)] :
              s \in succ[b] \cap phi[p]} : p \in PR}

\* handlePhiOpndInSucc, with the versions on top after block b.
OperandsFrom(b, top) ==
    UNION {{[pr |-> p, site |-> Top(top[p]), user |-> Operand(s, b)] :
              s \in succ[b] \cap phi[p]} : p \in PR}

\* handleBBRename: the tops are noted, the statements renamed and the
\* operands in the successors filled in.
VisitBB(b) ==
    /\ pc = "rename" /\ b \notin renamed
    /\ IF path = <<>> THEN b = Entry ELSE b \in Kids(Last(path))
    /\ LET top == [p \in PR |-> stack[p] \o Pushed(p, b)]
       IN  /\ stack' = top
           /\ link' = link \cup RenamedIn(b) \cup OperandsFrom(b, top)
    /\ saved' = [saved EXCEPT ![b] = [p \in PR |-> Top(stack[p])]]
    /\ path' = Append(path, b)
    /\ renamed' = renamed \cup {b}
    /\ UNCHANGED <<liveVars, dom, phi, defbbs, work, inList, drops>>

\* Pop down to the version the block found, of the PRs the block defines. A
\* version that is not on the stack is looked for for ever.
Defined(b) == {p \in PR : SitesIn(p, b) # {}}
Found(b) == \A p \in Defined(b) : saved[b][p] \in Range(stack[p])
PoppedTo(s, v) == SubSeq(s, 1, CHOOSE k \in DOMAIN s :
                                   s[k] = v /\ \A j \in DOMAIN s : s[j] = v => j <= k)

\* visitWhenAllKidHaveBeenVisited.
LeaveBB ==
    /\ pc = "rename" /\ path # <<>> /\ Kids(Last(path)) \subseteq renamed
    /\ LET b == Last(path)
       IN  IF Found(b)
           THEN /\ stack' = [p \in PR |-> IF p \in Defined(b)
                                          THEN PoppedTo(stack[p], saved[b][p])
                                          ELSE stack[p]]
                /\ path' = Front(path)
           ELSE UNCHANGED <<stack, path>>
    /\ UNCHANGED <<liveVars, dom, phi, defbbs, link, renamed, saved, work, inList, drops>>

HasPhi == {b \in Block : \E p \in PR : b \in phi[p]}

\* The versions go, refinePhi begins with the blocks that have PHIs.
StartRefine ==
    /\ pc = "rename" /\ path = <<>> /\ renamed = Block
    /\ pc' = "refine"
    /\ work' = Ascending(HasPhi) /\ inList' = HasPhi
    /\ UNCHANGED <<program, solving, fading, dom, phi, defbbs, link, stack, path,
                   renamed, saved, drops>>
-----------------------------------------------------------------------------
Operands(p, b) == {l \in link : l.pr = p /\ l.user.bb = b /\ l.user.i = 0}
Uses(p, b) == {l \in link : l.pr = p /\ l.site = <<b, 0>>}

\* What the operands other than the PHI itself are defined by (hasCommonDef).
Others(p, b) == {l.site : l \in Operands(p, b)} \ {<<b, 0>>}

\* A PHI without uses is redundant too (isRedundantPHI), but no definition is
\* found to replace it by, and it stays.
Redundant(p, b) ==
    /\ b \in phi[p]
    /\ Uses(p, b) # {}
    /\ Cardinality(Others(p, b)) = 1

\* replaceCommonDef: the uses go to the one definition, the PHI goes.
Relinked(p, b, ls) ==
    {IF l.pr = p /\ l.site = <<b, 0>>
     THEN [l EXCEPT !.site = CHOOSE d \in Others(p, b) : TRUE] ELSE l :
        l \in ls \ Operands(p, b)}

\* iterCollectPhi, before the replacement: every operand that a PHI defines
\* lists the block of that PHI, a block not on the list twice.
PhiOperands(p, b) == {l \in Operands(p, b) : l.site[2] = 0 /\ l.site[1] \in phi[p]}
Listed(start, ls) ==
    LET list[i \in 0 .. Len(ls)] ==
            IF i = 0 THEN start
            ELSE LET d == ls[i].site[1]
                 IN  [work |-> list[i - 1].work
                               \o IF d \in list[i - 1].inList THEN <<d>> ELSE <<d, d>>,
                      inList |-> list[i - 1].inList \cup {d}]
    IN  list[Len(ls)]

\* One turn of refinePhi's loop: every PHI of the block at the head.
RefineBB ==
    /\ pc = "refine" /\ work # <<>>
    /\ LET b == Head(work)
           gone == {p \in PR : Redundant(p, b)}
           list == Listed([work |-> Tail(work), inList |-> inList \ {b}],
                          SetToSeq(UNION {PhiOperands(p, b) : p \in gone}))
       IN  /\ phi' = [p \in PR |-> IF p \in gone THEN phi[p] \ {b} ELSE phi[p]]
           /\ link' = UNION {IF p \in gone THEN Relinked(p, b, {l \in link : l.pr = p})
                             ELSE {l \in link : l.pr = p} : p \in PR}
           /\ work' = list.work /\ inList' = list.inList
    /\ UNCHANGED <<liveVars, dom, defbbs, stack, path, renamed, saved, drops>>

RefineDone ==
    /\ pc = "refine" /\ work = <<>>
    /\ pc' = "built"
    /\ UNCHANGED <<program, solving, fading, ssaVars>>

\* A branch loses an edge, its target the operands for it
\* (removeSuccessorDesignatedPhiOpnd), and the caller refines again. The edges
\* that leave a part of the graph unreachable are not taken here.
DropEdge(b, s) ==
    /\ pc = "built" /\ drops < DropBound
    /\ s \in succ[b]
    /\ \A S \in SUBSET Block :
         /\ Entry \in S
         /\ \A c \in S : succ[c] \ (IF c = b THEN {s} ELSE {}) \subseteq S
         => S = Block
    /\ succ' = [succ EXCEPT ![b] = @ \ {s}]
    /\ link' = {l \in link : ~(l.user.bb = s /\ l.user.i = 0 /\ l.user.from = b)}
    /\ drops' = drops + 1
    /\ pc' = "refine"
    /\ work' = Ascending(HasPhi) /\ inList' = HasPhi
    /\ UNCHANGED <<code, solving, fading, dom, phi, defbbs, stack, path, renamed, saved>>

Done == pc = "built" /\ UNCHANGED vars

Next == \/ LiveNext /\ UNCHANGED ssaVars
        \/ InitMapInfo \/ PlacePhi \/ InitVPRStack
        \/ (\E b \in Block : VisitBB(b)) \/ LeaveBB
        \/ StartRefine \/ RefineBB \/ RefineDone
        \/ (\E b \in Block : \E s \in succ[b] : DropEdge(b, s))
        \/ Done

Spec == SSAInit /\ [][Next]_vars

\* One thread, no step waits for another: until the form is built it goes on.
FairSpec == Spec /\ WF_vars(Next /\ pc # "built")
-----------------------------------------------------------------------------
TypeOK ==
    /\ LiveTypeOK
    /\ pc \in {"perform", "solve", "solved", "fade", "live", "place", "rename",
              "refine", "built"}
    /\ dom \in [Block -> SUBSET Block]
    /\ phi \in [PR -> SUBSET Block] /\ defbbs \in [PR -> SUBSET Block]
    /\ link \subseteq [pr : PR, site : Site, user : User]
    /\ stack \in [PR -> Seq(Site)] /\ path \in Seq(Block) /\ renamed \subseteq Block
    /\ saved \in [Block -> [PR -> Site]]
    /\ work \in Seq(Block) /\ inList \subseteq Block /\ drops \in 0 .. DropBound

\* Which versions reach a point, over all paths. A version reaches the end of
\* a block if it is the last the block defines, or the block defines none and
\* it reaches the end of a predecessor.
LastIn(p, b) == CHOOSE i \in SitesIn(p, b) : \A j \in SitesIn(p, b) : j <= i
PassedOn(p, d, S) == {d} \cup {b \in Block : SitesIn(p, b) = {} /\ S \cap Preds(b) # {}}
ReachesEnd(p, d) == {b \in Block : \A S \in SUBSET Block : PassedOn(p, d, S) \subseteq S => b \in S}
SitesAtEnd(p, b) ==
    {<<d, LastIn(p, d)>> : d \in {c \in Block : SitesIn(p, c) # {} /\ b \in ReachesEnd(p, c)}}
    \cup (IF SitesIn(p, Entry) = {} /\ b \in ReachesEnd(p, Entry) THEN {Version0} ELSE {})
SitesBefore(p, b, i) ==
    LET above == {j \in SitesIn(p, b) : j < i}
    IN  IF above # {} THEN {<<b, CHOOSE j \in above : \A k \in above : k <= j>>}
        ELSE (UNION {SitesAtEnd(p, q) : q \in Preds(b)})
             \cup (IF b = Entry THEN {Version0} ELSE {})

Built == pc \in {"refine", "built"}

\* Every read of a PR is linked with one version (renameRHS), and on every path
\* to it that version is the last one defined: renaming loses no definition
\* and takes none from a branch not taken, PHIs are placed wherever they are
\* needed although liveness has pruned them, and refinePhi replaces a PHI only
\* by what it always equals, also after edges are gone.
ReadsSeeTheirVersion ==
    Built => \A p \in PR, b \in Block : \A i \in DOMAIN code[b] :
        p \in code[b][i].reads =>
            {l.site : l \in {k \in link : k.pr = p /\ k.user = Reader(b, i)}}
            = SitesBefore(p, b, i)

\* The same for the operands of PHIs whose value is wanted (handlePhiOpndInSucc
\* and removeSuccessorDesignatedPhiOpnd keep the operands in step with the
\* predecessors): one operand for each predecessor, with the version that
\* arrives from there.
OperandsSeeTheirVersion ==
    Built => \A p \in PR : \A b \in phi[p] :
        b \in LiveAt(p) =>
            {<<l.user.from, l.site>> : l \in Operands(p, b)}
            = UNION {{<<q, d>> : d \in SitesAtEnd(p, q)} : q \in Preds(b)}

\* The construction places no PHI that the refinement takes away again: at
\* each one different versions meet (placePhiForPR).
PhisMerge ==
    pc = "refine" /\ drops = 0 => \A p \in PR : \A b \in phi[p] : ~Redundant(p, b)

\* The construction and every refinement come to an end.
GetsBuilt == []<>(pc = "built")
=============================================================================
