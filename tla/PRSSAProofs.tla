---------------------------- MODULE PRSSAProofs ----------------------------
(***************************************************************************)
(* The versions of the PRs, for every number of blocks, every set of PRs   *)
(* and every program: what the walk along the dominator tree links, that   *)
(* no PHI is placed in vain, and that every user sees the version that all *)
(* paths bring to it, whatever PHIs the refinement takes away.             *)
(***************************************************************************)
EXTENDS SSAProofs

USE NAssumption, BoundsAssumption, PRAssumption, DropBoundAssumption

-----------------------------------------------------------------------------
(* What dominance says of the versions                                     *)

\* Where a version of p starts, and the version the block ends with.
Sources(p) == Sited(p) \cup {Entry}
SiteOf(p, c) == IF SitesIn(p, c) # {} THEN <<c, LastIn(p, c)>> ELSE <<c, 0>>

\* Of the sources that dominate b, or b, the nearest.
Around(p, b) == Sources(p) \cap (Doms(b) \cup {b})
Nearest(p, b) == CHOOSE c \in Around(p, b) : Around(p, b) \ {c} \subseteq Doms(c)

\* The versions at the end of b, at its beginning, and before its statement i.
EndSite(p, b) == SiteOf(p, Nearest(p, b))
Before(p, b) == IF b = Entry THEN Version0 ELSE EndSite(p, Idom(b))
ReadSite(p, b, i) == IF Above(p, b, i) = {} THEN Before(p, b)
                     ELSE <<b, LastAmong(Above(p, b, i))>>

LEMMA NearestIs ==
    ASSUME Graph, NEW p \in PR, NEW b \in Block
    PROVE  /\ Nearest(p, b) \in Around(p, b)
           /\ Around(p, b) \ {Nearest(p, b)} \subseteq Doms(Nearest(p, b))
<1>1. PICK D : D = Around(p, b)
  OBVIOUS
<1>2. D \in SUBSET (Doms(b) \cup {b}) /\ D # {}
  BY <1>1, EntryDominates DEF Around, Sources
<1>3. \E x \in D : D \ {x} \subseteq Doms(x)
  BY <1>2, NearestOf
<1> QED
  BY <1>1, <1>3 DEF Nearest

LEMMA NearestUnique ==
    ASSUME Graph, NEW p \in PR, NEW b \in Block, NEW c \in Around(p, b),
           Around(p, b) \ {c} \subseteq Doms(c)
    PROVE  c = Nearest(p, b)
<1>1. PICK d : d = Nearest(p, b)
  OBVIOUS
<1>2. d \in Around(p, b) /\ Around(p, b) \ {d} \subseteq Doms(d)
  BY <1>1, NearestIs
<1>3. Around(p, b) \subseteq Block
  BY DomsBlock DEF Around
<1>4. c # d => c \in Doms(d) /\ d \in Doms(c)
  BY <1>2
<1>5. c = d
  BY <1>2, <1>3, <1>4, DomsAsymmetric
<1> QED
  BY <1>1, <1>5

LEMMA EndSiteIs ==
    ASSUME Graph, DomIs, NEW p \in PR, NEW b \in Block
    PROVE  EndSite(p, b) = IF SitesIn(p, b) # {} THEN <<b, LastIn(p, b)>> ELSE Before(p, b)
<1>1. CASE SitesIn(p, b) # {}
  <2>1. b \in Around(p, b) /\ Around(p, b) \ {b} \subseteq Doms(b)
    BY <1>1 DEF Around, Sources, Sited
  <2>2. Nearest(p, b) = b
    BY <2>1, NearestUnique
  <2> QED
    BY <1>1, <2>2 DEF EndSite, SiteOf
<1>2. CASE SitesIn(p, b) = {} /\ b = Entry
  <2>1. Around(p, b) = {Entry}
    BY <1>2, EntryDominates DEF Around, Sources
  <2>2. Nearest(p, b) = Entry
    BY <2>1, NearestIs
  <2> QED
    BY <1>2, <2>2 DEF EndSite, SiteOf, Before, Version0
<1>3. CASE SitesIn(p, b) = {} /\ b # Entry
  <2>1. Idom(b) \in Block /\ Doms(b) = Doms(Idom(b)) \cup {Idom(b)}
    BY <1>3, IdomIs
  <2>2. Around(p, b) = Around(p, Idom(b))
    BY <1>3, <2>1 DEF Around, Sources, Sited
  <2>3. Nearest(p, b) = Nearest(p, Idom(b))
    BY <2>2 DEF Nearest
  <2> QED
    BY <1>3, <2>3 DEF EndSite, Before
<1> QED
  BY <1>1, <1>2, <1>3

\* The version belongs to the block or to one that dominates it.
LEMMA EndSiteOf ==
    ASSUME Graph, NEW p \in PR, NEW b \in Block
    PROVE  EndSite(p, b)[1] \in Doms(b) \cup {b}
BY NearestIs DEF EndSite, SiteOf, Around

\* Nothing is defined: there is only version 0.
LEMMA EndSiteOfNone ==
    ASSUME Graph, NEW p \in PR, Sited(p) = {}, NEW b \in Block
    PROVE  EndSite(p, b) = Version0
<1>1. Nearest(p, b) = Entry
  BY NearestIs DEF Around, Sources
<1>2. SitesIn(p, Entry) = {}
  BY BlockFinite DEF Sited
<1> QED
  BY <1>1, <1>2 DEF EndSite, SiteOf, Version0

LEMMA SitesStay ==
    ASSUME succ' = succ, code' = code, dom' = dom, phi' = phi
    PROVE  /\ \A p, b : SitesIn(p, b)' = SitesIn(p, b) /\ EndSite(p, b)' = EndSite(p, b)
           /\ \A p, b : Before(p, b)' = Before(p, b) /\ Writes(p, b)' = Writes(p, b)
           /\ \A p, b, i : ReadSite(p, b, i)' = ReadSite(p, b, i)
           /\ \A b : Idom(b)' = Idom(b) /\ Kids(b)' = Kids(b)
           /\ Versioned' = Versioned
<1>1. \A p, b : Writes(p, b)' = Writes(p, b) /\ SitesIn(p, b)' = SitesIn(p, b)
  BY DEF Writes, SitesIn
<1>2. \A b : Idom(b)' = Idom(b) /\ Kids(b)' = Kids(b)
  BY DEF Idom, Kids
<1>3. \A b : Doms(b)' = Doms(b)
  BY DEF Doms, Without
<1>4. \A p : Sited(p)' = Sited(p)
  BY <1>1 DEF Sited
<1>12. \A p : Sources(p)' = Sources(p)
  BY <1>4 DEF Sources
<1>13. \A p, b : LastIn(p, b)' = LastIn(p, b)
  BY <1>1 DEF LastIn
<1>5. \A p, b : SiteOf(p, b)' = SiteOf(p, b)
  BY <1>1, <1>13 DEF SiteOf
<1>14. \A p, b : Around(p, b)' = Around(p, b)
  BY <1>3, <1>12 DEF Around
<1>6. \A p, b : Nearest(p, b)' = Nearest(p, b)
  BY <1>3, <1>14 DEF Nearest
<1>7. \A p, b : EndSite(p, b)' = EndSite(p, b)
  BY <1>5, <1>6 DEF EndSite
<1>8. \A p, b : Before(p, b)' = Before(p, b)
  BY <1>2, <1>7 DEF Before
<1>9. \A p, b, i : Above(p, b, i)' = Above(p, b, i)
  BY <1>1 DEF Above
<1>10. \A p, b, i : ReadSite(p, b, i)' = ReadSite(p, b, i)
  BY <1>8, <1>9 DEF ReadSite
<1>11. Versioned' = Versioned
  BY <1>1 DEF Versioned, DefBBs
<1> QED
  BY <1>1, <1>2, <1>7, <1>8, <1>10, <1>11

-----------------------------------------------------------------------------
(* The walk along the dominator tree                                       *)

\* The blocks on the way, each with its immediate dominator before it.
ChainInv ==
    \A k \in 1 .. Len(path) :
        /\ path[k] \in renamed
        /\ IF k = 1 THEN path[k] = Entry ELSE path[k] # Entry /\ Idom(path[k]) = path[k - 1]

\* The stack is that of the blocks on the way: up to h[k] it holds what the
\* k-th has left on it.
StackOf(p, h) ==
    /\ h \in [0 .. Len(path) -> 1 .. Len(stack[p])]
    /\ h[0] = 1 /\ stack[p][1] = Version0
    /\ h[Len(path)] = Len(stack[p])
    /\ \A k \in 1 .. Len(path) :
         /\ stack[p][h[k]] = EndSite(p, path[k])
         /\ h[k - 1] <= h[k]
         /\ SitesIn(p, path[k]) = {} => h[k] = h[k - 1]
         /\ \A j \in 1 .. Len(stack[p]) :
              h[k - 1] < j /\ j <= h[k] => stack[p][j] \in {path[k]} \X SitesIn(p, path[k])
         /\ saved[path[k]][p] = stack[p][h[k - 1]]

StackInv(p) == IF p \in Versioned THEN \E h : StackOf(p, h) ELSE stack[p] = <<>>

\* What has been linked is what dominance says.
ReadLink(p, b, i) == [pr |-> p, site |-> ReadSite(p, b, i), user |-> Reader(b, i)]
OperandLink(p, b, s) == [pr |-> p, site |-> EndSite(p, b), user |-> Operand(s, b)]
LinkedReads(b) ==
    {l \in Links : \E p \in PR : \E i \in DOMAIN code[b] :
                      p \in code[b][i].reads /\ l = ReadLink(p, b, i)}
LinkedOperands(b) ==
    {l \in Links : \E p \in PR : \E s \in succ[b] \cap phi[p] : l = OperandLink(p, b, s)}
LinkInv ==
    \A l \in Links : l \in link <=> \E b \in renamed : l \in LinkedReads(b) \/ l \in LinkedOperands(b)

\* The walk of rename: whom it is with, what it has linked, what the stacks hold.
RenameInv ==
    pc = "rename" => /\ ChainInv /\ LinkInv
                     /\ \A p \in PR : StackInv(p)

\* The top of the stack is the version that arrives.
LEMMA TopIs ==
    ASSUME IInv, TypeInv, PlaceInv, RenameInv, pc = "rename", NEW p \in PR, NEW b \in Block,
           IF path = <<>> THEN b = Entry ELSE b \in Kids(Last(path))
    PROVE  /\ Top(stack[p]) = Before(p, b)
           /\ Top(stack[p] \o Pushed(p, b)) = EndSite(p, b)
<1>1. /\ Graph /\ DomIs /\ PhisInv(p) /\ LiveTypes
      /\ stack[p] \in Seq(Sites) /\ path \in Seq(Block) /\ phi[p] \subseteq Block
  BY DEF IInv, Types, Graph, PlaceInv, TypeInv, SSATypes
<1>2. Top(stack[p]) = Before(p, b)
  <2>1. CASE p \in Versioned
    <3>1. PICK h : StackOf(p, h)
      BY <2>1 DEF RenameInv, StackInv
    <3>2. Len(stack[p]) \in Nat /\ Len(path) \in Nat
      BY <1>1
    <3>3. stack[p] # <<>> /\ Top(stack[p]) = stack[p][Len(stack[p])]
      <4>1. h[0] \in 1 .. Len(stack[p])
        BY <3>1, <3>2 DEF StackOf
      <4> QED
        BY <4>1, <3>2 DEF Top, Last
    <3>4. CASE path = <<>>
      <4>1. Len(path) = 0
        BY <3>4
      <4> QED
        BY <3>1, <3>3, <3>4, <4>1 DEF StackOf, Before
    <3>5. CASE path # <<>>
      <4>1. Len(path) \in 1 .. Len(path) /\ Last(path) = path[Len(path)]
        BY <3>5, <1>1 DEF Last
      <4>2. b # Entry /\ Idom(b) = path[Len(path)]
        BY <3>5, <4>1 DEF Kids
      <4> QED
        BY <3>1, <3>3, <4>1, <4>2 DEF StackOf, Before
    <3> QED
      BY <3>4, <3>5
  <2>2. CASE p \notin Versioned
    <3>1. stack[p] = <<>>
      BY <2>2 DEF RenameInv, StackInv
    <3>2. Sited(p) = {}
      BY <2>2, <1>1, SitedIs DEF Versioned, PhisInv
    <3>3. b # Entry => EndSite(p, Idom(b)) = Version0
      BY <1>1, <3>2, EndSiteOfNone, IdomIs
    <3> QED
      BY <3>1, <3>3 DEF Top, Before
  <2> QED
    BY <2>1, <2>2
<1>3. Top(stack[p] \o Pushed(p, b)) = EndSite(p, b)
  <2>1. PICK s \in Seq(Sites) : s = stack[p]
    BY <1>1
  <2>2. PICK t \in Seq(Sites) : t = Pushed(p, b)
    BY <1>1, PushedIs
  <2>3. CASE SitesIn(p, b) = {}
    <3>1. Len(t) = 0
      BY <1>1, <2>2, <2>3, PushedIs
    <3>2. s \o t = s
      BY <3>1
    <3> QED
      BY <1>1, <1>2, <2>1, <2>2, <2>3, <3>2, EndSiteIs
  <2>4. CASE SitesIn(p, b) # {}
    <3>1. Len(t) # 0 /\ t[Len(t)] = <<b, LastIn(p, b)>>
      BY <1>1, <2>2, <2>4, PushedIs
    <3>2. Top(s \o t) = t[Len(t)]
      <4>1. Len(s \o t) = Len(s) + Len(t) /\ Len(s) \in Nat /\ Len(t) \in Nat /\ s \o t \in Seq(Sites)
        OBVIOUS
      <4>2. s \o t # <<>> /\ (s \o t)[Len(s) + Len(t)] = t[Len(t)]
        BY <3>1, <4>1
      <4> QED
        BY <4>1, <4>2 DEF Top, Last
    <3> QED
      BY <1>1, <2>1, <2>2, <2>4, <3>1, <3>2, EndSiteIs
  <2> QED
    BY <2>3, <2>4
<1> QED
  BY <1>2, <1>3

LEMMA VisitLinks ==
    ASSUME IInv, TypeInv, PlaceInv, RenameInv, NEW b \in Block, VisitBB(b)
    PROVE  LinkInv'
<1>0. /\ pc = "rename" /\ b \notin renamed /\ renamed' = renamed \cup {b}
      /\ IF path = <<>> THEN b = Entry ELSE b \in Kids(Last(path))
      /\ link' = link \cup RenamedIn(b) \cup OperandsFrom(b, [p \in PR |-> stack[p] \o Pushed(p, b)])
      /\ succ' = succ /\ code' = code /\ dom' = dom /\ phi' = phi
  BY DEF VisitBB, liveVars, program
<1>1. \A p \in PR : Top(stack[p]) = Before(p, b) /\ Top(stack[p] \o Pushed(p, b)) = EndSite(p, b)
  BY <1>0, TopIs
<1>2. /\ RenamedIn(b) \subseteq Links
      /\ OperandsFrom(b, [p \in PR |-> stack[p] \o Pushed(p, b)]) \subseteq Links
  <2>1. PICK top : top = [p \in PR |-> stack[p] \o Pushed(p, b)]
    OBVIOUS
  <2>2. \A p \in PR : top[p] \in Seq(Sites)
    BY <2>1, PushedIs DEF TypeInv, SSATypes
  <2>3. OperandsFrom(b, top) \subseteq Links
    BY <2>2, OperandsFromLinks
  <2> QED
    BY <2>1, <2>3, RenamedInLinks
<1>3. RenamedIn(b) = LinkedReads(b)
  <2>1. ASSUME NEW p \in PR, NEW i
        PROVE  VersionAt(p, b, i) = ReadSite(p, b, i)
    BY <1>1, VersionAtIs DEF ReadSite
  <2>2. ASSUME NEW l
        PROVE  l \in RenamedIn(b) <=> \E p \in PR : \E i \in DOMAIN code[b] :
                                         p \in code[b][i].reads /\ l = ReadLink(p, b, i)
    <3>1. l \in RenamedIn(b) <=> \E p \in PR : \E i \in DOMAIN code[b] :
             /\ p \in code[b][i].reads
             /\ l = [pr |-> p, site |-> VersionAt(p, b, i), user |-> Reader(b, i)]
      BY DEF RenamedIn
    <3> QED
      BY <2>1, <3>1 DEF ReadLink
  <2> QED
    BY <1>2, <2>2 DEF LinkedReads
<1>4. OperandsFrom(b, [p \in PR |-> stack[p] \o Pushed(p, b)]) = LinkedOperands(b)
  <2>1. PICK top : top = [p \in PR |-> stack[p] \o Pushed(p, b)]
    OBVIOUS
  <2>2. \A p \in PR : Top(top[p]) = EndSite(p, b)
    BY <1>1, <2>1
  <2>3. ASSUME NEW l
        PROVE  l \in OperandsFrom(b, top) <=>
                  \E p \in PR : \E s \in succ[b] \cap phi[p] : l = OperandLink(p, b, s)
    <3>1. l \in OperandsFrom(b, top) <=> \E p \in PR : \E s \in succ[b] \cap phi[p] :
             l = [pr |-> p, site |-> Top(top[p]), user |-> Operand(s, b)]
      BY DEF OperandsFrom
    <3> QED
      BY <2>2, <3>1 DEF OperandLink
  <2> QED
    BY <1>2, <2>1, <2>3 DEF LinkedOperands
<1>5. link' = link \cup LinkedReads(b) \cup LinkedOperands(b)
  BY <1>0, <1>3, <1>4
<1>6. /\ Links' = Links
      /\ \A c : LinkedReads(c)' = LinkedReads(c) /\ LinkedOperands(c)' = LinkedOperands(c)
  <2>1. Links' = Links
    BY <1>0 DEF Links, Sites, Users
  <2>2. /\ \A p, c, i : ReadLink(p, c, i)' = ReadLink(p, c, i)
        /\ \A p, c, s : OperandLink(p, c, s)' = OperandLink(p, c, s)
    BY <1>0, SitesStay DEF ReadLink, OperandLink
  <2> QED
    BY <1>0, <2>1, <2>2 DEF LinkedReads, LinkedOperands
<1>7. LinkInv
  BY <1>0 DEF RenameInv
<1> QED
  BY <1>0, <1>5, <1>6, <1>7 DEF LinkInv

LEMMA VisitStack ==
    ASSUME IInv, TypeInv, PlaceInv, RenameInv, NEW b \in Block, VisitBB(b), NEW p \in PR
    PROVE  StackInv(p)'
<1>0. /\ pc = "rename" /\ b \notin renamed
      /\ IF path = <<>> THEN b = Entry ELSE b \in Kids(Last(path))
      /\ stack' = [q \in PR |-> stack[q] \o Pushed(q, b)]
      /\ saved' = [saved EXCEPT ![b] = [q \in PR |-> Top(stack[q])]]
      /\ path' = Append(path, b)
      /\ succ' = succ /\ code' = code /\ dom' = dom /\ phi' = phi
  BY DEF VisitBB, liveVars, program
<1>1. /\ Graph /\ DomIs /\ PhisInv(p) /\ LiveTypes
      /\ stack[p] \in Seq(Sites) /\ path \in Seq(Block) /\ phi[p] \subseteq Block
      /\ saved \in [Block -> [PR -> Sites]] /\ ChainInv
  BY <1>0 DEF IInv, Types, Graph, PlaceInv, TypeInv, SSATypes, RenameInv
<1>2. Versioned' = Versioned /\ (\A c : SitesIn(p, c)' = SitesIn(p, c) /\ EndSite(p, c)' = EndSite(p, c))
  BY <1>0, SitesStay
<1>3. PICK s \in Seq(Sites) : s = stack[p]
  BY <1>1
<1>4. PICK t \in Seq(Sites) : t = Pushed(p, b)
  BY <1>1, PushedIs
<1>5. stack'[p] = s \o t /\ Len(s) \in Nat /\ Len(t) \in Nat /\ Len(s \o t) = Len(s) + Len(t)
  BY <1>0, <1>3, <1>4
<1>6. Top(s) = Before(p, b) /\ Top(s \o t) = EndSite(p, b)
  BY <1>0, <1>3, <1>4, TopIs
<1>7. CASE p \notin Versioned
  <2>1. s = <<>>
    BY <1>0, <1>3, <1>7 DEF RenameInv, StackInv
  <2>2. Sited(p) = {}
    BY <1>7, <1>1, SitedIs DEF Versioned, PhisInv
  <2>3. SitesIn(p, b) = {}
    BY <2>2 DEF Sited
  <2>4. Len(t) = 0
    BY <1>1, <1>4, <2>3, PushedIs
  <2>5. s \o t = <<>>
    BY <2>1, <2>4
  <2> QED
    BY <1>2, <1>5, <1>7, <2>5 DEF StackInv
<1>8. CASE p \in Versioned
  <2>1. PICK h : StackOf(p, h)
    BY <1>0, <1>8 DEF RenameInv, StackInv
  <2>2. PICK n \in Nat : n = Len(path)
    BY <1>1
  <2>3. PICK m \in Nat : m = Len(s)
    BY <1>5
  <2>4. PICK m2 \in Nat : m2 = m + Len(t)
    BY <1>5
  <2>5. /\ Len(path') = n + 1 /\ path'[n + 1] = b
        /\ \A k \in 1 .. n : path'[k] = path[k] /\ path[k] \in Block /\ path[k] # b
    BY <1>0, <1>1, <2>2 DEF ChainInv
  <2>6. /\ Len(stack'[p]) = m2 /\ m <= m2
        /\ \A j \in 1 .. m : stack'[p][j] = s[j]
        /\ \A j \in 1 .. m2 : m < j => stack'[p][j] \in {b} \X SitesIn(p, b)
        /\ SitesIn(p, b) = {} => m2 = m
    <3>1. \A j \in 1 .. m : (s \o t)[j] = s[j]
      BY <1>5, <2>3
    <3>2. \A j \in 1 .. Len(t) : t[j] \in {b} \X SitesIn(p, b)
      BY <1>1, <1>4, PushedIs
    <3>3. ASSUME NEW j \in 1 .. m2, m < j
          PROVE  (s \o t)[j] \in {b} \X SitesIn(p, b)
      <4>1. j - m \in 1 .. Len(t) /\ (s \o t)[j] = t[j - m]
        BY <1>5, <2>3, <2>4, <3>3
      <4> QED
        BY <4>1, <3>2
    <3>4. SitesIn(p, b) = {} => Len(t) = 0
      BY <1>1, <1>4, PushedIs
    <3> QED
      BY <1>5, <2>3, <2>4, <3>1, <3>3, <3>4
  <2>7. /\ h \in [0 .. n -> 1 .. m] /\ h[0] = 1 /\ s[1] = Version0 /\ h[n] = m
        /\ \A k \in 1 .. n :
             /\ s[h[k]] = EndSite(p, path[k])
             /\ h[k - 1] <= h[k]
             /\ SitesIn(p, path[k]) = {} => h[k] = h[k - 1]
             /\ \A j \in 1 .. m : h[k - 1] < j /\ j <= h[k] => s[j] \in {path[k]} \X SitesIn(p, path[k])
             /\ saved[path[k]][p] = s[h[k - 1]]
    BY <1>3, <2>1, <2>2, <2>3 DEF StackOf
  <2>8. 1 <= m /\ 1 \in 1 .. m /\ s # <<>> /\ Top(s) = s[m] /\ s \o t # <<>> /\ Top(s \o t) = stack'[p][m2]
    <3>1. 1 <= m
      BY <2>2, <2>7
    <3>2. s # <<>> /\ s \o t # <<>>
      BY <1>5, <2>3, <3>1
    <3> QED
      BY <1>5, <2>3, <2>4, <3>1, <3>2 DEF Top, Last
  <2>9. /\ saved'[b][p] = s[m]
        /\ \A k \in 1 .. n : saved'[path[k]][p] = saved[path[k]][p]
    BY <1>0, <1>1, <1>3, <2>5, <2>8
  <2>10. PICK g : g = [k \in 0 .. (n + 1) |-> IF k = n + 1 THEN m2 ELSE h[k]]
    OBVIOUS
  <2>11. g \in [0 .. (n + 1) -> 1 .. m2] /\ g[n + 1] = m2 /\ \A k \in 0 .. n : g[k] = h[k]
    <3>1. \A k \in 0 .. (n + 1) : k # n + 1 => k \in 0 .. n
      OBVIOUS
    <3>2. \A k \in 0 .. n : h[k] \in 1 .. m /\ h[k] \in 1 .. m2
      BY <2>6, <2>7
    <3>3. m2 \in 1 .. m2 /\ n + 1 \in 0 .. (n + 1) /\ \A k \in 0 .. n : k # n + 1 /\ k \in 0 .. (n + 1)
      BY <2>6, <2>8
    <3> QED
      BY <2>10, <3>1, <3>2, <3>3
  <2>12. ASSUME NEW k \in 1 .. (n + 1)
         PROVE  /\ stack'[p][g[k]] = EndSite(p, path'[k])
                /\ g[k - 1] <= g[k]
                /\ SitesIn(p, path'[k]) = {} => g[k] = g[k - 1]
                /\ \A j \in 1 .. m2 : g[k - 1] < j /\ j <= g[k] =>
                      stack'[p][j] \in {path'[k]} \X SitesIn(p, path'[k])
                /\ saved'[path'[k]][p] = stack'[p][g[k - 1]]
    <3>1. CASE k = n + 1
      <4>1. k - 1 = n /\ g[k] = m2 /\ g[k - 1] = m /\ path'[k] = b /\ m \in 1 .. m
        BY <3>1, <2>5, <2>7, <2>8, <2>11
      <4> QED
        BY <4>1, <2>6, <2>8, <2>9, <1>6, <1>5
    <3>2. CASE k # n + 1
      <4>1. k \in 1 .. n /\ k - 1 \in 0 .. n /\ k \in 0 .. n
        BY <3>2
      <4>2. g[k] = h[k] /\ g[k - 1] = h[k - 1] /\ h[k] \in 1 .. m /\ h[k - 1] \in 1 .. m /\ path'[k] = path[k]
        BY <4>1, <2>5, <2>7, <2>11
      <4>3. \A j \in 1 .. m2 : j <= h[k] => j \in 1 .. m
        BY <4>2
      <4>4. /\ s[h[k]] = EndSite(p, path[k]) /\ h[k - 1] <= h[k]
            /\ SitesIn(p, path[k]) = {} => h[k] = h[k - 1]
            /\ \A j \in 1 .. m : h[k - 1] < j /\ j <= h[k] => s[j] \in {path[k]} \X SitesIn(p, path[k])
            /\ saved[path[k]][p] = s[h[k - 1]] /\ saved'[path[k]][p] = saved[path[k]][p]
        BY <4>1, <2>7, <2>9
      <4>5. stack'[p][h[k]] = s[h[k]] /\ stack'[p][h[k - 1]] = s[h[k - 1]]
        BY <4>2, <2>6
      <4>6. ASSUME NEW j \in 1 .. m2, h[k - 1] < j, j <= h[k]
            PROVE  stack'[p][j] \in {path[k]} \X SitesIn(p, path[k])
        <5>1. j \in 1 .. m
          BY <4>3, <4>6
        <5>2. stack'[p][j] = s[j]
          BY <5>1, <2>6
        <5> QED
          BY <4>4, <4>6, <5>1, <5>2
      <4> QED
        BY <4>2, <4>4, <4>5, <4>6
    <3> QED
      BY <3>1, <3>2
  <2>13. stack'[p][1] = Version0 /\ g[0] = 1
    <3>1. 0 \in 0 .. n
      OBVIOUS
    <3> QED
      BY <2>6, <2>7, <2>8, <2>11, <3>1
  <2>14. StackOf(p, g)'
    <3>1. g \in [0 .. Len(path') -> 1 .. Len(stack'[p])] /\ g[Len(path')] = Len(stack'[p])
      BY <2>5, <2>6, <2>11
    <3> QED
      BY <3>1, <2>5, <2>6, <2>12, <2>13, <1>2 DEF StackOf
  <2> QED
    BY <2>14, <1>2, <1>8 DEF StackInv
<1> QED
  BY <1>7, <1>8

LEMMA VisitRename ==
    ASSUME IInv, TypeInv, PlaceInv, RenameInv, NEW b \in Block, VisitBB(b)
    PROVE  RenameInv'
<1>0. /\ pc = "rename" /\ b \notin renamed /\ renamed' = renamed \cup {b}
      /\ IF path = <<>> THEN b = Entry ELSE b \in Kids(Last(path))
      /\ path' = Append(path, b)
      /\ succ' = succ /\ code' = code /\ dom' = dom /\ phi' = phi
  BY DEF VisitBB, liveVars, program
<1>1. path \in Seq(Block) /\ ChainInv
  BY <1>0 DEF TypeInv, SSATypes, RenameInv
<1>2. PICK n \in Nat : n = Len(path)
  BY <1>1
<1>3. Len(path') = n + 1 /\ path'[n + 1] = b /\ \A k \in 1 .. n : path'[k] = path[k]
  BY <1>0, <1>1, <1>2
<1>4. \A c : Idom(c)' = Idom(c)
  BY <1>0, SitesStay
<1>5. ASSUME NEW k \in 1 .. (n + 1)
      PROVE  /\ path'[k] \in renamed'
             /\ IF k = 1 THEN path'[k] = Entry ELSE path'[k] # Entry /\ Idom(path'[k]) = path'[k - 1]
  <2>1. CASE k = n + 1
    <3>1. CASE n = 0
      <4>1. path = <<>>
        <5>1. PICK w \in Seq(Block) : w = path /\ Len(w) = 0
          BY <1>1, <1>2, <3>1
        <5>2. w = <<>>
          BY <5>1
        <5> QED
          BY <5>1, <5>2
      <4> QED
        BY <4>1, <3>1, <2>1, <1>0, <1>3
    <3>2. CASE n # 0
      <4>1. path # <<>> /\ Last(path) = path[n] /\ n \in 1 .. n /\ k - 1 = n /\ k # 1
        BY <1>1, <1>2, <2>1, <3>2 DEF Last
      <4> QED
        BY <4>1, <2>1, <1>0, <1>3 DEF Kids
    <3> QED
      BY <3>1, <3>2
  <2>2. CASE k # n + 1
    <3>1. k \in 1 .. n /\ (k # 1 => k - 1 \in 1 .. n)
      BY <2>2
    <3> QED
      BY <3>1, <1>0, <1>1, <1>2, <1>3 DEF ChainInv
  <2> QED
    BY <2>1, <2>2
<1>6. ChainInv'
  BY <1>2, <1>3, <1>4, <1>5 DEF ChainInv
<1>7. LinkInv'
  BY VisitLinks
<1>8. \A p \in PR : StackInv(p)'
  BY VisitStack
<1> QED
  BY <1>6, <1>7, <1>8 DEF RenameInv

\* What the walk does to the stack of p when it leaves b.
Left(p, b) ==
    /\ succ' = succ /\ code' = code /\ dom' = dom /\ phi' = phi /\ saved' = saved
    /\ path' = Front(path)
    /\ stack'[p] = IF p \in Defined(b) THEN PoppedTo(stack[p], saved[b][p]) ELSE stack[p]

\* What the block leaves with is taken back, down to the version it found: of
\* the versions above it none is the same.
LEMMA LeaveStack ==
    ASSUME IInv, TypeInv, PlaceInv, RenameInv, pc = "rename", path # <<>>, NEW p \in PR,
           NEW b, b = Last(path)
    PROVE  /\ p \in Defined(b) => saved[b][p] \in Range(stack[p])
           /\ Left(p, b) => StackInv(p)'
<1>1. /\ Graph /\ DomIs /\ PhisInv(p) /\ LiveTypes
      /\ stack[p] \in Seq(Sites) /\ path \in Seq(Block) /\ phi[p] \subseteq Block
      /\ ChainInv
  BY DEF IInv, Types, Graph, PlaceInv, TypeInv, SSATypes, RenameInv
<1>2. PICK n \in Nat : n = Len(path) /\ n # 0
  BY <1>1
<1>3. b = path[n] /\ b \in Block
  BY <1>1, <1>2 DEF Last
<1>4. CASE p \notin Versioned
  <2>1. Sited(p) = {} /\ stack[p] = <<>>
    BY <1>4, <1>1, SitedIs DEF Versioned, PhisInv, RenameInv, StackInv
  <2>2. p \notin Defined(b)
    BY <1>3, <2>1 DEF Defined, Sited
  <2> SUFFICES ASSUME Left(p, b) PROVE StackInv(p)'
    BY <2>2
  <2>3. Versioned' = Versioned
    BY SitesStay DEF Left
  <2> QED
    BY <1>4, <2>1, <2>2, <2>3 DEF StackInv, Left
<1>5. CASE p \in Versioned
  <2>1. PICK h : StackOf(p, h)
    BY <1>5 DEF RenameInv, StackInv
  <2>2. PICK s \in Seq(Sites) : s = stack[p]
    BY <1>1
  <2>3. PICK m \in Nat : m = Len(s)
    BY <2>2
  <2>4. /\ h \in [0 .. n -> 1 .. m] /\ h[0] = 1 /\ s[1] = Version0 /\ h[n] = m
        /\ \A k \in 1 .. n :
             /\ s[h[k]] = EndSite(p, path[k])
             /\ h[k - 1] <= h[k]
             /\ SitesIn(p, path[k]) = {} => h[k] = h[k - 1]
             /\ \A j \in 1 .. m : h[k - 1] < j /\ j <= h[k] => s[j] \in {path[k]} \X SitesIn(p, path[k])
             /\ saved[path[k]][p] = s[h[k - 1]]
    BY <1>2, <2>1, <2>2, <2>3 DEF StackOf
  <2>5. n \in 1 .. n /\ n - 1 \in 0 .. n /\ n - 1 \in Nat
    BY <1>2
  <2>6. PICK r \in 1 .. m : r = h[n - 1]
    BY <2>4, <2>5
  <2>7. saved[b][p] = s[r] /\ s[r] \in Range(s)
    <3>1. r \in DOMAIN s
      BY <2>3, <2>6
    <3> QED
      BY <1>3, <2>4, <2>5, <2>6, <3>1 DEF Range
  <2>8. s[r] \notin {b} \X SitesIn(p, b)
    <3>1. CASE n = 1
      <4>1. b = Entry /\ s[r] = Version0
        <5>1. n - 1 = 0 /\ 1 \in 1 .. Len(path) /\ b = path[1]
          BY <3>1, <1>2, <1>3
        <5>2. r = 1
          BY <5>1, <2>4, <2>6
        <5> QED
          BY <5>1, <5>2, <1>1, <2>4 DEF ChainInv
      <4>2. \A i \in Writes(p, b) : i # 0
        BY <1>1, <1>3, WritesAre
      <4>3. 0 \notin SitesIn(p, Entry)
        BY <4>1, <4>2, <1>1 DEF SitesIn, PhisInv
      <4> QED
        BY <4>1, <4>3 DEF Version0
    <3>2. CASE n # 1
      <4>1. n - 1 \in 1 .. n
        BY <1>2, <3>2
      <4>2. s[r] = EndSite(p, path[n - 1]) /\ b # Entry /\ Idom(b) = path[n - 1]
        BY <4>1, <3>2, <1>1, <1>2, <1>3, <2>4, <2>5, <2>6 DEF ChainInv
      <4>3. Idom(b) \in Block /\ Doms(b) = Doms(Idom(b)) \cup {Idom(b)}
        BY <1>1, <1>3, <4>2, IdomIs
      <4>4. s[r][1] \in Doms(b)
        BY <1>1, <4>2, <4>3, EndSiteOf
      <4>5. s[r][1] # b
        BY <1>3, <4>4, DomsBlock
      <4> QED
        BY <4>5
    <3> QED
      BY <3>1, <3>2
  <2>9. ASSUME p \in Defined(b)
        PROVE  PoppedTo(s, saved[b][p]) = SubSeq(s, 1, r)
    <3>1. PICK k \in 1 .. Len(s) : /\ s[k] = s[r]
                                   /\ \A j \in 1 .. Len(s) : s[j] = s[r] => j <= k
                                   /\ PoppedTo(s, s[r]) = SubSeq(s, 1, k)
      BY <2>2, <2>7, PoppedToIs
    <3>2. r <= k
      BY <2>3, <2>6, <3>1
    <3>3. ~(r < k)
      <4> SUFFICES ASSUME r < k PROVE FALSE
        OBVIOUS
      <4>1. k \in 1 .. m /\ h[n - 1] < k /\ k <= h[n]
        BY <2>3, <2>4, <2>6, <3>1
      <4>2. s[k] \in {path[n]} \X SitesIn(p, path[n])
        BY <2>4, <2>5, <4>1
      <4> QED
        BY <4>2, <3>1, <2>8, <1>3
    <3>4. k = r
      BY <3>2, <3>3, <2>3, <2>6
    <3> QED
      BY <3>1, <3>4, <2>7
  <2>10. ASSUME p \notin Defined(b)
         PROVE  r = m
    BY <2>4, <2>5, <2>6, <2>10, <1>3 DEF Defined
  <2>11. ASSUME Left(p, b)
         PROVE  StackInv(p)'
    <3>0. /\ succ' = succ /\ code' = code /\ dom' = dom /\ phi' = phi /\ saved' = saved
          /\ path' = Front(path)
          /\ stack'[p] = IF p \in Defined(b) THEN PoppedTo(stack[p], saved[b][p]) ELSE stack[p]
      BY <2>11 DEF Left
    <3>1. Versioned' = Versioned /\ (\A c : SitesIn(p, c)' = SitesIn(p, c) /\ EndSite(p, c)' = EndSite(p, c))
      BY <3>0, SitesStay
    <3>2. PICK q \in Nat : q = n - 1
      BY <2>5
    <3>3. Len(path') = q /\ \A k \in 1 .. q : path'[k] = path[k]
      BY <1>1, <1>2, <3>0, <3>2 DEF Front
    <3>4. Len(stack'[p]) = r /\ \A j \in 1 .. r : stack'[p][j] = s[j]
      <4>1. CASE p \in Defined(b)
        <5>1. stack'[p] = SubSeq(s, 1, r)
          BY <4>1, <2>2, <2>9, <3>0
        <5> QED
          BY <5>1, <2>2, <2>3, <2>6
      <4>2. CASE p \notin Defined(b)
        BY <4>2, <2>2, <2>3, <2>6, <2>10, <3>0
      <4> QED
        BY <4>1, <4>2
    <3>5. \A k \in 0 .. q : h[k] \in 1 .. m /\ h[k] <= r
      <4> SUFFICES ASSUME NEW k \in 0 .. q, ~(h[k] <= r) PROVE FALSE
        <5>1. \A k \in 0 .. q : k \in 0 .. n
          BY <3>2, <1>2
        <5> QED
          BY <5>1, <2>4
      <4> DEFINE K == {j \in 0 .. q : h[j] > r}
      <4>1. K \in SUBSET Nat /\ K \in SUBSET (0 .. q) /\ k \in K
        <5>1. h[k] \in 1 .. m
          BY <2>4, <3>2, <1>2
        <5> QED
          BY <5>1, <2>6
      <4>2. IsFiniteSet(0 .. q)
        BY FS_Interval
      <4>3. PICK j \in K : \A i \in K : i <= j
        <5> HIDE DEF K
        <5> QED
          BY <4>1, <4>2, FS_Subset, MaximumOf
      <4>4. j \in 0 .. q /\ h[j] > r
        OBVIOUS
      <4>5. j # q
        BY <4>4, <2>6, <3>2
      <4>6. j + 1 \in 1 .. n /\ j + 1 \in 0 .. q /\ (j + 1) - 1 = j
        BY <4>4, <4>5, <3>2, <1>2
      <4>7. h[j] <= h[j + 1] /\ h[j + 1] \in 1 .. m /\ h[j] \in 1 .. m
        <5>1. j + 1 \in 0 .. n /\ j \in 0 .. n
          BY <4>6, <4>4, <3>2
        <5> QED
          BY <5>1, <4>6, <2>4
      <4>8. j + 1 \in K
        BY <4>4, <4>6, <4>7, <2>6
      <4>9. j + 1 <= j
        <5> HIDE DEF K
        <5> QED
          BY <4>3, <4>8
      <4> QED
        BY <4>9, <4>4
    <3>6. PICK g : g = [k \in 0 .. q |-> h[k]]
      OBVIOUS
    <3>7. /\ g \in [0 .. q -> 1 .. r] /\ \A k \in 0 .. q : g[k] = h[k] /\ h[k] \in 1 .. r
      <4>1. \A k \in 0 .. q : h[k] \in 1 .. r
        BY <3>5, <2>6
      <4> QED
        BY <4>1, <3>6
    <3>8. g[0] = 1 /\ g[q] = r /\ stack'[p][1] = Version0
      <4>1. 0 \in 0 .. q /\ q \in 0 .. q /\ 1 \in 1 .. r
        BY <2>6
      <4> QED
        BY <4>1, <3>2, <3>4, <3>7, <2>4, <2>6
    <3>9. ASSUME NEW k \in 1 .. q
          PROVE  /\ stack'[p][g[k]] = EndSite(p, path'[k])
                 /\ g[k - 1] <= g[k]
                 /\ SitesIn(p, path'[k]) = {} => g[k] = g[k - 1]
                 /\ \A j \in 1 .. r : g[k - 1] < j /\ j <= g[k] =>
                       stack'[p][j] \in {path'[k]} \X SitesIn(p, path'[k])
                 /\ saved'[path'[k]][p] = stack'[p][g[k - 1]]
      <4>1. k \in 1 .. n /\ k \in 0 .. q /\ k - 1 \in 0 .. q
        BY <3>2, <1>2
      <4>2. g[k] = h[k] /\ g[k - 1] = h[k - 1] /\ h[k] \in 1 .. r /\ h[k - 1] \in 1 .. r /\ path'[k] = path[k]
        BY <4>1, <3>3, <3>7
      <4>3. /\ s[h[k]] = EndSite(p, path[k]) /\ h[k - 1] <= h[k]
            /\ SitesIn(p, path[k]) = {} => h[k] = h[k - 1]
            /\ \A j \in 1 .. m : h[k - 1] < j /\ j <= h[k] => s[j] \in {path[k]} \X SitesIn(p, path[k])
            /\ saved[path[k]][p] = s[h[k - 1]]
        BY <4>1, <2>4
      <4>4. stack'[p][h[k]] = s[h[k]] /\ stack'[p][h[k - 1]] = s[h[k - 1]] /\ saved' = saved
        BY <4>2, <3>4, <3>0
      <4>5. \A j \in 1 .. r : j \in 1 .. m /\ stack'[p][j] = s[j]
        BY <3>4, <2>6
      <4>6. \A j \in 1 .. r : h[k - 1] < j /\ j <= h[k] => stack'[p][j] \in {path[k]} \X SitesIn(p, path[k])
        BY <4>3, <4>5
      <4> QED
        BY <4>2, <4>3, <4>4, <4>6
    <3>10. StackOf(p, g)'
      <4>1. g \in [0 .. Len(path') -> 1 .. Len(stack'[p])] /\ g[Len(path')] = Len(stack'[p])
        BY <3>3, <3>4, <3>7, <3>8
      <4> QED
        BY <4>1, <3>1, <3>3, <3>4, <3>8, <3>9 DEF StackOf
    <3> QED
      BY <3>10, <3>1, <1>5 DEF StackInv
  <2> QED
    BY <2>2, <2>7, <2>11
<1> QED
  BY <1>4, <1>5

LEMMA LinkStays ==
    ASSUME succ' = succ, code' = code, dom' = dom, phi' = phi, link' = link, renamed' = renamed
    PROVE  LinkInv' = LinkInv
<1>1. Links' = Links
  BY DEF Links, Sites, Users
<1>2. /\ \A p, c, i : ReadLink(p, c, i)' = ReadLink(p, c, i)
      /\ \A p, c, s : OperandLink(p, c, s)' = OperandLink(p, c, s)
  BY SitesStay DEF ReadLink, OperandLink
<1>3. \A c : LinkedReads(c)' = LinkedReads(c) /\ LinkedOperands(c)' = LinkedOperands(c)
  BY <1>1, <1>2 DEF LinkedReads, LinkedOperands
<1> QED
  BY <1>1, <1>3 DEF LinkInv

LEMMA LeaveRename == IInv /\ TypeInv /\ PlaceInv /\ RenameInv /\ LeaveBB => RenameInv'
<1> SUFFICES ASSUME IInv, TypeInv, PlaceInv, RenameInv, LeaveBB PROVE RenameInv'
  OBVIOUS
<1>1. PICK b : b = Last(path)
  OBVIOUS
<1>0. /\ pc = "rename" /\ path # <<>>
      /\ IF Found(b)
         THEN /\ stack' = [p \in PR |-> IF p \in Defined(b) THEN PoppedTo(stack[p], saved[b][p])
                                        ELSE stack[p]]
              /\ path' = Front(path)
         ELSE UNCHANGED <<stack, path>>
      /\ succ' = succ /\ code' = code /\ dom' = dom /\ phi' = phi /\ saved' = saved
      /\ link' = link /\ renamed' = renamed
  BY <1>1 DEF LeaveBB, liveVars, program
<1>2. Found(b)
  <2>1. \A p \in Defined(b) : p \in PR
    BY DEF Defined
  <2> QED
    BY <1>0, <1>1, <2>1, LeaveStack DEF Found
<1>3. ASSUME NEW p \in PR
      PROVE  StackInv(p)'
  <2>1. Left(p, b)
    BY <1>0, <1>2 DEF Left
  <2> QED
    BY <1>0, <1>1, <2>1, LeaveStack
<1>4. LinkInv'
  BY <1>0, LinkStays DEF RenameInv
<1>5. ChainInv'
  <2>1. path \in Seq(Block) /\ ChainInv
    BY <1>0 DEF RenameInv, TypeInv, SSATypes
  <2>2. PICK n \in Nat : n = Len(path) /\ n # 0
    BY <1>0, <2>1
  <2>3. PICK q \in Nat : q = n - 1
    BY <2>2
  <2>4. Len(path') = q /\ \A k \in 1 .. q : path'[k] = path[k]
    BY <1>0, <1>2, <2>1, <2>2, <2>3 DEF Front
  <2>5. \A c : Idom(c)' = Idom(c)
    BY <1>0, SitesStay
  <2>6. ASSUME NEW k \in 1 .. q
        PROVE  /\ path'[k] \in renamed'
               /\ IF k = 1 THEN path'[k] = Entry ELSE path'[k] # Entry /\ Idom(path'[k]) = path'[k - 1]
    <3>1. k \in 1 .. n /\ (k # 1 => k - 1 \in 1 .. q)
      BY <2>2, <2>3
    <3> QED
      BY <3>1, <1>0, <2>1, <2>2, <2>4 DEF ChainInv
  <2> QED
    BY <2>4, <2>5, <2>6 DEF ChainInv
<1> QED
  BY <1>3, <1>4, <1>5 DEF RenameInv

LEMMA StartRename == TypeInv /\ PlaceInv /\ InitVPRStack => RenameInv'
<1> SUFFICES ASSUME TypeInv, PlaceInv, InitVPRStack PROVE RenameInv'
  OBVIOUS
<1>0. /\ pc = "place"
      /\ stack' = [p \in PR |-> IF p \in Versioned THEN <<Version0>> ELSE <<>>]
      /\ succ' = succ /\ code' = code /\ dom' = dom /\ phi' = phi /\ saved' = saved
      /\ link' = link /\ renamed' = renamed /\ path' = path
  BY DEF InitVPRStack, program
<1>1. link = {} /\ path = <<>> /\ renamed = {}
  BY <1>0 DEF PlaceInv, Early
<1>2. LinkInv /\ ChainInv'
  BY <1>0, <1>1 DEF LinkInv, ChainInv
<1>3. LinkInv'
  BY <1>0, <1>2, LinkStays
<1>4. Versioned' = Versioned
  BY <1>0, SitesStay
<1>5. ASSUME NEW p \in PR
      PROVE  StackInv(p)'
  <2>1. CASE p \notin Versioned
    BY <2>1, <1>0, <1>4 DEF StackInv
  <2>2. CASE p \in Versioned
    <3>1. stack'[p] = <<Version0>> /\ Len(path') = 0
      BY <2>2, <1>0, <1>1
    <3>2. PICK h : h = [k \in 0 .. 0 |-> 1]
      OBVIOUS
    <3>3. h \in [0 .. 0 -> 1 .. 1] /\ h[0] = 1
      BY <3>2
    <3>4. Len(stack'[p]) = 1 /\ stack'[p][1] = Version0
      BY <3>1
    <3>5. StackOf(p, h)'
      <4>1. h \in [0 .. Len(path') -> 1 .. Len(stack'[p])] /\ h[Len(path')] = Len(stack'[p])
        BY <3>1, <3>3, <3>4
      <4>2. 1 .. Len(path') = {}
        BY <3>1
      <4> QED
        BY <4>1, <4>2, <3>3, <3>4 DEF StackOf
    <3> QED
      BY <2>2, <3>5, <1>4 DEF StackInv
  <2> QED
    BY <2>1, <2>2
<1> QED
  BY <1>2, <1>3, <1>5 DEF RenameInv

LEMMA NextRename == IInv /\ TypeInv /\ PlaceInv /\ RenameInv /\ [Next]_vars => RenameInv'
<1> SUFFICES ASSUME IInv, TypeInv, PlaceInv, RenameInv, [Next]_vars PROVE RenameInv'
  OBVIOUS
<1>1. CASE LiveNext /\ UNCHANGED ssaVars
  <2>1. pc' # "rename"
    BY <1>1 DEF LiveNext, Perform, SweepBB, SweepAgain, Solved, NothingRedundant, Eliminate,
       FadeBB, FadeAgain, Faded
  <2> QED
    BY <2>1 DEF RenameInv
<1>2. CASE InitMapInfo \/ PlacePhi \/ StartRefine \/ RefineBB \/ RefineDone
           \/ (\E b \in Block : \E s \in succ[b] : DropEdge(b, s))
  <2>1. pc' # "rename"
    BY <1>2 DEF InitMapInfo, PlacePhi, StartRefine, RefineBB, RefineDone, DropEdge, liveVars
  <2> QED
    BY <2>1 DEF RenameInv
<1>3. CASE InitVPRStack
  BY <1>3, StartRename
<1>4. ASSUME NEW b \in Block, VisitBB(b)
      PROVE  RenameInv'
  BY <1>4, VisitRename
<1>5. CASE LeaveBB
  BY <1>5, LeaveRename
<1>6. CASE UNCHANGED vars
  <2>1. UNCHANGED liveVars /\ UNCHANGED ssaVars
    BY <1>6 DEF vars
  <2>2. /\ pc' = pc /\ succ' = succ /\ code' = code /\ dom' = dom /\ phi' = phi /\ saved' = saved
        /\ link' = link /\ path' = path /\ renamed' = renamed /\ stack' = stack
    BY <2>1 DEF liveVars, program, ssaVars
  <2>3. LinkInv' = LinkInv
    BY <2>2, LinkStays
  <2>4. /\ \A p, c : SitesIn(p, c)' = SitesIn(p, c) /\ EndSite(p, c)' = EndSite(p, c)
        /\ \A c : Idom(c)' = Idom(c)
        /\ Versioned' = Versioned
    BY <2>2, SitesStay
  <2>5. ChainInv' = ChainInv
    BY <2>2, <2>4 DEF ChainInv
  <2>6. ASSUME NEW p \in PR
        PROVE  StackInv(p)' = StackInv(p)
    <3>1. \A h : StackOf(p, h)' = StackOf(p, h)
      BY <2>2, <2>4 DEF StackOf
    <3> QED
      BY <3>1, <2>2, <2>4 DEF StackInv
  <2> QED
    BY <2>2, <2>3, <2>5, <2>6 DEF RenameInv
<1> QED
  BY <1>1, <1>2, <1>3, <1>4, <1>5, <1>6 DEF Next, Done

LEMMA RenameInvHolds == Spec => []RenameInv
<1>1. SSAInit => RenameInv
  BY DEF SSAInit, LiveInit, RenameInv
<1> QED
  BY <1>1, NextRename, InvariantHolds, TypeInvHolds, PlaceInvHolds, PTL DEF Spec

-----------------------------------------------------------------------------
(* Which versions reach a block                                            *)

LEMMA ReachesClosed ==
    ASSUME NEW p, NEW d \in Block
    PROVE  /\ d \in ReachesEnd(p, d)
           /\ \A x \in Block : SitesIn(p, x) = {} /\ ReachesEnd(p, d) \cap Preds(x) # {}
                 => x \in ReachesEnd(p, d)
<1>1. d \in ReachesEnd(p, d)
  BY DEF ReachesEnd, PassedOn
<1>2. ASSUME NEW x \in Block, SitesIn(p, x) = {}, ReachesEnd(p, d) \cap Preds(x) # {}
      PROVE  x \in ReachesEnd(p, d)
  <2> SUFFICES ASSUME NEW S \in SUBSET Block, PassedOn(p, d, S) \subseteq S
               PROVE  x \in S
    BY DEF ReachesEnd
  <2>1. ReachesEnd(p, d) \subseteq S
    BY DEF ReachesEnd
  <2>2. S \cap Preds(x) # {}
    BY <2>1, <1>2
  <2>3. x \in PassedOn(p, d, S)
    BY <2>2, <1>2 DEF PassedOn
  <2> QED
    BY <2>3
<1> QED
  BY <1>1, <1>2

LEMMA ReachesLeast ==
    ASSUME NEW p, NEW d \in Block, NEW S \in SUBSET Block, d \in S,
           \A x \in Block : SitesIn(p, x) = {} /\ S \cap Preds(x) # {} => x \in S
    PROVE  ReachesEnd(p, d) \subseteq S
<1>1. PassedOn(p, d, S) \subseteq S
  BY DEF PassedOn
<1> QED
  BY <1>1 DEF ReachesEnd

LEMMA ReachesFrom ==
    ASSUME NEW p, NEW d \in Block, NEW x \in ReachesEnd(p, d)
    PROVE  x = d \/ (SitesIn(p, x) = {} /\ ReachesEnd(p, d) \cap Preds(x) # {})
<1> DEFINE R == ReachesEnd(p, d)
           S == {d} \cup {y \in Block : SitesIn(p, y) = {} /\ R \cap Preds(y) # {}}
<1>1. S \subseteq R
  BY ReachesClosed
<1>2. S \in SUBSET Block /\ d \in S
  OBVIOUS
<1>3. ASSUME NEW y \in Block, SitesIn(p, y) = {}, S \cap Preds(y) # {}
      PROVE  y \in S
  <2>1. R \cap Preds(y) # {}
    BY <1>1, <1>3
  <2> QED
    BY <2>1, <1>3
<1>4. R \subseteq S
  <2> HIDE DEF S
  <2> QED
    BY <1>2, <1>3, ReachesLeast
<1> QED
  BY <1>4

LEMMA SitesAtEndIs ==
    ASSUME NEW p, NEW x \in Block, NEW v
    PROVE  v \in SitesAtEnd(p, x) <=> \E c \in Sources(p) : x \in ReachesEnd(p, c) /\ v = SiteOf(p, c)
<1>1. v \in SitesAtEnd(p, x) <=>
        \/ \E c \in Block : SitesIn(p, c) # {} /\ x \in ReachesEnd(p, c) /\ v = <<c, LastIn(p, c)>>
        \/ SitesIn(p, Entry) = {} /\ x \in ReachesEnd(p, Entry) /\ v = Version0
  BY DEF SitesAtEnd
<1>2. \A c \in Sources(p) : c \in Block /\ (SitesIn(p, c) # {} \/ c = Entry)
  BY BlockFinite DEF Sources, Sited
<1>3. \A c \in Block : SitesIn(p, c) # {} => c \in Sources(p) /\ SiteOf(p, c) = <<c, LastIn(p, c)>>
  BY DEF Sources, Sited, SiteOf
<1>4. Entry \in Sources(p) /\ (SitesIn(p, Entry) = {} => SiteOf(p, Entry) = Version0)
  BY DEF Sources, SiteOf, Version0
<1> QED
  BY <1>1, <1>2, <1>3, <1>4

\* The versions that arrive at a block.
Merged(p, b) == (UNION {SitesAtEnd(p, q) : q \in Preds(b)})
                \cup (IF b = Entry THEN {Version0} ELSE {})

LEMMA MergedIs ==
    ASSUME NEW p, NEW b, NEW v
    PROVE  v \in Merged(p, b) <=> (\E q \in Preds(b) : v \in SitesAtEnd(p, q)) \/ (b = Entry /\ v = Version0)
BY DEF Merged

LEMMA AtEndIs ==
    ASSUME NEW p, NEW x \in Block
    PROVE  SitesAtEnd(p, x) = IF SitesIn(p, x) # {} THEN {<<x, LastIn(p, x)>>} ELSE Merged(p, x)
<1>0. \A c \in Sources(p) : c \in Block
  BY BlockFinite DEF Sources, Sited
<1>1. CASE SitesIn(p, x) # {}
  <2>1. x \in Sources(p) /\ x \in ReachesEnd(p, x) /\ SiteOf(p, x) = <<x, LastIn(p, x)>>
    BY <1>1, ReachesClosed DEF Sources, Sited, SiteOf
  <2>2. \A c \in Sources(p) : x \in ReachesEnd(p, c) => c = x
    BY <1>0, <1>1, ReachesFrom
  <2>3. \A v : v \in SitesAtEnd(p, x) <=> v = <<x, LastIn(p, x)>>
    BY <2>1, <2>2, SitesAtEndIs
  <2> QED
    BY <1>1, <2>3
<1>2. CASE SitesIn(p, x) = {}
  <2>1. ASSUME NEW v \in SitesAtEnd(p, x)
        PROVE  v \in Merged(p, x)
    <3>1. PICK c \in Sources(p) : x \in ReachesEnd(p, c) /\ v = SiteOf(p, c)
      BY SitesAtEndIs
    <3>2. CASE x = c
      <4>1. x = Entry /\ v = Version0
        BY <3>1, <3>2, <1>2 DEF Sources, Sited, SiteOf, Version0
      <4> QED
        BY <4>1, MergedIs
    <3>3. CASE x # c
      <4>1. PICK q \in Preds(x) : q \in ReachesEnd(p, c)
        BY <3>1, <3>3, <1>0, ReachesFrom
      <4>2. q \in Block
        BY DEF Preds
      <4>3. v \in SitesAtEnd(p, q)
        BY <4>1, <4>2, <3>1, SitesAtEndIs
      <4> QED
        BY <4>3, MergedIs
    <3> QED
      BY <3>2, <3>3
  <2>2. ASSUME NEW v \in Merged(p, x)
        PROVE  v \in SitesAtEnd(p, x)
    <3>1. CASE x = Entry /\ v = Version0
      <4>1. Entry \in Sources(p) /\ x \in ReachesEnd(p, Entry) /\ v = SiteOf(p, Entry)
        BY <3>1, <1>2, ReachesClosed DEF Sources, SiteOf, Version0
      <4> QED
        BY <4>1, SitesAtEndIs
    <3>2. ASSUME NEW q \in Preds(x), v \in SitesAtEnd(p, q)
          PROVE  v \in SitesAtEnd(p, x)
      <4>1. q \in Block
        BY DEF Preds
      <4>2. PICK c \in Sources(p) : q \in ReachesEnd(p, c) /\ v = SiteOf(p, c)
        BY <4>1, <3>2, SitesAtEndIs
      <4>3. x \in ReachesEnd(p, c)
        BY <4>2, <3>2, <1>0, <1>2, ReachesClosed
      <4> QED
        BY <4>2, <4>3, SitesAtEndIs
    <3> QED
      BY <2>2, <3>1, <3>2, MergedIs
  <2> QED
    BY <1>2, <2>1, <2>2
<1> QED
  BY <1>1, <1>2

\* Some version reaches every block.
LEMMA SomeAtEnd ==
    ASSUME Graph, NEW p, NEW x \in Block
    PROVE  SitesAtEnd(p, x) # {}
<1> DEFINE S == {y \in Block : SitesAtEnd(p, y) # {}}
<1>1. ASSUME NEW y \in Block, y = Entry \/ S \cap Preds(y) # {}
      PROVE  y \in S
  <2>1. \E v : v \in Merged(p, y)
    <3>1. CASE y = Entry
      BY <3>1, MergedIs
    <3>2. CASE y # Entry
      <4>1. PICK q \in Preds(y) : SitesAtEnd(p, q) # {}
        BY <1>1, <3>2
      <4> QED
        BY <4>1, MergedIs
    <3> QED
      BY <3>1, <3>2
  <2> QED
    BY <2>1, AtEndIs
<1>2. S \in SUBSET Block /\ Entry \in S
  BY <1>1, BlockFinite
<1>3. ASSUME NEW y \in S, NEW s \in succ[y]
      PROVE  s \in S
  <2>1. s \in Block /\ y \in Preds(s)
    BY DEF Graph, Preds
  <2> QED
    BY <2>1, <1>1
<1>4. S = Block
  <2>1. \A y \in S : succ[y] \subseteq S
    BY <1>3
  <2> HIDE DEF S
  <2> QED
    BY <1>2, <2>1 DEF Graph, GraphInv
<1> QED
  BY <1>4

\* What arrives in front of a statement.
LEMMA SitesBeforeIs ==
    ASSUME NEW p, NEW b, NEW i
    PROVE  SitesBefore(p, b, i) = IF Above(p, b, i) # {} THEN {<<b, LastAmong(Above(p, b, i))>>}
                                  ELSE Merged(p, b)
BY DEF SitesBefore, Above, LastAmong, Merged

\* A read that nothing in its block precedes needs p at the beginning.
LEMMA ReadIsLive ==
    ASSUME LiveTypes, NEW p \in PR, NEW b \in Block, NEW i \in DOMAIN code[b],
           p \in code[b][i].reads, \A j \in Above(p, b, i) : j = 0
    PROVE  b \in LiveAt(p)
<1>1. DOMAIN code[b] = 1 .. Len(code[b]) /\ Len(code[b]) \in Nat
  BY DEF LiveTypes
<1>2. ASSUME NEW j \in 1 .. i - 1
      PROVE  p \notin code[b][j].writes
  <2> SUFFICES ASSUME p \in code[b][j].writes PROVE FALSE
    OBVIOUS
  <2>1. j \in DOMAIN code[b] /\ j < i /\ j # 0
    BY <1>1
  <2>2. j \in Above(p, b, i)
    BY <2>1 DEF Above, SitesIn, Writes
  <2> QED
    BY <2>1, <2>2
<1>3. p \in Use(b)
  BY <1>2 DEF Use
<1> QED
  BY <1>3, LiveAtClosed

\* What is live in a block is live at the end of its predecessors, and the
\* other way round where the block does not define it.
LEMMA LiveOutOfPreds ==
    ASSUME NEW p \in PR, NEW b \in LiveAt(p), NEW q \in Preds(b)
    PROVE  q \in LiveOut(p)
BY DEF LiveOut, Preds

LEMMA LiveThrough ==
    ASSUME LiveTypes, NEW p \in PR, NEW b \in LiveOut(p), SitesIn(p, b) = {}
    PROVE  b \in LiveAt(p)
<1>1. b \in Block /\ succ[b] \cap LiveAt(p) # {}
  BY DEF LiveOut
<1>2. Writes(p, b) = {}
  <2>1. \A i \in Writes(p, b) : i # 0
    BY <1>1, WritesAre
  <2> QED
    BY <2>1 DEF SitesIn
<1>3. p \notin Def(b)
  BY <1>1, <1>2, DefIs DEF DefBBs
<1> QED
  BY <1>1, <1>3, LiveAtClosed

-----------------------------------------------------------------------------
(* Dominance and the paths say the same                                    *)

\* Some predecessor is reached without the block.
LEMMA Entered ==
    ASSUME Graph, NEW b \in Block \ {Entry}
    PROVE  \E q \in Preds(b) : q \in Block /\ q # b /\ b \notin Doms(q)
<1> SUFFICES ASSUME \A q \in Preds(b) : q = b \/ b \in Doms(q) PROVE FALSE
  BY DEF Preds
<1>1. Without(b) \in SUBSET Block /\ Entry \in Without(b) /\ b \notin Without(b)
  BY WithoutIs
<1>2. ASSUME NEW c \in Without(b), NEW s \in succ[c]
      PROVE  s \in Without(b)
  <2>1. c \in Block /\ s \in Block
    BY <1>1 DEF Graph
  <2>2. c # b /\ b \notin Doms(c)
    BY <1>1, <2>1, DomsIs
  <2>3. s # b
    BY <2>1, <2>2 DEF Preds
  <2> QED
    BY <2>1, <2>3, WithoutClosed
<1>3. Without(b) = Block
  BY <1>1, <1>2 DEF Graph, GraphInv
<1> QED
  BY <1>1, <1>3

\* All PHIs of p are placed.
Settle(p) == /\ Graph /\ DomIs /\ InsideLive /\ LiveTypes /\ PhisInv(p)
             /\ defbbs[p] = {} /\ phi[p] \subseteq Block

LEMMA NearestGoesOn ==
    ASSUME NEW p \in PR, Settle(p), NEW b \in LiveAt(p) \ phi[p], NEW q \in Preds(b),
           Nearest(p, q) \in LiveOut(p)
    PROVE  /\ Nearest(p, q) \in Doms(b)
           /\ (Sources(p) \cap Doms(b)) \ {Nearest(p, q)} \subseteq Doms(Nearest(p, q))
<1>0. Graph /\ DomIs /\ InsideLive /\ LiveTypes /\ PhisInv(p) /\ defbbs[p] = {} /\ phi[p] \subseteq Block
  BY DEF Settle
<1>1. q \in Block /\ b \in Block /\ b # Entry
  BY <1>0 DEF Preds, LiveAt, Graph, GraphInv
<1>2. PICK c : c = Nearest(p, q)
  OBVIOUS
<1>3. c \in Around(p, q) /\ Around(p, q) \ {c} \subseteq Doms(c)
  BY <1>0, <1>1, <1>2, NearestIs
<1>4. c \in Block /\ c \in Sources(p) /\ c \in Doms(q) \cup {q}
  BY <1>1, <1>3, DomsBlock DEF Around
<1>5. c \in Doms(b)
  <2> SUFFICES ASSUME c \notin Doms(b) PROVE FALSE
    OBVIOUS
  <2>1. b \in DF(c)
    BY <1>0, <1>1, <1>4, InDF
  <2>2. c # Entry
    BY <1>0, <1>1, EntryDominates
  <2>3. c \in Sited(p) /\ c \in DefBBs(p) \cup phi[p]
    BY <1>0, <1>4, <2>2, SitedIs DEF Sources
  <2>4. p \in Def(c) \/ c \in FromInside(p)
    BY <1>0, <1>4, <2>3, DefIs DEF PhisInv
  <2>5. p \in liveout[c]
    BY <1>0, <1>2, <1>4, <2>2, <2>4 DEF InsideLive
  <2>6. DF(c) \subseteq phi[p]
    BY <1>0, <2>3, <2>5 DEF PhisInv
  <2> QED
    BY <2>1, <2>6
<1>6. ASSUME NEW e \in Sources(p) \cap Doms(b), e # c
      PROVE  e \in Doms(c)
  <2>1. e = q \/ e \in Doms(q)
    BY <1>0, <1>1, DomsOfPred
  <2> QED
    BY <1>3, <1>6, <2>1 DEF Around
<1> QED
  BY <1>2, <1>5, <1>6

LEMMA ReachesNearest ==
    ASSUME NEW p \in PR, Settle(p), NEW c \in Sources(p), NEW x \in ReachesEnd(p, c), x \in LiveOut(p)
    PROVE  c = Nearest(p, x) /\ c \in LiveOut(p)
<1>0. Graph /\ DomIs /\ InsideLive /\ LiveTypes /\ PhisInv(p) /\ defbbs[p] = {} /\ phi[p] \subseteq Block
  BY DEF Settle
<1> DEFINE T == {y \in Block : y \in LiveOut(p) => c = Nearest(p, y) /\ c \in LiveOut(p)}
<1>1. c \in Block /\ c \in T
  <2>1. c \in Block
    BY BlockFinite DEF Sources, Sited
  <2>2. c \in Around(p, c) /\ Around(p, c) \ {c} \subseteq Doms(c)
    BY DEF Around
  <2>3. c = Nearest(p, c)
    BY <1>0, <2>1, <2>2, NearestUnique
  <2> QED
    BY <2>1, <2>3
<1>2. ASSUME NEW y \in Block, SitesIn(p, y) = {}, T \cap Preds(y) # {}
      PROVE  y \in T
  <2> SUFFICES ASSUME y \in LiveOut(p) PROVE c = Nearest(p, y) /\ c \in LiveOut(p)
    OBVIOUS
  <2>1. PICK q \in Preds(y) : q \in T
    BY <1>2
  <2>2. y \in LiveAt(p) /\ y \notin phi[p] /\ y # Entry
    <3>1. y \in LiveAt(p)
      BY <1>0, <1>2, LiveThrough
    <3>2. y \notin phi[p]
      BY <1>2 DEF SitesIn
    <3> QED
      BY <1>0, <3>1, <3>2 DEF Preds, Graph, GraphInv
  <2>3. q \in LiveOut(p)
    BY <2>2, LiveOutOfPreds
  <2>4. c = Nearest(p, q) /\ c \in LiveOut(p)
    BY <2>1, <2>3
  <2>5. c \in Doms(y) /\ (Sources(p) \cap Doms(y)) \ {c} \subseteq Doms(c)
    BY <2>2, <2>4, NearestGoesOn
  <2>6. y \notin Sources(p)
    BY <1>2, <2>2 DEF Sources, Sited
  <2>7. c \in Around(p, y) /\ Around(p, y) \ {c} \subseteq Doms(c)
    BY <2>5, <2>6 DEF Around
  <2> QED
    BY <1>0, <2>4, <2>7, NearestUnique
<1>3. x \in T
  <2>1. T \in SUBSET Block
    OBVIOUS
  <2> HIDE DEF T
  <2>2. ReachesEnd(p, c) \subseteq T
    BY <1>1, <1>2, <2>1, ReachesLeast
  <2> QED
    BY <2>2
<1> QED
  BY <1>3

LEMMA EndIsEndSite ==
    ASSUME NEW p \in PR, Settle(p), NEW x \in LiveOut(p)
    PROVE  SitesAtEnd(p, x) = {EndSite(p, x)} /\ Nearest(p, x) \in LiveOut(p)
<1>0. Graph /\ x \in Block
  BY DEF Settle, LiveOut
<1>1. \A c \in Sources(p) : x \in ReachesEnd(p, c) => c = Nearest(p, x) /\ c \in LiveOut(p)
  BY ReachesNearest
<1>2. \A v \in SitesAtEnd(p, x) : v = EndSite(p, x) /\ Nearest(p, x) \in LiveOut(p)
  BY <1>0, <1>1, SitesAtEndIs DEF EndSite
<1>3. SitesAtEnd(p, x) # {}
  BY <1>0, SomeAtEnd
<1> QED
  BY <1>2, <1>3

LEMMA MergedIsBefore ==
    ASSUME NEW p \in PR, Settle(p), NEW b \in LiveAt(p) \ phi[p]
    PROVE  Merged(p, b) = {Before(p, b)}
<1>0. Graph /\ DomIs /\ b \in Block
  BY DEF Settle, LiveAt
<1>1. CASE b = Entry
  <2>1. Preds(b) = {}
    BY <1>0, <1>1 DEF Preds, Graph, GraphInv
  <2>2. \A v : v \in Merged(p, b) <=> v = Version0
    BY <1>1, <2>1, MergedIs
  <2> QED
    BY <1>1, <2>2 DEF Before
<1>2. CASE b # Entry
  <2>1. Idom(b) \in Block /\ Doms(b) = Doms(Idom(b)) \cup {Idom(b)}
    BY <1>0, <1>2, IdomIs
  <2>2. PICK a \in Block : a = Idom(b)
    BY <2>1
  <2>3. ASSUME NEW q \in Preds(b)
        PROVE  SitesAtEnd(p, q) = {Before(p, b)}
    <3>1. q \in LiveOut(p)
      BY LiveOutOfPreds
    <3>2. SitesAtEnd(p, q) = {EndSite(p, q)} /\ Nearest(p, q) \in LiveOut(p)
      BY <3>1, EndIsEndSite
    <3>3. PICK c : c = Nearest(p, q)
      OBVIOUS
    <3>4. c \in Doms(b) /\ (Sources(p) \cap Doms(b)) \ {c} \subseteq Doms(c)
      BY <3>2, <3>3, NearestGoesOn
    <3>5. c \in Sources(p)
      BY <1>0, <3>3, NearestIs DEF Around, Preds
    <3>6. c \in Around(p, a) /\ Around(p, a) \ {c} \subseteq Doms(c)
      BY <2>1, <2>2, <3>4, <3>5 DEF Around
    <3>7. c = Nearest(p, a)
      BY <1>0, <3>6, NearestUnique
    <3> QED
      BY <1>2, <2>2, <3>2, <3>3, <3>7 DEF Before, EndSite
  <2>4. Preds(b) # {}
    BY <1>0, <1>2, Entered
  <2>5. \A v : v \in Merged(p, b) <=> v = Before(p, b)
    BY <1>2, <2>3, <2>4, MergedIs
  <2> QED
    BY <2>5
<1> QED
  BY <1>1, <1>2

-----------------------------------------------------------------------------
(* What the walk has linked                                                *)

ReadSites(p, b, i) == {l.site : l \in {k \in link : k.pr = p /\ k.user = Reader(b, i)}}
OperandSites(p, b) == {<<l.user.from, l.site>> : l \in Operands(p, b)}

LEMMA LinkedReadsAre ==
    ASSUME TypeInv, LinkInv, renamed = Block, Graph, DomIs,
           NEW p \in PR, NEW b \in Block, NEW i \in DOMAIN code[b], p \in code[b][i].reads
    PROVE  ReadSites(p, b, i) = {ReadSite(p, b, i)}
<1>1. ReadLink(p, b, i) \in link
  <2>1. ReadSite(p, b, i) \in Sites
    <3>1. \A c \in Block : EndSite(p, c) \in Sites
      <4>1. ASSUME NEW c \in Block
            PROVE  EndSite(p, c) \in Sites
        <5>1. PICK d : d = Nearest(p, c)
          OBVIOUS
        <5>2. d \in Block /\ (SitesIn(p, d) # {} \/ d = Entry)
          BY <5>1, NearestIs, BlockFinite DEF Around, Sources, Sited
        <5> QED
          BY <5>1, <5>2, LastInIs, Version0IsSite DEF EndSite, SiteOf, TypeInv, Version0
      <4> QED
        BY <4>1
    <3>2. Before(p, b) \in Sites
      BY <3>1, Version0IsSite, IdomIs DEF Before, TypeInv
    <3> QED
      BY <3>2, LastAmongIs DEF ReadSite, TypeInv
  <2>2. Reader(b, i) \in Users
    BY DEF Reader, Users, User, TypeInv, LiveTypes
  <2>3. ReadLink(p, b, i) \in Links
    BY <2>1, <2>2 DEF ReadLink, Links
  <2> QED
    BY <2>3 DEF LinkInv, LinkedReads
<1>2. ASSUME NEW l \in link, l.pr = p, l.user = Reader(b, i)
      PROVE  l.site = ReadSite(p, b, i)
  <2>1. i # 0
    BY DEF TypeInv, LiveTypes
  <2>2. l \in Links
    BY DEF TypeInv, SSATypes
  <2>3. PICK c \in Block : l \in LinkedReads(c) \/ l \in LinkedOperands(c)
    BY <2>2 DEF LinkInv
  <2>4. l.user.i = i /\ l.user.bb = b
    BY <1>2 DEF Reader
  <2>5. CASE l \in LinkedReads(c)
    <3>1. PICK r \in PR, j \in Nat : l = ReadLink(r, c, j)
      BY <2>5 DEF LinkedReads, TypeInv, LiveTypes
    <3>2. l.pr = r /\ l.user = Reader(c, j) /\ l.site = ReadSite(r, c, j)
      BY <3>1 DEF ReadLink
    <3>3. r = p /\ c = b /\ j = i
      BY <1>2, <2>4, <3>2 DEF Reader
    <3> QED
      BY <3>2, <3>3
  <2>6. CASE l \in LinkedOperands(c)
    <3>1. PICK r \in PR, s \in Block : l = OperandLink(r, c, s)
      BY <2>6 DEF LinkedOperands, TypeInv, SSATypes
    <3>2. l.user = Operand(s, c)
      BY <3>1 DEF OperandLink
    <3> QED
      BY <2>1, <2>4, <3>2 DEF Operand
  <2> QED
    BY <2>3, <2>5, <2>6
<1>3. \A v : v \in ReadSites(p, b, i) <=> \E l \in link : l.pr = p /\ l.user = Reader(b, i) /\ v = l.site
  BY DEF ReadSites
<1>4. ReadLink(p, b, i).pr = p /\ ReadLink(p, b, i).user = Reader(b, i) /\ ReadLink(p, b, i).site = ReadSite(p, b, i)
  BY DEF ReadLink
<1>5. \A v : v \in ReadSites(p, b, i) <=> v = ReadSite(p, b, i)
  BY <1>1, <1>2, <1>3, <1>4
<1> QED
  BY <1>5

LEMMA LinkedOperandsAre ==
    ASSUME TypeInv, LinkInv, renamed = Block, Graph, DomIs, NEW p \in PR, NEW b \in phi[p]
    PROVE  /\ \A l \in Operands(p, b) : l.user.from \in Preds(b) /\ l.site = EndSite(p, l.user.from)
           /\ \A q \in Preds(b) : \E l \in Operands(p, b) : l.user.from = q /\ l.site = EndSite(p, q)
<1>0. b \in Block
  BY DEF TypeInv, SSATypes
<1>1. ASSUME NEW q \in Preds(b)
      PROVE  \E l \in Operands(p, b) : l.user.from = q /\ l.site = EndSite(p, q)
  <2>0. q \in Block /\ b \in succ[q] \cap phi[p]
    BY DEF Preds
  <2>1. EndSite(p, q) \in Sites
    <3>1. PICK d : d = Nearest(p, q)
      OBVIOUS
    <3>2. d \in Block /\ (SitesIn(p, d) # {} \/ d = Entry)
      BY <2>0, <3>1, NearestIs, BlockFinite DEF Around, Sources, Sited
    <3> QED
      BY <3>1, <3>2, LastInIs, Version0IsSite DEF EndSite, SiteOf, TypeInv, Version0
  <2>2. Operand(b, q) \in Users
    BY <1>0, <2>0 DEF Operand, Users, User, TypeInv, LiveTypes
  <2>3. OperandLink(p, q, b) \in Links
    BY <2>1, <2>2 DEF OperandLink, Links
  <2>4. OperandLink(p, q, b) \in link
    BY <2>0, <2>3 DEF LinkInv, LinkedOperands
  <2>5. PICK l \in link : l = OperandLink(p, q, b)
    BY <2>4
  <2>6. l.pr = p /\ l.site = EndSite(p, q) /\ l.user.bb = b /\ l.user.i = 0 /\ l.user.from = q
    BY <2>5 DEF OperandLink, Operand
  <2> QED
    BY <2>6 DEF Operands
<1>2. ASSUME NEW l \in Operands(p, b)
      PROVE  l.user.from \in Preds(b) /\ l.site = EndSite(p, l.user.from)
  <2>1. l \in link /\ l \in Links /\ l.pr = p /\ l.user.bb = b /\ l.user.i = 0
    BY DEF Operands, TypeInv, SSATypes
  <2>2. PICK c \in Block : l \in LinkedReads(c) \/ l \in LinkedOperands(c)
    BY <2>1 DEF LinkInv
  <2>3. CASE l \in LinkedReads(c)
    <3>1. PICK r \in PR, j \in Nat \ {0} : l = ReadLink(r, c, j)
      BY <2>3 DEF LinkedReads, TypeInv, LiveTypes
    <3>2. l.user = Reader(c, j)
      BY <3>1 DEF ReadLink
    <3> QED
      BY <2>1, <3>2 DEF Reader
  <2>4. CASE l \in LinkedOperands(c)
    <3>1. PICK r \in PR : \E s \in succ[c] \cap phi[r] : l = OperandLink(r, c, s)
      BY <2>4 DEF LinkedOperands
    <3>2. PICK s \in succ[c] \cap phi[r] : l = OperandLink(r, c, s)
      BY <3>1
    <3>3. l.pr = r /\ l.user = Operand(s, c) /\ l.site = EndSite(r, c)
      BY <3>2 DEF OperandLink
    <3>4. r = p /\ s = b /\ l.user.from = c
      BY <2>1, <3>3 DEF Operand
    <3> QED
      BY <3>2, <3>3, <3>4 DEF Preds
  <2> QED
    BY <2>2, <2>3, <2>4
<1> QED
  BY <1>1, <1>2

-----------------------------------------------------------------------------
(* No PHI is redundant when the construction is through                    *)

LEMMA OthersFinite ==
    ASSUME TypeInv, NEW p, NEW b
    PROVE  IsFiniteSet(Others(p, b))
<1>1. Operands(p, b) \subseteq link /\ link \subseteq Links
  BY DEF Operands, TypeInv, SSATypes
<1>2. IsFiniteSet(Operands(p, b))
  BY <1>1, LinksFinite, FS_Subset DEF TypeInv, LiveTypes
<1>3. PICK f : f = [l \in Operands(p, b) |-> l.site]
  OBVIOUS
<1>4. DOMAIN f = Operands(p, b) /\ \A t \in Others(p, b) : \E l \in Operands(p, b) : f[l] = t
  BY <1>3 DEF Others
<1> QED
  BY <1>2, <1>4, ImageFinite

\* Two of the versions that arrive at a PHI differ: one comes from the block
\* on whose account it was placed, one has not come through that.
LEMMA PhiMerges ==
    ASSUME TypeInv, LinkInv, renamed = Block, Graph, DomIs, NEW p \in PR, PhisInv(p),
           NEW b \in phi[p]
    PROVE  Cardinality(Others(p, b)) # 1
<1> SUFFICES ASSUME Cardinality(Others(p, b)) = 1 PROVE FALSE
  OBVIOUS
<1>0. LiveTypes /\ phi[p] \subseteq Block /\ b \in Block /\ b # Entry
  BY DEF TypeInv, SSATypes, PhisInv
<1>1. PICK d : Others(p, b) = {d}
  BY OthersFinite, FS_Singleton
<1>2. ASSUME NEW q \in Preds(b)
      PROVE  EndSite(p, q) = d \/ EndSite(p, q) = <<b, 0>>
  <2>1. PICK l \in Operands(p, b) : l.site = EndSite(p, q)
    BY LinkedOperandsAre
  <2> QED
    BY <1>1, <2>1 DEF Others
<1>3. PICK x \in DefBBs(p) \cup (phi[p] \ {b}) : b \in DF(x)
  BY DEF PhisInv
<1>4. x \in Block /\ x \in Sited(p)
  BY <1>0, <1>3, SitedIs DEF DefBBs
<1>5. PICK q \in Preds(b) : x \in Doms(q) \cup {q} /\ x \notin Doms(b)
  BY <1>0, <1>3, <1>4, InDF
<1>6. q \in Block
  BY DEF Preds
<1>7. PICK c : c = Nearest(p, q)
  OBVIOUS
<1>8. c \in Around(p, q) /\ Around(p, q) \ {c} \subseteq Doms(c)
  BY <1>6, <1>7, NearestIs
<1>9. c \in Block /\ c \in Sources(p)
  BY <1>6, <1>8, DomsBlock DEF Around
<1>10. x = c \/ x \in Doms(c)
  BY <1>4, <1>5, <1>8 DEF Around, Sources
<1>11. c \notin Doms(b) /\ c # Entry
  <2>1. c \notin Doms(b)
    BY <1>0, <1>5, <1>10, DomsTransitive
  <2> QED
    BY <1>0, <2>1, EntryDominates
<1>12. SitesIn(p, c) # {} /\ EndSite(p, q) = <<c, LastIn(p, c)>>
  BY <1>7, <1>9, <1>11 DEF Sources, Sited, EndSite, SiteOf
<1>13. d = <<c, LastIn(p, c)>>
  <2> SUFFICES ASSUME c = b, LastIn(p, c) = 0 PROVE FALSE
    BY <1>2, <1>12
  <2>1. x = b /\ x \in DefBBs(p)
    BY <1>3, <1>5, <1>10
  <2>2. PICK i \in Writes(p, b) : i \in Nat \ {0}
    BY <1>0, <2>1, WritesAre DEF DefBBs
  <2>3. i \in SitesIn(p, c)
    BY <2>2 DEF SitesIn
  <2>4. i <= LastIn(p, c)
    BY <1>0, <1>9, <1>12, <2>3, LastInIs
  <2> QED
    BY <2>2, <2>4
<1>14. ASSUME NEW r \in Preds(b)
       PROVE  c \in Doms(r) \cup {r} \/ b \in Doms(r) \cup {r}
  <2>1. EndSite(p, r)[1] \in Doms(r) \cup {r}
    BY EndSiteOf DEF Preds
  <2> QED
    BY <1>2, <1>13, <2>1
<1>15. CASE c = b
  BY <1>0, <1>14, <1>15, Entered
<1>16. CASE c # b
  BY <1>0, <1>9, <1>11, <1>14, <1>16, DomsFromPreds
<1> QED
  BY <1>15, <1>16

\* refinePhi finds nothing to do as long as no edge has been dropped.
MergeInv == pc \in {"refine", "built"} /\ drops = 0 =>
                \A p \in PR : \A b \in phi[p] : ~Redundant(p, b)

LEMMA RedundantStays ==
    ASSUME phi' = phi, link' = link
    PROVE  \A p, b : Redundant(p, b)' = Redundant(p, b)
<1>1. \A p, b : Operands(p, b)' = Operands(p, b) /\ Uses(p, b)' = Uses(p, b)
  BY DEF Operands, Uses
<1>2. \A p, b : Others(p, b)' = Others(p, b)
  BY <1>1 DEF Others
<1> QED
  BY <1>1, <1>2 DEF Redundant

\* A turn that finds nothing redundant leaves the form as it is.
LEMMA NothingGone ==
    ASSUME TypeInv, RefineBB, \A p \in PR : \A b \in phi[p] : ~Redundant(p, b)
    PROVE  phi' = phi /\ link' = link
<1>1. PICK b : b = Head(work)
  OBVIOUS
<1>2. {p \in PR : Redundant(p, b)} = {}
  BY DEF Redundant
<1>3. phi' = [p \in PR |-> phi[p]]
  BY <1>1, <1>2 DEF RefineBB
<1>4. phi' = phi
  BY <1>3 DEF TypeInv, SSATypes
<1>5. link' = UNION {{l \in link : l.pr = p} : p \in PR}
  BY <1>1, <1>2 DEF RefineBB
<1>6. \A l \in link : l.pr \in PR
  BY DEF TypeInv, SSATypes, Links
<1>7. \A l : l \in link' <=> l \in link
  BY <1>5, <1>6
<1> QED
  BY <1>4, <1>7

LEMMA NextMerge == IInv /\ TypeInv /\ PlaceInv /\ RenameInv /\ MergeInv /\ [Next]_vars => MergeInv'
<1> SUFFICES ASSUME IInv, TypeInv, PlaceInv, RenameInv, MergeInv, [Next]_vars PROVE MergeInv'
  OBVIOUS
<1>1. CASE LiveNext /\ UNCHANGED ssaVars
  <2>1. pc' \notin {"refine", "built"}
    BY <1>1 DEF LiveNext, Perform, SweepBB, SweepAgain, Solved, NothingRedundant, Eliminate,
       FadeBB, FadeAgain, Faded
  <2> QED
    BY <2>1 DEF MergeInv
<1>2. CASE InitMapInfo \/ PlacePhi \/ InitVPRStack
  <2>1. pc' \notin {"refine", "built"}
    BY <1>2 DEF InitMapInfo, PlacePhi, InitVPRStack, liveVars
  <2> QED
    BY <2>1 DEF MergeInv
<1>3. CASE (\E b \in Block : VisitBB(b)) \/ LeaveBB
  <2>1. pc' \notin {"refine", "built"}
    BY <1>3 DEF VisitBB, LeaveBB, liveVars
  <2> QED
    BY <2>1 DEF MergeInv
<1>4. CASE StartRefine
  <2>1. pc = "rename" /\ renamed = Block /\ phi' = phi /\ link' = link
    BY <1>4 DEF StartRefine
  <2>2. Graph /\ DomIs /\ LinkInv /\ \A p \in PR : PhisInv(p)
    BY <2>1 DEF IInv, Types, Graph, PlaceInv, RenameInv
  <2>3. \A p \in PR : \A b \in phi[p] : ~Redundant(p, b)
    BY <2>1, <2>2, PhiMerges DEF Redundant
  <2> QED
    BY <2>1, <2>3, RedundantStays DEF MergeInv
<1>5. CASE RefineBB
  <2>1. pc = "refine" /\ drops' = drops
    BY <1>5 DEF RefineBB
  <2> QED
    BY <1>5, <2>1, NothingGone, RedundantStays DEF MergeInv
<1>6. CASE RefineDone
  <2>1. pc = "refine" /\ drops' = drops /\ phi' = phi /\ link' = link
    BY <1>6 DEF RefineDone, ssaVars
  <2> QED
    BY <2>1, RedundantStays DEF MergeInv
<1>7. CASE \E b \in Block : \E s \in succ[b] : DropEdge(b, s)
  <2>1. drops' # 0
    BY <1>7 DEF DropEdge, TypeInv, SSATypes
  <2> QED
    BY <2>1 DEF MergeInv
<1>8. CASE UNCHANGED vars
  <2>1. pc' = pc /\ drops' = drops /\ phi' = phi /\ link' = link
    BY <1>8 DEF vars, liveVars, ssaVars
  <2> QED
    BY <2>1, RedundantStays DEF MergeInv
<1> QED
  BY <1>1, <1>2, <1>3, <1>4, <1>5, <1>6, <1>7, <1>8 DEF Next, Done

\* placePhiForPR, pruned by liveness, places no PHI in vain: when the first
\* refinement (refinePhi) starts and when it ends, no PHI is one that it would
\* take away, for the operands of each name two versions.
THEOREM PhisDoMerge == Spec => []PhisMerge
<1>1. SSAInit => MergeInv
  BY DEF SSAInit, LiveInit, MergeInv
<1>2. MergeInv => PhisMerge
  BY DEF MergeInv, PhisMerge
<1> QED
  BY <1>1, <1>2, NextMerge, InvariantHolds, TypeInvHolds, PlaceInvHolds, RenameInvHolds, PTL DEF Spec

-----------------------------------------------------------------------------
(* Once built, every user sees what the paths bring: the invariant         *)

\* What the operands of b's PHI have to be.
Arriving(p, b) == UNION {{<<q, d>> : d \in SitesAtEnd(p, q)} : q \in Preds(b)}

\* Where p is live and has no PHI, one version arrives.
OneArrives(p) == \A b \in LiveAt(p) \ phi[p] : \E d : Merged(p, b) = {d}
\* Reads and operands are linked with what the paths bring.
ReadsAre(p) == \A b \in Block : \A i \in DOMAIN code[b] :
                 p \in code[b][i].reads => ReadSites(p, b, i) = SitesBefore(p, b, i)
OperandsAre(p) == \A b \in phi[p] : b \in LiveAt(p) => OperandSites(p, b) = Arriving(p, b)

BuiltAt(p) == /\ Entry \notin phi[p]
              /\ OneArrives(p) /\ ReadsAre(p) /\ OperandsAre(p)

\* After each step of refinePhi and each edge dropped, if both data flows settled.
BuiltInv == Built /\ ~change /\ ~differs => \A p \in PR : BuiltAt(p)

LEMMA ArrivingIs ==
    ASSUME NEW p, NEW b, NEW v
    PROVE  v \in Arriving(p, b) <=> \E q \in Preds(b) : \E d \in SitesAtEnd(p, q) : v = <<q, d>>
BY DEF Arriving

LEMMA OperandSitesIs ==
    ASSUME NEW p, NEW b, NEW v
    PROVE  v \in OperandSites(p, b) <=> \E l \in Operands(p, b) : v = <<l.user.from, l.site>>
BY DEF OperandSites

\* A read that its own block does not precede with a definition or a PHI is
\* in front of all statements, the others are not.
LEMMA AboveNone ==
    ASSUME LiveTypes, NEW p \in PR, NEW b \in Block, NEW i \in DOMAIN code[b],
           p \in code[b][i].reads, Above(p, b, i) = {}
    PROVE  b \in LiveAt(p) /\ b \notin phi[p]
<1>1. i \in Nat \ {0}
  BY DEF LiveTypes
<1>2. b \notin phi[p]
  <2> SUFFICES ASSUME b \in phi[p] PROVE FALSE
    OBVIOUS
  <2>1. 0 \in SitesIn(p, b)
    BY DEF SitesIn
  <2> QED
    BY <1>1, <2>1 DEF Above
<1> QED
  BY <1>2, ReadIsLive

LEMMA StartBuilt ==
    ASSUME TypeInv, LinkInv, renamed = Block, NEW p \in PR, Settle(p)
    PROVE  BuiltAt(p)
<1>0. /\ Graph /\ DomIs /\ InsideLive /\ LiveTypes /\ PhisInv(p) /\ defbbs[p] = {}
      /\ phi[p] \subseteq Block
  BY DEF Settle
<1>1. Entry \notin phi[p]
  BY <1>0 DEF PhisInv
<1>2. OneArrives(p)
  BY MergedIsBefore DEF OneArrives
<1>3. ReadsAre(p)
  <2> SUFFICES ASSUME NEW b \in Block, NEW i \in DOMAIN code[b], p \in code[b][i].reads
               PROVE  ReadSites(p, b, i) = SitesBefore(p, b, i)
    BY DEF ReadsAre
  <2>1. ReadSites(p, b, i) = {ReadSite(p, b, i)}
    BY <1>0, LinkedReadsAre
  <2>2. CASE Above(p, b, i) # {}
    BY <2>1, <2>2, SitesBeforeIs DEF ReadSite
  <2>3. CASE Above(p, b, i) = {}
    <3>1. b \in LiveAt(p) \ phi[p]
      BY <1>0, <2>3, AboveNone
    <3>2. Merged(p, b) = {Before(p, b)}
      BY <3>1, MergedIsBefore
    <3> QED
      BY <2>1, <2>3, <3>2, SitesBeforeIs DEF ReadSite
  <2> QED
    BY <2>2, <2>3
<1>4. OperandsAre(p)
  <2> SUFFICES ASSUME NEW b \in phi[p], b \in LiveAt(p)
               PROVE  OperandSites(p, b) = Arriving(p, b)
    BY DEF OperandsAre
  <2>1. \A q \in Preds(b) : SitesAtEnd(p, q) = {EndSite(p, q)}
    BY LiveOutOfPreds, EndIsEndSite
  <2>2. /\ \A l \in Operands(p, b) : l.user.from \in Preds(b) /\ l.site = EndSite(p, l.user.from)
        /\ \A q \in Preds(b) : \E l \in Operands(p, b) : l.user.from = q /\ l.site = EndSite(p, q)
    BY <1>0, LinkedOperandsAre
  <2>3. ASSUME NEW v \in OperandSites(p, b)
        PROVE  v \in Arriving(p, b)
    <3>1. PICK l \in Operands(p, b) : v = <<l.user.from, l.site>>
      BY OperandSitesIs
    <3>2. l.user.from \in Preds(b) /\ l.site \in SitesAtEnd(p, l.user.from)
      BY <2>1, <2>2
    <3> QED
      BY <3>1, <3>2, ArrivingIs
  <2>4. ASSUME NEW v \in Arriving(p, b)
        PROVE  v \in OperandSites(p, b)
    <3>1. PICK q \in Preds(b) : \E d \in SitesAtEnd(p, q) : v = <<q, d>>
      BY ArrivingIs
    <3>2. v = <<q, EndSite(p, q)>>
      BY <2>1, <3>1
    <3> QED
      BY <2>2, <3>2, OperandSitesIs
  <2> QED
    BY <2>3, <2>4
<1> QED
  BY <1>1, <1>2, <1>3, <1>4 DEF BuiltAt

LEMMA StartRefineBuilt ==
    ASSUME IInv, TypeInv, PlaceInv, RenameInv, pc = "rename", renamed = Block, ~change, ~differs
    PROVE  \A p \in PR : BuiltAt(p)
<1>1. Graph /\ LinkInv /\ LiveTypes /\ DomIs /\ InsideLive
  BY DEF IInv, Types, Graph, RenameInv, TypeInv, PlaceInv
<1>2. ASSUME NEW p \in PR
      PROVE  BuiltAt(p)
  <2>1. Settle(p)
    BY <1>1 DEF Settle, PlaceInv, TypeInv, SSATypes
  <2> QED
    BY <1>1, <2>1, StartBuilt
<1> QED
  BY <1>2

-----------------------------------------------------------------------------
(* What the paths bring, before a step and after it                        *)

LinksOf(p) == {l \in link : l.pr = p}

\* What the definitions over paths mean, each fact by itself, so that it can be
\* used of the state after a step as well as before it: how far a definition
\* reaches (closed, and the least such set), what is at the end of a block, in
\* front of it and in front of a statement, and what is linked there.
ReachFact ==
    \A p : \A d \in Block :
        /\ d \in ReachesEnd(p, d)
        /\ \A S \in SUBSET Block :
             /\ d \in S
             /\ \A x \in Block : SitesIn(p, x) = {} /\ S \cap Preds(x) # {} => x \in S
             => ReachesEnd(p, d) \subseteq S
EndFact ==
    \A p : \A x \in Block : \A v :
        v \in SitesAtEnd(p, x) <=> \E c \in Sources(p) : x \in ReachesEnd(p, c) /\ v = SiteOf(p, c)
AtEndFact ==
    \A p : \A x \in Block :
        SitesAtEnd(p, x) = IF SitesIn(p, x) # {} THEN {<<x, LastIn(p, x)>>} ELSE Merged(p, x)
MergedFact ==
    \A p : \A x : \A v :
        v \in Merged(p, x) <=> (\E q \in Preds(x) : v \in SitesAtEnd(p, q)) \/ (x = Entry /\ v = Version0)
BeforeFact ==
    \A p : \A x : \A i :
        SitesBefore(p, x, i) = IF Above(p, x, i) # {} THEN {<<x, LastAmong(Above(p, x, i))>>}
                               ELSE Merged(p, x)
SomeFact == Graph => \A p : \A x \in Block : SitesAtEnd(p, x) # {}
OperandsFact ==
    \A p : \A b : \A v :
        v \in OperandSites(p, b) <=>
          \E l \in LinksOf(p) : l.user.bb = b /\ l.user.i = 0 /\ v = <<l.user.from, l.site>>
ReadsFact ==
    \A p : \A b : \A i : \A v :
        v \in ReadSites(p, b, i) <=> \E l \in LinksOf(p) : l.user = Reader(b, i) /\ v = l.site
ArrivingFact ==
    \A p : \A b : \A v :
        v \in Arriving(p, b) <=> \E q \in Preds(b) : \E d \in SitesAtEnd(p, q) : v = <<q, d>>
PathFacts == /\ ReachFact /\ EndFact /\ AtEndFact /\ MergedFact /\ BeforeFact /\ SomeFact
             /\ OperandsFact /\ ReadsFact /\ ArrivingFact

LEMMA PathsAre == PathFacts
<1>1. ReachFact
  BY ReachesClosed, ReachesLeast DEF ReachFact
<1>2. EndFact
  BY SitesAtEndIs DEF EndFact
<1>3. AtEndFact
  BY AtEndIs DEF AtEndFact
<1>4. MergedFact
  BY MergedIs DEF MergedFact
<1>5. BeforeFact
  BY SitesBeforeIs DEF BeforeFact
<1>6. SomeFact
  BY SomeAtEnd DEF SomeFact
<1>7. OperandsFact
  <2>1. \A p, b : Operands(p, b) = {l \in LinksOf(p) : l.user.bb = b /\ l.user.i = 0}
    BY DEF Operands, LinksOf
  <2>2. \A p, b, v : v \in OperandSites(p, b) <=>
          \E l \in LinksOf(p) : l.user.bb = b /\ l.user.i = 0 /\ v = <<l.user.from, l.site>>
    BY <2>1, OperandSitesIs
  <2> QED
    BY <2>2 DEF OperandsFact
<1>8. ReadsFact
  <2>1. \A p, b, i, v : v \in ReadSites(p, b, i) <=> \E l \in LinksOf(p) : l.user = Reader(b, i) /\ v = l.site
    BY DEF ReadSites, LinksOf
  <2> QED
    BY <2>1 DEF ReadsFact
<1>9. ArrivingFact
  BY ArrivingIs DEF ArrivingFact
<1> QED
  BY <1>1, <1>2, <1>3, <1>4, <1>5, <1>6, <1>7, <1>8, <1>9 DEF PathFacts

LEMMA PathsAreNext == PathFacts'
BY PathsAre, PTL

-----------------------------------------------------------------------------
(* A PHI of p goes: what the paths bring then                              *)

Moved(b, d, v) == IF v = <<b, 0>> THEN d ELSE v

\* refinePhi takes p's PHI away from b, its uses go to d.
Gone(p, b, d) ==
    /\ Graph /\ LiveTypes /\ phi[p] \subseteq Block /\ BuiltAt(p)
    /\ b \in phi[p] /\ Others(p, b) = {d}
    /\ LinksOf(p) \subseteq Links
    /\ succ' = succ /\ code' = code /\ phi'[p] = phi[p] \ {b}
    /\ \A l : l \in LinksOf(p)' <=>
         \E k \in LinksOf(p) \ Operands(p, b) :
            l = IF k.site = <<b, 0>> THEN [k EXCEPT !.site = d] ELSE k

LEMMA GoneSites ==
    ASSUME NEW p \in PR, NEW b, NEW d, Gone(p, b, d)
    PROVE  /\ b \in Block /\ b # Entry /\ d # <<b, 0>>
           /\ SitesIn(p, b) = Writes(p, b) \cup {0} /\ SitesIn(p, b)' = Writes(p, b)
           /\ \A x \in Block : Preds(x)' = Preds(x)
           /\ \A x \in Block \ {b} : SitesIn(p, x)' = SitesIn(p, x)
<1>1. b \in Block /\ b # Entry /\ d # <<b, 0>>
  BY DEF Gone, BuiltAt, Others
<1>2. 0 \notin Writes(p, b)
  BY <1>1, WritesAre DEF Gone
<1>3. \A x : Writes(p, x)' = Writes(p, x) /\ Preds(x)' = Preds(x)
  BY DEF Gone, Writes, Preds
<1>4. b \in phi[p] /\ phi'[p] = phi[p] \ {b}
  BY DEF Gone
<1>5. SitesIn(p, b) = Writes(p, b) \cup {0}
  BY <1>2, <1>4 DEF SitesIn
<1>6. SitesIn(p, b)' = Writes(p, b)
  <2>1. SitesIn(p, b)' = {i \in Writes(p, b) \cup {0} : i = 0 => b \in phi'[p]}
    BY <1>3 DEF SitesIn
  <2> QED
    BY <2>1, <1>2, <1>4
<1>7. ASSUME NEW x \in Block \ {b}
      PROVE  SitesIn(p, x)' = SitesIn(p, x)
  <2>1. SitesIn(p, x)' = {i \in Writes(p, x) \cup {0} : i = 0 => x \in phi'[p]}
    BY <1>3 DEF SitesIn
  <2>2. x \in phi'[p] <=> x \in phi[p]
    BY <1>4
  <2> QED
    BY <2>1, <2>2 DEF SitesIn
<1> QED
  BY <1>1, <1>3, <1>5, <1>6, <1>7

LEMMA LastWithZero ==
    ASSUME NEW W \in SUBSET Nat, IsFiniteSet(W), W # {}, 0 \notin W
    PROVE  LastAmong(W \cup {0}) = LastAmong(W) /\ LastAmong(W) # 0
<1>1. LastAmong(W) \in W /\ \A k \in W : k <= LastAmong(W)
  BY LastOf DEF LastAmong
<1>2. LastAmong(W \cup {0}) \in W \cup {0} /\ \A k \in W \cup {0} : k <= LastAmong(W \cup {0})
  <2>1. W \cup {0} \in SUBSET Nat /\ IsFiniteSet(W \cup {0}) /\ W \cup {0} # {}
    BY FS_AddElement
  <2> HIDE DEF LastAmong
  <2>2. PICK V : V = W \cup {0}
    OBVIOUS
  <2>3. LastAmong(V) \in V /\ \A k \in V : k <= LastAmong(V)
    BY <2>1, <2>2, LastOf DEF LastAmong
  <2> QED
    BY <2>2, <2>3
<1> HIDE DEF LastAmong
<1>3. PICK m : m = LastAmong(W \cup {0})
  OBVIOUS
<1>4. PICK n : n = LastAmong(W)
  OBVIOUS
<1>5. n \in W /\ n \in Nat \ {0} /\ (\A k \in W : k <= n)
  BY <1>1, <1>4
<1>6. m \in W \cup {0}
  BY <1>2, <1>3
<1>7. \A k \in W : k <= m
  BY <1>2, <1>3
<1>8. n <= m /\ m \in Nat
  BY <1>5, <1>6, <1>7
<1>9. m <= n
  BY <1>5, <1>6, <1>8
<1> QED
  BY <1>3, <1>4, <1>5, <1>8, <1>9

LEMMA GoneLast ==
    ASSUME NEW p \in PR, NEW b, NEW d, Gone(p, b, d)
    PROVE  /\ \A x \in Block \ {b} : LastIn(p, x)' = LastIn(p, x) /\ SiteOf(p, x)' = SiteOf(p, x)
           /\ Writes(p, b) # {} => LastIn(p, b)' = LastIn(p, b) /\ SiteOf(p, b)' = SiteOf(p, b)
                                   /\ SiteOf(p, b) # <<b, 0>>
           /\ Writes(p, b) = {} => SiteOf(p, b) = <<b, 0>>
<1>0. /\ b \in Block /\ b # Entry /\ d # <<b, 0>>
      /\ SitesIn(p, b) = Writes(p, b) \cup {0} /\ SitesIn(p, b)' = Writes(p, b)
      /\ \A x \in Block \ {b} : SitesIn(p, x)' = SitesIn(p, x)
      /\ LiveTypes
  BY GoneSites DEF Gone
<1>1. ASSUME NEW x \in Block \ {b}
      PROVE  LastIn(p, x)' = LastIn(p, x) /\ SiteOf(p, x)' = SiteOf(p, x)
  <2>1. LastIn(p, x)' = LastIn(p, x)
    BY <1>0 DEF LastIn
  <2> QED
    BY <1>0, <2>1 DEF SiteOf
<1>2. ASSUME Writes(p, b) # {}
      PROVE  /\ LastIn(p, b)' = LastIn(p, b) /\ SiteOf(p, b)' = SiteOf(p, b)
             /\ SiteOf(p, b) # <<b, 0>>
  <2>1. PICK W : W = Writes(p, b)
    OBVIOUS
  <2>2. W \in SUBSET Nat /\ IsFiniteSet(W) /\ W # {} /\ 0 \notin W
    <3>1. SitesIn(p, b) \in SUBSET Nat /\ IsFiniteSet(SitesIn(p, b))
      BY <1>0, SitesAre
    <3>2. IsFiniteSet(W)
      BY <3>1, <1>0, <2>1, FS_Subset
    <3> QED
      BY <3>2, <1>0, <1>2, <2>1, WritesAre
  <2>3. LastIn(p, b)' = LastAmong(W)
    BY <1>0, <2>1 DEF LastIn, LastAmong
  <2>4. LastIn(p, b) = LastAmong(W \cup {0})
    BY <1>0, <2>1 DEF LastIn, LastAmong
  <2>6. LastIn(p, b) = LastAmong(W) /\ LastIn(p, b) # 0
    BY <2>2, <2>4, LastWithZero
  <2>7. SitesIn(p, b) # {} /\ SitesIn(p, b)' # {}
    BY <1>0, <1>2
  <2>8. LastIn(p, b)' = LastIn(p, b)
    BY <2>3, <2>6
  <2> QED
    BY <2>6, <2>7, <2>8 DEF SiteOf
<1>3. ASSUME Writes(p, b) = {}
      PROVE  SiteOf(p, b) = <<b, 0>>
  <2>1. SitesIn(p, b) = {0}
    BY <1>0, <1>3
  <2>2. LastIn(p, b) = 0
    BY <1>0, <2>1, LastInIs
  <2> QED
    BY <2>1, <2>2 DEF SiteOf
<1> QED
  BY <1>1, <1>2, <1>3

\* Version 0 and the other sites of p are not the PHI's.
LEMMA SiteOfBlock ==
    ASSUME NEW p, NEW c
    PROVE  SiteOf(p, c)[1] = c
BY DEF SiteOf

\* What arrives at the PHI's block, when its value is wanted, is d, or comes
\* round from the PHI.
LEMMA GoneArrives ==
    ASSUME NEW p \in PR, NEW b, NEW d, Gone(p, b, d), b \in LiveAt(p)
    PROVE  /\ \A q \in Preds(b) : SitesAtEnd(p, q) \subseteq {d, <<b, 0>>}
           /\ \E q \in Preds(b) : d \in SitesAtEnd(p, q)
<1>1. OperandSites(p, b) = Arriving(p, b)
  BY DEF Gone, BuiltAt, OperandsAre
<1>2. \A v : v \in Others(p, b) <=> v # <<b, 0>> /\ \E l \in Operands(p, b) : v = l.site
  BY DEF Others
<1>3. Others(p, b) = {d}
  BY DEF Gone
<1>4. ASSUME NEW q \in Preds(b), NEW v \in SitesAtEnd(p, q)
      PROVE  v \in {d, <<b, 0>>}
  <2>1. <<q, v>> \in OperandSites(p, b)
    BY <1>1, ArrivingIs
  <2>2. PICK l \in Operands(p, b) : <<q, v>> = <<l.user.from, l.site>>
    BY <2>1, OperandSitesIs
  <2>3. v = l.site
    BY <2>2
  <2> QED
    BY <1>2, <1>3, <2>3
<1>5. PICK l \in Operands(p, b) : d = l.site
  BY <1>2, <1>3
<1>6. <<l.user.from, d>> \in Arriving(p, b)
  BY <1>1, <1>5, OperandSitesIs
<1>7. PICK q \in Preds(b) : \E e \in SitesAtEnd(p, q) : <<l.user.from, d>> = <<q, e>>
  BY <1>6, ArrivingIs
<1>8. d \in SitesAtEnd(p, q)
  BY <1>7
<1> QED
  BY <1>4, <1>8

\* A value that is not wanted in a block that only hands it on is not wanted
\* anywhere it goes from there.
LEMMA DeadGoesNowhere ==
    ASSUME LiveTypes, NEW p \in PR, NEW b \in Block, Writes(p, b) = {}, b \notin LiveAt(p),
           NEW x \in ReachesEnd(p, b)
    PROVE  x \notin LiveOut(p)
<1> DEFINE T == {y \in Block : y \notin LiveOut(p)}
<1>1. b \in T
  <2> SUFFICES ASSUME b \in LiveOut(p) PROVE FALSE
    OBVIOUS
  <2>1. p \notin Def(b)
    BY DefIs DEF DefBBs
  <2> QED
    BY <2>1, LiveAtClosed DEF LiveOut
<1>2. ASSUME NEW y \in Block, SitesIn(p, y) = {}, T \cap Preds(y) # {}
      PROVE  y \in T
  <2> SUFFICES ASSUME y \in LiveOut(p) PROVE FALSE
    OBVIOUS
  <2>1. y \in LiveAt(p)
    BY <1>2, LiveThrough
  <2> QED
    BY <1>2, <2>1, LiveOutOfPreds
<1>3. T \in SUBSET Block
  OBVIOUS
<1> HIDE DEF T
<1>4. ReachesEnd(p, b) \subseteq T
  BY <1>1, <1>2, <1>3, ReachesLeast
<1> QED
  BY <1>4 DEF T

\* The block defines p after the PHI: nothing changes at the end of a block.
LEMMA GoneWritten ==
    ASSUME NEW p \in PR, NEW b, NEW d, Gone(p, b, d), Writes(p, b) # {}
    PROVE  \A x \in Block : /\ SitesAtEnd(p, x)' = SitesAtEnd(p, x)
                            /\ <<b, 0>> \notin SitesAtEnd(p, x)
<1>0. /\ b \in Block /\ b # Entry
      /\ SitesIn(p, b) # {} /\ SitesIn(p, b)' # {}
      /\ \A x \in Block : Preds(x)' = Preds(x)
      /\ \A x \in Block \ {b} : SitesIn(p, x)' = SitesIn(p, x)
  BY GoneSites
<1>1. \A x \in Block : SiteOf(p, x)' = SiteOf(p, x) /\ SiteOf(p, x) # <<b, 0>>
  <2>1. \A x \in Block \ {b} : SiteOf(p, x) # <<b, 0>>
    <3>1. \A x \in Block : SiteOf(p, x)[1] = x
      BY SiteOfBlock
    <3> QED
      BY <3>1
  <2> QED
    BY <2>1, GoneLast
<1>2. \A x \in Block : SitesIn(p, x)' = {} <=> SitesIn(p, x) = {}
  BY <1>0
<1>3. \A c \in Block : \A S : PassedOn(p, c, S)' = PassedOn(p, c, S)
  BY <1>0, <1>2 DEF PassedOn
<1>4. \A c \in Block : ReachesEnd(p, c)' = ReachesEnd(p, c)
  BY <1>3 DEF ReachesEnd
<1>5. Sources(p)' = Sources(p)
  BY <1>2 DEF Sources, Sited
<1>6. \A c \in Sources(p) : c \in Block
  BY BlockFinite DEF Sources, Sited
<1>7. EndFact /\ EndFact'
  BY PathsAre, PathsAreNext DEF PathFacts
<1>8. ASSUME NEW x \in Block, NEW v
      PROVE  /\ v \in SitesAtEnd(p, x)' <=> v \in SitesAtEnd(p, x)
             /\ v \in SitesAtEnd(p, x) => v # <<b, 0>>
  <2>1. v \in SitesAtEnd(p, x) <=> \E c \in Sources(p) : x \in ReachesEnd(p, c) /\ v = SiteOf(p, c)
    BY <1>7 DEF EndFact
  <2>2. v \in SitesAtEnd(p, x)' <=> \E c \in Sources(p)' : x \in ReachesEnd(p, c)' /\ v = SiteOf(p, c)'
    BY <1>7 DEF EndFact
  <2> QED
    BY <2>1, <2>2, <1>1, <1>4, <1>5, <1>6
<1> QED
  BY <1>8

\* What held before the step, in one place, for the two cases in which the
\* block has nothing but the PHI.
LEMMA GoneBare ==
    ASSUME NEW p \in PR, NEW b, NEW d, Gone(p, b, d), Writes(p, b) = {}
    PROVE  /\ b \in Block /\ b # Entry /\ SitesIn(p, b) # {} /\ SitesIn(p, b)' = {}
           /\ \A x \in Block : Preds(x)' = Preds(x)
           /\ \A x \in Block \ {b} : SitesIn(p, x)' = SitesIn(p, x)
           /\ Sources(p)' = Sources(p) \ {b}
           /\ b \in Sources(p) /\ SiteOf(p, b) = <<b, 0>>
           /\ \A c \in Sources(p)' : /\ c \in Block /\ SiteOf(p, c)' = SiteOf(p, c)
                                     /\ SiteOf(p, c) # <<b, 0>>
           /\ SitesAtEnd(p, b) = {<<b, 0>>}
<1>0. /\ b \in Block /\ b # Entry /\ SitesIn(p, b) # {} /\ SitesIn(p, b)' = {}
      /\ \A x \in Block : Preds(x)' = Preds(x)
      /\ \A x \in Block \ {b} : SitesIn(p, x)' = SitesIn(p, x)
  BY GoneSites
<1>1. Sources(p)' = Sources(p) \ {b}
  BY <1>0 DEF Sources, Sited
<1>2. b \in Sources(p) /\ SiteOf(p, b) = <<b, 0>>
  BY <1>0, GoneLast DEF Sources, Sited
<1>3. ASSUME NEW c \in Sources(p)'
      PROVE  c \in Block /\ SiteOf(p, c)' = SiteOf(p, c) /\ SiteOf(p, c) # <<b, 0>>
  <2>1. c \in Block \ {b}
    BY <1>1, BlockFinite DEF Sources, Sited
  <2>2. SiteOf(p, c)[1] = c
    BY SiteOfBlock
  <2> QED
    BY <2>1, <2>2, GoneLast
<1>4. SitesAtEnd(p, b) = {<<b, 0>>}
  BY <1>0, <1>2, AtEndIs DEF SiteOf
<1> QED
  BY <1>0, <1>1, <1>2, <1>3, <1>4

\* What comes from another source still comes.
LEMMA GoneKeeps ==
    ASSUME NEW p \in PR, NEW b, NEW d, Gone(p, b, d), Writes(p, b) = {},
           NEW c \in Sources(p) \ {b}, NEW x \in Block, x \in ReachesEnd(p, c)
    PROVE  SiteOf(p, c) \in SitesAtEnd(p, x)'
<1>0. /\ b \in Block /\ b # Entry /\ SitesIn(p, b) # {} /\ SitesIn(p, b)' = {}
      /\ \A y \in Block : Preds(y)' = Preds(y)
      /\ \A y \in Block \ {b} : SitesIn(p, y)' = SitesIn(p, y)
      /\ c \in Sources(p)' /\ c \in Block /\ SiteOf(p, c)' = SiteOf(p, c)
  BY GoneBare
<1>1. EndFact' /\ AtEndFact' /\ MergedFact' /\ ReachFact'
  BY PathsAreNext DEF PathFacts
<1>2. PICK v : v = SiteOf(p, c)
  OBVIOUS
<1> DEFINE T == {y \in Block : v \in SitesAtEnd(p, y)'}
<1>3. c \in T
  <2>1. c \in ReachesEnd(p, c)'
    BY <1>0, <1>1 DEF ReachFact
  <2> QED
    BY <2>1, <1>0, <1>1, <1>2 DEF EndFact
<1>4. ASSUME NEW y \in Block, SitesIn(p, y) = {}, T \cap Preds(y) # {}
      PROVE  y \in T
  <2>1. PICK q \in Preds(y) : v \in SitesAtEnd(p, q)'
    BY <1>4
  <2>2. SitesIn(p, y)' = {} /\ q \in Preds(y)'
    BY <1>0, <1>4, <2>1
  <2>3. v \in Merged(p, y)'
    BY <1>1, <2>1, <2>2 DEF MergedFact
  <2>4. SitesAtEnd(p, y)' = Merged(p, y)'
    BY <1>1, <2>2 DEF AtEndFact
  <2> QED
    BY <2>3, <2>4
<1>5. T \in SUBSET Block
  OBVIOUS
<1> HIDE DEF T
<1>6. ReachesEnd(p, c) \subseteq T
  BY <1>0, <1>3, <1>4, <1>5, ReachesLeast
<1> QED
  BY <1>2, <1>6 DEF T

MovedEnds(p, b, d, x) ==
    \A v : v \in SitesAtEnd(p, x)' <=> \E u \in SitesAtEnd(p, x) : v = Moved(b, d, u)

\* The PHI is all the block has and its value is wanted: d takes its place.
LEMMA GoneLive ==
    ASSUME NEW p \in PR, NEW b, NEW d, Gone(p, b, d), Writes(p, b) = {}, b \in LiveAt(p),
           NEW x \in Block
    PROVE  MovedEnds(p, b, d, x)
<1>0. /\ b \in Block /\ b # Entry /\ d # <<b, 0>> /\ SitesIn(p, b) # {} /\ SitesIn(p, b)' = {}
      /\ \A y \in Block : Preds(y)' = Preds(y)
      /\ \A y \in Block \ {b} : SitesIn(p, y)' = SitesIn(p, y)
      /\ Sources(p)' = Sources(p) \ {b} /\ SiteOf(p, b) = <<b, 0>>
      /\ \A c \in Sources(p)' : /\ c \in Block /\ SiteOf(p, c)' = SiteOf(p, c)
                                /\ SiteOf(p, c) # <<b, 0>>
      /\ SitesAtEnd(p, b) = {<<b, 0>>}
  BY GoneBare, GoneSites
<1>1. EndFact' /\ AtEndFact' /\ MergedFact' /\ ReachFact'
  BY PathsAreNext DEF PathFacts
<1>2. /\ \A q \in Preds(b) : SitesAtEnd(p, q) \subseteq {d, <<b, 0>>}
      /\ \E q \in Preds(b) : d \in SitesAtEnd(p, q)
  BY GoneArrives
<1>3. ASSUME NEW v \in SitesAtEnd(p, x)'
      PROVE  \E u \in SitesAtEnd(p, x) : v = Moved(b, d, u)
  <2>1. PICK c \in Sources(p)' : x \in ReachesEnd(p, c)' /\ v = SiteOf(p, c)'
    BY <1>1 DEF EndFact
  <2>2. c \in Block /\ c \in Sources(p) /\ v = SiteOf(p, c) /\ v # <<b, 0>>
    BY <1>0, <2>1
  <2> DEFINE T == {y \in Block : \E u \in SitesAtEnd(p, y) : v = Moved(b, d, u)}
  <2>3. c \in T
    <3>1. v \in SitesAtEnd(p, c)
      BY <2>2, ReachesClosed, SitesAtEndIs
    <3> QED
      BY <2>2, <3>1 DEF Moved
  <2>4. ASSUME NEW y \in Block, SitesIn(p, y)' = {}, T \cap Preds(y)' # {}
        PROVE  y \in T
    <3>1. PICK q \in Preds(y) : q \in T
      BY <1>0, <2>4
    <3>2. PICK u \in SitesAtEnd(p, q) : v = Moved(b, d, u)
      BY <3>1
    <3>3. CASE y = b
      <4>1. u = d \/ u = <<b, 0>>
        BY <1>2, <3>2, <3>3
      <4>2. v = Moved(b, d, <<b, 0>>)
        BY <4>1, <3>2 DEF Moved
      <4> QED
        BY <4>2, <3>3, <1>0
    <3>4. CASE y # b
      <4>1. SitesIn(p, y) = {}
        BY <1>0, <2>4, <3>4
      <4>2. u \in SitesAtEnd(p, y)
        BY <4>1, <3>2, AtEndIs, MergedIs
      <4> QED
        BY <4>2, <3>2
    <3> QED
      BY <3>3, <3>4
  <2>5. T \in SUBSET Block
    OBVIOUS
  <2> HIDE DEF T
  <2>6. ReachesEnd(p, c)' \subseteq T
    BY <1>1, <2>2, <2>3, <2>4, <2>5 DEF ReachFact
  <2>7. x \in T
    BY <2>1, <2>6
  <2> QED
    BY <2>7 DEF T
<1>4. ASSUME NEW y \in Block, NEW u \in SitesAtEnd(p, y), u # <<b, 0>>
      PROVE  u \in SitesAtEnd(p, y)'
  <2>1. PICK c \in Sources(p) : y \in ReachesEnd(p, c) /\ u = SiteOf(p, c)
    BY SitesAtEndIs
  <2>2. c # b
    BY <1>0, <1>4, <2>1
  <2> QED
    BY <2>1, <2>2, GoneKeeps
<1>5. d \in SitesAtEnd(p, b)'
  <2>1. PICK q \in Preds(b) : d \in SitesAtEnd(p, q)
    BY <1>2
  <2>2. q \in Block /\ q \in Preds(b)'
    BY <1>0, <2>1 DEF Preds
  <2>3. d \in SitesAtEnd(p, q)'
    BY <1>0, <1>4, <2>1, <2>2
  <2>4. d \in Merged(p, b)'
    BY <1>1, <2>2, <2>3 DEF MergedFact
  <2>5. SitesAtEnd(p, b)' = Merged(p, b)'
    BY <1>0, <1>1 DEF AtEndFact
  <2> QED
    BY <2>4, <2>5
<1>6. ASSUME <<b, 0>> \in SitesAtEnd(p, x)
      PROVE  d \in SitesAtEnd(p, x)'
  <2> DEFINE T == {y \in Block : d \in SitesAtEnd(p, y)'}
  <2>1. PICK c \in Sources(p) : x \in ReachesEnd(p, c) /\ <<b, 0>> = SiteOf(p, c)
    BY <1>6, SitesAtEndIs
  <2>2. c = b
    BY <2>1, SiteOfBlock
  <2>3. b \in T
    BY <1>0, <1>5
  <2>4. ASSUME NEW y \in Block, SitesIn(p, y) = {}, T \cap Preds(y) # {}
        PROVE  y \in T
    <3>1. PICK q \in Preds(y) : d \in SitesAtEnd(p, q)'
      BY <2>4
    <3>2. SitesIn(p, y)' = {} /\ q \in Preds(y)'
      BY <1>0, <2>4, <3>1
    <3>3. d \in Merged(p, y)'
      BY <1>1, <3>1, <3>2 DEF MergedFact
    <3>4. SitesAtEnd(p, y)' = Merged(p, y)'
      BY <1>1, <3>2 DEF AtEndFact
    <3> QED
      BY <3>3, <3>4
  <2>5. T \in SUBSET Block
    OBVIOUS
  <2> HIDE DEF T
  <2>6. ReachesEnd(p, b) \subseteq T
    BY <1>0, <2>3, <2>4, <2>5, ReachesLeast
  <2>7. x \in T
    BY <2>1, <2>2, <2>6
  <2> QED
    BY <2>7 DEF T
<1>7. ASSUME NEW u \in SitesAtEnd(p, x)
      PROVE  Moved(b, d, u) \in SitesAtEnd(p, x)'
  BY <1>4, <1>6 DEF Moved
<1> QED
  BY <1>3, <1>7 DEF MovedEnds

\* The PHI is all the block has and nobody wants it: where the value is wanted
\* it has not come from there.
LEMMA GoneDead ==
    ASSUME NEW p \in PR, NEW b, NEW d, Gone(p, b, d), Writes(p, b) = {}, b \notin LiveAt(p),
           NEW x \in LiveOut(p)
    PROVE  SitesAtEnd(p, x)' = SitesAtEnd(p, x) /\ <<b, 0>> \notin SitesAtEnd(p, x)
<1>0. /\ b \in Block /\ b # Entry /\ SitesIn(p, b) # {} /\ SitesIn(p, b)' = {}
      /\ \A y \in Block : Preds(y)' = Preds(y)
      /\ \A y \in Block \ {b} : SitesIn(p, y)' = SitesIn(p, y)
      /\ Sources(p)' = Sources(p) \ {b} /\ SiteOf(p, b) = <<b, 0>>
      /\ \A c \in Sources(p)' : /\ c \in Block /\ SiteOf(p, c)' = SiteOf(p, c)
                                /\ SiteOf(p, c) # <<b, 0>>
      /\ x \in Block /\ LiveTypes
  BY GoneBare DEF LiveOut, Gone
<1>1. EndFact' /\ ReachFact'
  BY PathsAreNext DEF PathFacts
<1>2. \A y \in ReachesEnd(p, b) : y \notin LiveOut(p)
  BY <1>0, DeadGoesNowhere
<1>3. b \notin LiveOut(p)
  BY <1>0, <1>2, ReachesClosed
<1>4. ASSUME NEW v \in SitesAtEnd(p, x)
      PROVE  v \in SitesAtEnd(p, x)' /\ v # <<b, 0>>
  <2>1. PICK c \in Sources(p) : x \in ReachesEnd(p, c) /\ v = SiteOf(p, c)
    BY <1>0, SitesAtEndIs
  <2>2. c # b
    BY <1>2, <2>1
  <2>3. v \in SitesAtEnd(p, x)'
    BY <1>0, <2>1, <2>2, GoneKeeps
  <2> QED
    BY <1>0, <2>1, <2>2, <2>3
<1>5. ASSUME NEW v \in SitesAtEnd(p, x)'
      PROVE  v \in SitesAtEnd(p, x)
  <2>1. PICK c \in Sources(p)' : x \in ReachesEnd(p, c)' /\ v = SiteOf(p, c)'
    BY <1>0, <1>1, <1>5 DEF EndFact
  <2>2. c \in Block /\ c \in Sources(p) /\ v = SiteOf(p, c)
    BY <1>0, <2>1
  <2> DEFINE T == {y \in Block : y \in LiveOut(p) => v \in SitesAtEnd(p, y)}
  <2>3. c \in T
    BY <2>2, ReachesClosed, SitesAtEndIs
  <2>4. ASSUME NEW y \in Block, SitesIn(p, y)' = {}, T \cap Preds(y)' # {}
        PROVE  y \in T
    <3> SUFFICES ASSUME y \in LiveOut(p) PROVE v \in SitesAtEnd(p, y)
      OBVIOUS
    <3>1. y # b /\ SitesIn(p, y) = {}
      BY <1>0, <1>3, <2>4
    <3>2. y \in LiveAt(p)
      BY <1>0, <3>1, LiveThrough
    <3>3. PICK q \in Preds(y) : q \in T
      BY <1>0, <2>4
    <3>4. q \in LiveOut(p)
      BY <3>2, LiveOutOfPreds
    <3>5. v \in SitesAtEnd(p, q)
      BY <3>3, <3>4
    <3> QED
      BY <3>1, <3>5, AtEndIs, MergedIs
  <2>5. T \in SUBSET Block
    OBVIOUS
  <2> HIDE DEF T
  <2>6. ReachesEnd(p, c)' \subseteq T
    BY <1>1, <2>2, <2>3, <2>4, <2>5 DEF ReachFact
  <2>7. x \in T
    BY <2>1, <2>6
  <2> QED
    BY <2>7 DEF T
<1>6. \A v : v \in SitesAtEnd(p, x)' <=> v \in SitesAtEnd(p, x)
  BY <1>4, <1>5
<1> QED
  BY <1>4, <1>6

LEMMA EndsMove ==
    ASSUME NEW p \in PR, NEW b, NEW d, Gone(p, b, d), NEW x \in LiveOut(p)
    PROVE  MovedEnds(p, b, d, x)
<1>1. x \in Block
  BY DEF LiveOut
<1>2. CASE SitesAtEnd(p, x)' = SitesAtEnd(p, x) /\ <<b, 0>> \notin SitesAtEnd(p, x)
  <2>1. \A u \in SitesAtEnd(p, x) : Moved(b, d, u) = u
    BY <1>2 DEF Moved
  <2> QED
    BY <1>2, <2>1 DEF MovedEnds
<1> QED
  BY <1>1, <1>2, GoneWritten, GoneLive, GoneDead

LEMMA MergedMoves ==
    ASSUME NEW p \in PR, NEW b, NEW d, Gone(p, b, d), NEW x \in LiveAt(p)
    PROVE  \A v : v \in Merged(p, x)' <=> \E u \in Merged(p, x) : v = Moved(b, d, u)
<1>0. x \in Block /\ b # Entry /\ Preds(x)' = Preds(x)
  BY GoneSites DEF LiveAt
<1>1. ASSUME NEW q \in Preds(x)
      PROVE  \A v : v \in SitesAtEnd(p, q)' <=> \E u \in SitesAtEnd(p, q) : v = Moved(b, d, u)
  BY LiveOutOfPreds, EndsMove DEF MovedEnds
<1>2. Moved(b, d, Version0) = Version0
  BY <1>0 DEF Moved, Version0
<1>3. MergedFact /\ MergedFact'
  BY PathsAre, PathsAreNext DEF PathFacts
<1>4. ASSUME NEW v
      PROVE  /\ v \in Merged(p, x) <=> (\E q \in Preds(x) : v \in SitesAtEnd(p, q)) \/ (x = Entry /\ v = Version0)
             /\ v \in Merged(p, x)' <=> (\E q \in Preds(x) : v \in SitesAtEnd(p, q)') \/ (x = Entry /\ v = Version0)
  BY <1>0, <1>3 DEF MergedFact, Version0
<1> QED
  BY <1>1, <1>2, <1>4

LEMMA GoneHere ==
    ASSUME NEW p \in PR, NEW b, NEW d, Gone(p, b, d), b \in LiveAt(p)
    PROVE  Merged(p, b)' = {d}
<1>1. b # Entry /\ d # <<b, 0>>
  BY GoneSites
<1>2. /\ \A q \in Preds(b) : SitesAtEnd(p, q) \subseteq {d, <<b, 0>>}
      /\ \E q \in Preds(b) : d \in SitesAtEnd(p, q)
  BY GoneArrives
<1>3. \A u \in Merged(p, b) : Moved(b, d, u) = d
  BY <1>1, <1>2, MergedIs DEF Moved
<1>4. d \in Merged(p, b)
  BY <1>2, MergedIs
<1>5. \A v : v \in Merged(p, b)' <=> v = d
  BY <1>3, <1>4, MergedMoves
<1> QED
  BY <1>5

\* The uses follow.
LEMMA LinksMove ==
    ASSUME NEW p \in PR, NEW b, NEW d, Gone(p, b, d)
    PROVE  \A u, v : (\E l \in LinksOf(p)' : l.user = u /\ l.site = v)
                  <=> \E k \in LinksOf(p) : /\ k.user = u /\ v = Moved(b, d, k.site)
                                            /\ ~(u.bb = b /\ u.i = 0)
<1>1. \A k \in LinksOf(p) : k \in Operands(p, b) <=> k.user.bb = b /\ k.user.i = 0
  BY DEF LinksOf, Operands
<1>2. ASSUME NEW k \in LinksOf(p), NEW l, l = IF k.site = <<b, 0>> THEN [k EXCEPT !.site = d] ELSE k
      PROVE  l.user = k.user /\ l.site = Moved(b, d, k.site)
  <2>1. k \in Links
    BY DEF Gone
  <2> QED
    BY <1>2, <2>1 DEF Links, Moved
<1>3. \A l : l \in LinksOf(p)' <=>
         \E k \in LinksOf(p) \ Operands(p, b) :
            l = IF k.site = <<b, 0>> THEN [k EXCEPT !.site = d] ELSE k
  BY DEF Gone
<1>4. ASSUME NEW l \in LinksOf(p)'
      PROVE  \E k \in LinksOf(p) : /\ k.user = l.user /\ l.site = Moved(b, d, k.site)
                                   /\ ~(l.user.bb = b /\ l.user.i = 0)
  <2>1. PICK k \in LinksOf(p) \ Operands(p, b) :
            l = IF k.site = <<b, 0>> THEN [k EXCEPT !.site = d] ELSE k
    BY <1>3
  <2> QED
    BY <1>1, <1>2, <2>1
<1>5. ASSUME NEW k \in LinksOf(p), ~(k.user.bb = b /\ k.user.i = 0)
      PROVE  \E l \in LinksOf(p)' : l.user = k.user /\ l.site = Moved(b, d, k.site)
  <2>1. k \in LinksOf(p) \ Operands(p, b)
    BY <1>1, <1>5
  <2>2. PICK l : l = IF k.site = <<b, 0>> THEN [k EXCEPT !.site = d] ELSE k
    OBVIOUS
  <2>3. l \in LinksOf(p)'
    BY <1>3, <2>1, <2>2
  <2> QED
    BY <1>2, <2>2, <2>3
<1>6. \A u, v : (\E l \in LinksOf(p)' : l.user = u /\ l.site = v)
             => \E k \in LinksOf(p) : /\ k.user = u /\ v = Moved(b, d, k.site)
                                      /\ ~(u.bb = b /\ u.i = 0)
  BY <1>4
<1>7. \A u, v : (\E k \in LinksOf(p) : /\ k.user = u /\ v = Moved(b, d, k.site)
                                       /\ ~(u.bb = b /\ u.i = 0))
             => \E l \in LinksOf(p)' : l.user = u /\ l.site = v
  BY <1>5
<1> QED
  BY <1>6, <1>7

LEMMA ReadsMove ==
    ASSUME NEW p \in PR, NEW b, NEW d, Gone(p, b, d), NEW x, NEW i, i # 0
    PROVE  \A v : v \in ReadSites(p, x, i)' <=> \E u \in ReadSites(p, x, i) : v = Moved(b, d, u)
<1>1. ReadsFact /\ ReadsFact'
  BY PathsAre, PathsAreNext DEF PathFacts
<1>2. Reader(x, i)' = Reader(x, i) /\ Reader(x, i).i # 0
  BY DEF Reader
<1>3. ASSUME NEW v
      PROVE  /\ v \in ReadSites(p, x, i) <=> \E l \in LinksOf(p) : l.user = Reader(x, i) /\ v = l.site
             /\ v \in ReadSites(p, x, i)' <=> \E l \in LinksOf(p)' : l.user = Reader(x, i) /\ v = l.site
  <2>1. v \in ReadSites(p, x, i) <=> \E l \in LinksOf(p) : l.user = Reader(x, i) /\ v = l.site
    BY <1>1 DEF ReadsFact
  <2>2. v \in ReadSites(p, x, i)' <=> \E l \in LinksOf(p)' : l.user = Reader(x, i)' /\ v = l.site
    BY <1>1 DEF ReadsFact
  <2> QED
    BY <1>2, <2>1, <2>2
<1>4. ASSUME NEW v
      PROVE  (\E l \in LinksOf(p)' : l.user = Reader(x, i) /\ l.site = v)
             <=> \E k \in LinksOf(p) : k.user = Reader(x, i) /\ v = Moved(b, d, k.site)
  BY <1>2, LinksMove
<1> QED
  BY <1>3, <1>4

MovedOperands(p, b, d, x) ==
    \A q, v : <<q, v>> \in OperandSites(p, x)'
            <=> \E u : <<q, u>> \in OperandSites(p, x) /\ v = Moved(b, d, u)

LEMMA OperandsMove ==
    ASSUME NEW p \in PR, NEW b, NEW d, Gone(p, b, d), NEW x, x # b
    PROVE  MovedOperands(p, b, d, x)
<1>1. OperandsFact /\ OperandsFact'
  BY PathsAre, PathsAreNext DEF PathFacts
<1>2. ASSUME NEW q, NEW v
      PROVE  /\ <<q, v>> \in OperandSites(p, x) <=>
                   \E l \in LinksOf(p) : l.user.bb = x /\ l.user.i = 0 /\ l.user.from = q /\ l.site = v
             /\ <<q, v>> \in OperandSites(p, x)' <=>
                   \E l \in LinksOf(p)' : l.user.bb = x /\ l.user.i = 0 /\ l.user.from = q /\ l.site = v
  <2>1. \A l : <<q, v>> = <<l.user.from, l.site>> <=> l.user.from = q /\ l.site = v
    OBVIOUS
  <2> QED
    BY <1>1, <2>1 DEF OperandsFact
<1>3. ASSUME NEW q, NEW v
      PROVE  (\E l \in LinksOf(p)' : l.user.bb = x /\ l.user.i = 0 /\ l.user.from = q /\ l.site = v)
             <=> \E k \in LinksOf(p) : /\ k.user.bb = x /\ k.user.i = 0 /\ k.user.from = q
                                       /\ v = Moved(b, d, k.site)
  <2>1. ASSUME NEW l \in LinksOf(p)', l.user.bb = x, l.user.i = 0, l.user.from = q, l.site = v
        PROVE  \E k \in LinksOf(p) : /\ k.user.bb = x /\ k.user.i = 0 /\ k.user.from = q
                                     /\ v = Moved(b, d, k.site)
    <3>1. PICK k \in LinksOf(p) : k.user = l.user /\ v = Moved(b, d, k.site)
      BY <2>1, LinksMove
    <3> QED
      BY <2>1, <3>1
  <2>2. ASSUME NEW k \in LinksOf(p), k.user.bb = x, k.user.i = 0, k.user.from = q,
               v = Moved(b, d, k.site)
        PROVE  \E l \in LinksOf(p)' : l.user.bb = x /\ l.user.i = 0 /\ l.user.from = q /\ l.site = v
    <3>1. PICK l \in LinksOf(p)' : l.user = k.user /\ l.site = v
      BY <2>2, LinksMove
    <3> QED
      BY <2>2, <3>1
  <2> QED
    BY <2>1, <2>2
<1>4. ASSUME NEW q, NEW v
      PROVE  /\ <<q, v>> \in OperandSites(p, x)'
                => \E u : <<q, u>> \in OperandSites(p, x) /\ v = Moved(b, d, u)
             /\ (\E u : <<q, u>> \in OperandSites(p, x) /\ v = Moved(b, d, u))
                => <<q, v>> \in OperandSites(p, x)'
  <2>1. ASSUME <<q, v>> \in OperandSites(p, x)'
        PROVE  \E u : <<q, u>> \in OperandSites(p, x) /\ v = Moved(b, d, u)
    <3>1. PICK k \in LinksOf(p) : /\ k.user.bb = x /\ k.user.i = 0 /\ k.user.from = q
                                  /\ v = Moved(b, d, k.site)
      BY <1>2, <1>3, <2>1
    <3>2. <<q, k.site>> \in OperandSites(p, x)
      BY <1>2, <3>1
    <3> QED
      BY <3>1, <3>2
  <2>2. ASSUME NEW u, <<q, u>> \in OperandSites(p, x), v = Moved(b, d, u)
        PROVE  <<q, v>> \in OperandSites(p, x)'
    <3>1. PICK k \in LinksOf(p) : /\ k.user.bb = x /\ k.user.i = 0 /\ k.user.from = q /\ k.site = u
      BY <1>2, <2>2
    <3>2. v = Moved(b, d, k.site)
      BY <2>2, <3>1
    <3>3. \E l \in LinksOf(p)' : l.user.bb = x /\ l.user.i = 0 /\ l.user.from = q /\ l.site = v
      BY <1>3, <3>1, <3>2
    <3> QED
      BY <1>2, <3>3
  <2> QED
    BY <2>1, <2>2
<1> QED
  BY <1>4 DEF MovedOperands

LEMMA GoneOne ==
    ASSUME NEW p \in PR, NEW b, NEW d, Gone(p, b, d)
    PROVE  OneArrives(p)'
<1>0. LiveAt(p)' = LiveAt(p) /\ phi'[p] = phi[p] \ {b}
  BY LiveAtStays DEF Gone
<1> SUFFICES ASSUME NEW x \in LiveAt(p) \ phi'[p]
             PROVE  \E e : Merged(p, x)' = {e}
  BY <1>0 DEF OneArrives
<1>1. CASE x = b
  BY <1>1, GoneHere
<1>2. CASE x # b
  <2>1. x \in LiveAt(p) \ phi[p]
    BY <1>0, <1>2
  <2>2. PICK e : Merged(p, x) = {e}
    BY <2>1 DEF Gone, BuiltAt, OneArrives
  <2>3. \A v : v \in Merged(p, x)' <=> v = Moved(b, d, e)
    BY <2>2, MergedMoves
  <2>4. Merged(p, x)' = {Moved(b, d, e)}
    BY <2>3
  <2> QED
    BY <2>4
<1> QED
  BY <1>1, <1>2

\* In the PHI's block the other definitions above a statement are as before.
LEMMA GoneAbove ==
    ASSUME NEW p \in PR, NEW b, NEW d, Gone(p, b, d), NEW i \in Nat \ {0}
    PROVE  /\ Above(p, b, i) = Above(p, b, i)' \cup {0}
           /\ Above(p, b, i)' # {} => /\ LastAmong(Above(p, b, i)') = LastAmong(Above(p, b, i))
                                      /\ LastAmong(Above(p, b, i)) # 0
           /\ \A x \in Block \ {b} : Above(p, x, i)' = Above(p, x, i)
<1>0. /\ b \in Block /\ SitesIn(p, b) = Writes(p, b) \cup {0} /\ SitesIn(p, b)' = Writes(p, b)
      /\ \A x \in Block \ {b} : SitesIn(p, x)' = SitesIn(p, x)
      /\ LiveTypes
  BY GoneSites DEF Gone
<1>1. PICK V : V = {j \in Writes(p, b) : j < i}
  OBVIOUS
<1>2. Above(p, b, i)' = V
  BY <1>0, <1>1 DEF Above
<1>3. Above(p, b, i) = V \cup {0}
  BY <1>0, <1>1 DEF Above
<1>4. V \in SUBSET Nat /\ 0 \notin V /\ IsFiniteSet(V)
  <2>1. SitesIn(p, b) \in SUBSET Nat /\ IsFiniteSet(SitesIn(p, b))
    BY <1>0, SitesAre
  <2>2. IsFiniteSet(V)
    BY <2>1, <1>0, <1>1, FS_Subset
  <2> QED
    BY <2>2, <1>0, <1>1, WritesAre
<1>5. V # {} => LastAmong(V) = LastAmong(V \cup {0}) /\ LastAmong(V \cup {0}) # 0
  BY <1>4, LastWithZero
<1>6. \A x \in Block \ {b} : Above(p, x, i)' = Above(p, x, i)
  BY <1>0 DEF Above
<1> QED
  BY <1>2, <1>3, <1>5, <1>6

LEMMA GoneReads ==
    ASSUME NEW p \in PR, NEW b, NEW d, Gone(p, b, d)
    PROVE  ReadsAre(p)'
<1>0. /\ code' = code /\ LiveTypes /\ b \in Block
      /\ SitesIn(p, b) = Writes(p, b) \cup {0}
  BY GoneSites DEF Gone
<1> SUFFICES ASSUME NEW x \in Block, NEW i \in DOMAIN code[x], p \in code[x][i].reads
             PROVE  ReadSites(p, x, i)' = SitesBefore(p, x, i)'
  BY <1>0 DEF ReadsAre
<1>1. i \in Nat \ {0}
  BY <1>0 DEF LiveTypes
<1>2. ReadSites(p, x, i) = SitesBefore(p, x, i)
  BY DEF Gone, BuiltAt, ReadsAre
<1>3. \A v : v \in ReadSites(p, x, i)' <=> \E u \in SitesBefore(p, x, i) : v = Moved(b, d, u)
  BY <1>1, <1>2, ReadsMove
<1>4. SitesBefore(p, x, i)' = IF Above(p, x, i)' # {} THEN {<<x, LastAmong(Above(p, x, i)')>>}
                              ELSE Merged(p, x)'
  <2>1. BeforeFact'
    BY PathsAreNext DEF PathFacts
  <2>2. LastAmong(Above(p, x, i))' = LastAmong(Above(p, x, i)')
    BY DEF LastAmong
  <2> QED
    BY <2>1, <2>2 DEF BeforeFact
<1>5. CASE x # b
  <2>1. Above(p, x, i)' = Above(p, x, i)
    BY <1>1, <1>5, GoneAbove
  <2>2. CASE Above(p, x, i) # {}
    <3>1. SitesBefore(p, x, i) = {<<x, LastAmong(Above(p, x, i))>>}
      BY <2>2, SitesBeforeIs
    <3>2. \A v : v \in ReadSites(p, x, i)' <=> v = <<x, LastAmong(Above(p, x, i))>>
      BY <1>3, <1>5, <3>1 DEF Moved
    <3> QED
      BY <1>4, <2>1, <2>2, <3>2
  <2>3. CASE Above(p, x, i) = {}
    <3>1. SitesBefore(p, x, i) = Merged(p, x) /\ x \in LiveAt(p)
      BY <1>0, <2>3, SitesBeforeIs, AboveNone
    <3>2. \A v : v \in ReadSites(p, x, i)' <=> v \in Merged(p, x)'
      BY <1>3, <3>1, MergedMoves
    <3>3. SitesBefore(p, x, i)' = Merged(p, x)'
      BY <1>4, <2>1, <2>3
    <3> QED
      BY <3>2, <3>3
  <2> QED
    BY <2>2, <2>3
<1>6. CASE x = b
  <2>1. /\ Above(p, x, i) = Above(p, x, i)' \cup {0}
        /\ Above(p, x, i)' # {} => /\ LastAmong(Above(p, x, i)') = LastAmong(Above(p, x, i))
                                   /\ LastAmong(Above(p, x, i)) # 0
    BY <1>1, <1>6, GoneAbove
  <2>2. SitesBefore(p, x, i) = {<<x, LastAmong(Above(p, x, i))>>}
    BY <2>1, SitesBeforeIs
  <2>3. CASE Above(p, x, i)' # {}
    <3>1. Moved(b, d, <<x, LastAmong(Above(p, x, i))>>) = <<x, LastAmong(Above(p, x, i))>>
      BY <2>1, <2>3 DEF Moved
    <3>2. \A v : v \in ReadSites(p, x, i)' <=> v = <<x, LastAmong(Above(p, x, i))>>
      BY <1>3, <2>2, <3>1
    <3>3. SitesBefore(p, x, i)' = {<<x, LastAmong(Above(p, x, i))>>}
      BY <1>4, <2>1, <2>3
    <3> QED
      BY <3>2, <3>3
  <2>4. CASE Above(p, x, i)' = {}
    <3>1. Above(p, x, i) = {0}
      BY <2>1, <2>4
    <3>2. LastAmong({0}) = 0
      BY DEF LastAmong
    <3>3. SitesBefore(p, x, i) = {<<b, 0>>}
      BY <1>6, <2>2, <3>1, <3>2
    <3>4. \A v : v \in ReadSites(p, x, i)' <=> v = d
      BY <1>3, <3>3 DEF Moved
    <3>5. b \in LiveAt(p)
      BY <1>0, <1>6, <3>1, ReadIsLive
    <3>6. SitesBefore(p, x, i)' = {d}
      BY <1>4, <1>6, <2>4, <3>5, GoneHere
    <3> QED
      BY <3>4, <3>6
  <2> QED
    BY <2>3, <2>4
<1> QED
  BY <1>5, <1>6

LEMMA GoneOperands ==
    ASSUME NEW p \in PR, NEW b, NEW d, Gone(p, b, d)
    PROVE  OperandsAre(p)'
<1>0. LiveAt(p)' = LiveAt(p) /\ phi'[p] = phi[p] \ {b} /\ phi[p] \subseteq Block
  BY LiveAtStays DEF Gone
<1> SUFFICES ASSUME NEW x \in phi[p], x # b, x \in LiveAt(p)
             PROVE  OperandSites(p, x)' = Arriving(p, x)'
  BY <1>0 DEF OperandsAre
<1>1. OperandSites(p, x) = Arriving(p, x)
  BY DEF Gone, BuiltAt, OperandsAre
<1>2. Preds(x)' = Preds(x)
  BY <1>0, GoneSites
<1>3. ASSUME NEW q \in Preds(x)
      PROVE  \A v : v \in SitesAtEnd(p, q)' <=> \E u \in SitesAtEnd(p, q) : v = Moved(b, d, u)
  BY LiveOutOfPreds, EndsMove DEF MovedEnds
<1>4. ASSUME NEW w
      PROVE  w \in Arriving(p, x)' <=> \E q \in Preds(x) : \E v \in SitesAtEnd(p, q)' : w = <<q, v>>
  BY <1>2, PathsAreNext DEF PathFacts, ArrivingFact
<1>7. \A q, v : <<q, v>> \in OperandSites(p, x)'
              <=> \E u : <<q, u>> \in OperandSites(p, x) /\ v = Moved(b, d, u)
  <2>1. MovedOperands(p, b, d, x)
    BY OperandsMove
  <2> QED
    BY <2>1 DEF MovedOperands
<1>5. ASSUME NEW w \in OperandSites(p, x)'
      PROVE  w \in Arriving(p, x)'
  <2>1. PICK q, v : w = <<q, v>>
    BY <1>5, PathsAreNext DEF PathFacts, OperandsFact
  <2>2. <<q, v>> \in OperandSites(p, x)'
    BY <2>1
  <2>6. \E u : <<q, u>> \in OperandSites(p, x) /\ v = Moved(b, d, u)
    BY ONLY <1>7, <2>2
  <2>7. PICK u : <<q, u>> \in OperandSites(p, x) /\ v = Moved(b, d, u)
    BY <2>6
  <2>3. <<q, u>> \in Arriving(p, x)
    BY <1>1, <2>7
  <2>4. q \in Preds(x) /\ u \in SitesAtEnd(p, q)
    <3>1. PICK r \in Preds(x) : \E e \in SitesAtEnd(p, r) : <<q, u>> = <<r, e>>
      BY <2>3, ArrivingIs
    <3> QED
      BY <3>1
  <2>5. v \in SitesAtEnd(p, q)'
    BY <1>3, <2>7, <2>4
  <2> QED
    BY <1>4, <2>1, <2>4, <2>5
<1>6. ASSUME NEW w \in Arriving(p, x)'
      PROVE  w \in OperandSites(p, x)'
  <2>1. PICK q \in Preds(x) : \E v \in SitesAtEnd(p, q)' : w = <<q, v>>
    BY <1>4
  <2>2. PICK v \in SitesAtEnd(p, q)' : w = <<q, v>>
    BY <2>1
  <2>3. PICK u \in SitesAtEnd(p, q) : v = Moved(b, d, u)
    BY <1>3, <2>2
  <2>4. <<q, u>> \in OperandSites(p, x)
    BY <1>1, <2>3, ArrivingIs
  <2> QED
    BY <1>7, <2>2, <2>3, <2>4
<1> QED
  BY <1>5, <1>6

LEMMA GoneBuilt ==
    ASSUME NEW p \in PR, NEW b, NEW d, Gone(p, b, d)
    PROVE  BuiltAt(p)'
<1>1. Entry \notin phi'[p]
  BY DEF Gone, BuiltAt
<1> QED
  BY <1>1, GoneOne, GoneReads, GoneOperands DEF BuiltAt, Entry

-----------------------------------------------------------------------------
(* A step that leaves p alone, and a turn of the refinement                *)

LEMMA BuiltStays ==
    ASSUME NEW p, succ' = succ, code' = code, phi'[p] = phi[p], LinksOf(p)' = LinksOf(p)
    PROVE  BuiltAt(p)' = BuiltAt(p)
<1>1. \A b : Preds(b)' = Preds(b) /\ Writes(p, b)' = Writes(p, b)
  BY DEF Preds, Writes
<1>2. \A b : SitesIn(p, b)' = SitesIn(p, b)
  BY <1>1 DEF SitesIn
<1>3. \A b : LastIn(p, b)' = LastIn(p, b)
  BY <1>2 DEF LastIn
<1>4. \A d, S : PassedOn(p, d, S)' = PassedOn(p, d, S)
  BY <1>1, <1>2 DEF PassedOn
<1>5. \A d : ReachesEnd(p, d)' = ReachesEnd(p, d)
  BY <1>4 DEF ReachesEnd
<1>6. \A b : SitesAtEnd(p, b)' = SitesAtEnd(p, b)
  BY <1>2, <1>3, <1>5 DEF SitesAtEnd
<1>7. \A b : Merged(p, b)' = Merged(p, b)
  BY <1>1, <1>6 DEF Merged
<1>8. \A b : Arriving(p, b)' = Arriving(p, b)
  BY <1>1, <1>6 DEF Arriving
<1>9. \A b, i : SitesBefore(p, b, i)' = SitesBefore(p, b, i)
  <2> TAKE b, i
  <2>1. Above(p, b, i)' = Above(p, b, i)
    BY <1>2 DEF Above
  <2>2. LastAmong(Above(p, b, i))' = LastAmong(Above(p, b, i))
    BY <2>1 DEF LastAmong
  <2>3. BeforeFact /\ BeforeFact'
    BY PathsAre, PathsAreNext DEF PathFacts
  <2>4. SitesBefore(p, b, i) = IF Above(p, b, i) # {} THEN {<<b, LastAmong(Above(p, b, i))>>}
                               ELSE Merged(p, b)
    BY <2>3 DEF BeforeFact
  <2>5. SitesBefore(p, b, i)' = IF Above(p, b, i)' # {} THEN {<<b, LastAmong(Above(p, b, i))'>>}
                                ELSE Merged(p, b)'
    BY <2>3 DEF BeforeFact
  <2> QED
    BY <1>7, <2>1, <2>2, <2>4, <2>5
<1>10. \A b : Operands(p, b) = {l \in LinksOf(p) : l.user.bb = b /\ l.user.i = 0}
  BY DEF Operands, LinksOf
<1>11. \A b : Operands(p, b)' = {l \in LinksOf(p)' : l.user.bb = b /\ l.user.i = 0}
  BY DEF Operands, LinksOf
<1>12. \A b : OperandSites(p, b)' = OperandSites(p, b)
  BY <1>10, <1>11 DEF OperandSites
<1>13. \A b, i : ReadSites(p, b, i) = {l.site : l \in {k \in LinksOf(p) : k.user = Reader(b, i)}}
  BY DEF ReadSites, LinksOf
<1>14. \A b, i : ReadSites(p, b, i)' = {l.site : l \in {k \in LinksOf(p)' : k.user = Reader(b, i)}}
  BY DEF ReadSites, LinksOf, Reader
<1>15. \A b, i : ReadSites(p, b, i)' = ReadSites(p, b, i)
  BY <1>13, <1>14
<1>16. LiveAt(p)' = LiveAt(p)
  BY LiveAtStays
<1>17. OneArrives(p)' = OneArrives(p)
  BY <1>7, <1>16 DEF OneArrives
<1>18. ReadsAre(p)' = ReadsAre(p)
  BY <1>9, <1>15 DEF ReadsAre
<1>19. OperandsAre(p)' = OperandsAre(p)
  BY <1>8, <1>12, <1>16 DEF OperandsAre
<1> QED
  BY <1>17, <1>18, <1>19 DEF BuiltAt, Entry

LEMMA RefineBuilt ==
    ASSUME IInv, TypeInv, RefineBB, \A p \in PR : BuiltAt(p)
    PROVE  \A p \in PR : BuiltAt(p)'
<1> TAKE p \in PR
<1>1. PICK b : b = Head(work)
  OBVIOUS
<1>2. PICK G : G = {q \in PR : Redundant(q, b)}
  OBVIOUS
<1>3. /\ succ' = succ /\ code' = code
      /\ phi' = [q \in PR |-> IF q \in G THEN phi[q] \ {b} ELSE phi[q]]
      /\ link' = UNION {IF q \in G THEN Relinked(q, b, {l \in link : l.pr = q})
                        ELSE {l \in link : l.pr = q} : q \in PR}
  BY <1>1, <1>2 DEF RefineBB, liveVars, program
<1>4. Graph /\ LiveTypes /\ link \subseteq Links /\ phi \in [PR -> SUBSET Block]
  BY DEF IInv, Types, Graph, TypeInv, SSATypes
<1>5. \A q \in PR : \A l \in Relinked(q, b, LinksOf(q)) : l.pr = q
  <2> SUFFICES ASSUME NEW q \in PR, NEW l \in Relinked(q, b, LinksOf(q)) PROVE l.pr = q
    OBVIOUS
  <2>1. PICK k \in LinksOf(q) : l = IF k.pr = q /\ k.site = <<b, 0>>
                                    THEN [k EXCEPT !.site = CHOOSE d \in Others(q, b) : TRUE] ELSE k
    BY DEF Relinked
  <2>2. k \in Links /\ k.pr = q
    BY <1>4 DEF LinksOf
  <2> QED
    BY <2>1, <2>2 DEF Links
<1>6. link' = UNION {IF q \in G THEN Relinked(q, b, LinksOf(q)) ELSE LinksOf(q) : q \in PR}
  BY <1>3 DEF LinksOf
<1>7. ASSUME NEW l
      PROVE  l \in LinksOf(p)' <=> l \in IF p \in G THEN Relinked(p, b, LinksOf(p)) ELSE LinksOf(p)
  <2>1. l \in LinksOf(p)' <=> l \in link' /\ l.pr = p
    BY DEF LinksOf
  <2>2. l \in link' <=> \E q \in PR : l \in IF q \in G THEN Relinked(q, b, LinksOf(q)) ELSE LinksOf(q)
    BY <1>6
  <2>3. \A q \in PR : l \in (IF q \in G THEN Relinked(q, b, LinksOf(q)) ELSE LinksOf(q)) => l.pr = q
    BY <1>5 DEF LinksOf
  <2> QED
    BY <2>1, <2>2, <2>3
<1>8. CASE p \notin G
  <2>1. LinksOf(p)' = LinksOf(p)
    BY <1>7, <1>8
  <2>2. phi'[p] = phi[p]
    BY <1>3, <1>8
  <2>3. BuiltAt(p)' = BuiltAt(p)
    BY <1>3, <2>1, <2>2, BuiltStays
  <2> QED
    BY <2>3
<1>9. CASE p \in G
  <2>1. b \in phi[p] /\ Cardinality(Others(p, b)) = 1
    BY <1>2, <1>9 DEF Redundant
  <2>2. PICK d : Others(p, b) = {d}
    BY <2>1, OthersFinite, FS_Singleton
  <2>3. (CHOOSE e \in Others(p, b) : TRUE) = d
    BY <2>2
  <2>4. Relinked(p, b, LinksOf(p)) =
          {IF l.pr = p /\ l.site = <<b, 0>> THEN [l EXCEPT !.site = d] ELSE l :
              l \in LinksOf(p) \ Operands(p, b)}
    BY <2>3 DEF Relinked
  <2>5. \A l \in LinksOf(p) : l.pr = p
    BY DEF LinksOf
  <2>6. \A l : l \in LinksOf(p)' <=>
           \E k \in LinksOf(p) \ Operands(p, b) :
              l = IF k.site = <<b, 0>> THEN [k EXCEPT !.site = d] ELSE k
    <3> SUFFICES ASSUME NEW l
                 PROVE  l \in LinksOf(p)' <=>
                          \E k \in LinksOf(p) \ Operands(p, b) :
                             l = IF k.site = <<b, 0>> THEN [k EXCEPT !.site = d] ELSE k
      OBVIOUS
    <3>1. l \in LinksOf(p)' <=> l \in Relinked(p, b, LinksOf(p))
      BY <1>7, <1>9
    <3>2. l \in Relinked(p, b, LinksOf(p)) <=>
           \E k \in LinksOf(p) \ Operands(p, b) :
              l = IF k.pr = p /\ k.site = <<b, 0>> THEN [k EXCEPT !.site = d] ELSE k
      BY <2>4
    <3> QED
      BY <3>1, <3>2, <2>5
  <2>7. Gone(p, b, d)
    <3>1. phi'[p] = phi[p] \ {b} /\ phi[p] \subseteq Block
      BY <1>3, <1>4, <1>9
    <3>2. LinksOf(p) \subseteq Links
      BY <1>4 DEF LinksOf
    <3> QED
      BY <1>3, <1>4, <2>1, <2>2, <2>6, <3>1, <3>2 DEF Gone
  <2> QED
    BY <2>7, GoneBuilt
<1> QED
  BY <1>8, <1>9

-----------------------------------------------------------------------------
(* A branch loses an edge                                                  *)

EnteredFact == Graph => \A b \in Block \ {Entry} : Preds(b) # {}
LEMMA EnteredIs == EnteredFact
BY Entered DEF EnteredFact
LEMMA EnteredNext == EnteredFact'
BY EnteredIs, PTL

\* The edge from e to s goes, and the operands of s for it.
Cut(p, e, s) ==
    /\ Graph /\ Graph' /\ LiveTypes /\ phi[p] \subseteq Block /\ BuiltAt(p)
    /\ e \in Block /\ s \in succ[e]
    /\ code' = code /\ phi'[p] = phi[p] /\ succ' = [succ EXCEPT ![e] = @ \ {s}]
    /\ LinksOf(p)' = {l \in LinksOf(p) : ~(l.user.bb = s /\ l.user.i = 0 /\ l.user.from = e)}

LEMMA CutGraph ==
    ASSUME NEW p \in PR, NEW e, NEW s, Cut(p, e, s)
    PROVE  /\ \A x \in Block : succ'[x] \subseteq succ[x]
           /\ \A x \in Block : \A q : q \in Preds(x)' <=> q \in Preds(x) /\ ~(x = s /\ q = e)
           /\ \A x : SitesIn(p, x)' = SitesIn(p, x) /\ SiteOf(p, x)' = SiteOf(p, x)
           /\ Sources(p)' = Sources(p)
           /\ LiveAt(p)' \subseteq LiveAt(p)
<1>1. \A x \in Block : succ'[x] = IF x = e THEN succ[x] \ {s} ELSE succ[x]
  BY DEF Cut, Graph
<1>2. \A x \in Block : \A q : q \in Preds(x)' <=> q \in Preds(x) /\ ~(x = s /\ q = e)
  BY <1>1 DEF Preds
<1>3. \A x : Writes(p, x)' = Writes(p, x)
  BY DEF Cut, Writes
<1>4. \A x : SitesIn(p, x)' = SitesIn(p, x)
  BY <1>3 DEF Cut, SitesIn
<1>5. \A x : LastIn(p, x)' = LastIn(p, x)
  BY <1>4 DEF LastIn
<1>6. \A x : SiteOf(p, x)' = SiteOf(p, x)
  BY <1>4, <1>5 DEF SiteOf
<1>7. Sources(p)' = Sources(p)
  BY <1>4 DEF Sources, Sited
<1>8. LiveAt(p)' \subseteq LiveAt(p)
  <2>1. \A x : Use(x)' = Use(x) /\ Def(x)' = Def(x)
    BY DEF Use, Def, Cut
  <2>2. \A S : NeedsOf(p, S)' \subseteq NeedsOf(p, S)
    <3> SUFFICES ASSUME NEW S, NEW x \in NeedsOf(p, S)' PROVE x \in NeedsOf(p, S)
      OBVIOUS
    <3>1. x \in Block /\ (p \in Use(x) \/ (p \notin Def(x) /\ succ'[x] \cap S # {}))
      BY <2>1 DEF NeedsOf
    <3>2. succ'[x] \subseteq succ[x]
      BY <1>1, <3>1
    <3> QED
      BY <3>1, <3>2 DEF NeedsOf
  <2> SUFFICES ASSUME NEW x \in LiveAt(p)', NEW S \in SUBSET Block, NeedsOf(p, S) \subseteq S
               PROVE  x \in S
    BY DEF LiveAt
  <2>3. NeedsOf(p, S)' \subseteq S
    BY <2>2
  <2> QED
    BY <2>3 DEF LiveAt
<1> QED
  BY <1>1, <1>2, <1>4, <1>6, <1>7, <1>8

LEMMA CutEnds ==
    ASSUME NEW p \in PR, NEW e, NEW s, Cut(p, e, s), NEW x \in Block
    PROVE  /\ SitesAtEnd(p, x)' \subseteq SitesAtEnd(p, x) /\ SitesAtEnd(p, x)' # {}
           /\ x \in LiveOut(p) => SitesAtEnd(p, x)' = SitesAtEnd(p, x)
<1>0. /\ \A y \in Block : Preds(y)' \subseteq Preds(y)
      /\ \A y : SitesIn(p, y)' = SitesIn(p, y) /\ SiteOf(p, y)' = SiteOf(p, y)
      /\ Sources(p)' = Sources(p)
  BY CutGraph
<1>1. ASSUME NEW c \in Block
      PROVE  ReachesEnd(p, c)' \subseteq ReachesEnd(p, c)
  <2>1. \A S : PassedOn(p, c, S)' \subseteq PassedOn(p, c, S)
    <3> SUFFICES ASSUME NEW S, NEW y \in PassedOn(p, c, S)' PROVE y \in PassedOn(p, c, S)
      OBVIOUS
    <3>1. y = c \/ (y \in Block /\ SitesIn(p, y)' = {} /\ S \cap Preds(y)' # {})
      BY DEF PassedOn
    <3>2. y = c \/ (y \in Block /\ SitesIn(p, y) = {} /\ S \cap Preds(y) # {})
      BY <3>1, <1>0
    <3> QED
      BY <3>2 DEF PassedOn
  <2> SUFFICES ASSUME NEW y \in ReachesEnd(p, c)', NEW S \in SUBSET Block, PassedOn(p, c, S) \subseteq S
               PROVE  y \in S
    BY DEF ReachesEnd
  <2>2. PassedOn(p, c, S)' \subseteq S
    BY <2>1
  <2> QED
    BY <2>2 DEF ReachesEnd
<1>2. ASSUME NEW v \in SitesAtEnd(p, x)'
      PROVE  v \in SitesAtEnd(p, x)
  <2>0. EndFact'
    BY PathsAreNext DEF PathFacts
  <2>1. PICK c \in Sources(p)' : x \in ReachesEnd(p, c)' /\ v = SiteOf(p, c)'
    BY <2>0 DEF EndFact
  <2>2. c \in Block /\ c \in Sources(p)
    BY <1>0, BlockFinite DEF Sources, Sited
  <2> QED
    BY <1>0, <1>1, <2>1, <2>2, SitesAtEndIs
<1>3. SitesAtEnd(p, x)' # {}
  BY PathsAreNext DEF PathFacts, SomeFact, Cut
<1>4. ASSUME x \in LiveOut(p)
      PROVE  \E v : SitesAtEnd(p, x) = {v}
  <2>1. CASE SitesIn(p, x) # {}
    BY <2>1, AtEndIs
  <2>2. CASE SitesIn(p, x) = {}
    <3>1. x \in LiveAt(p)
      BY <1>4, <2>2, LiveThrough DEF Cut
    <3>2. x \notin phi[p]
      BY <2>2 DEF SitesIn
    <3> QED
      BY <2>2, <3>1, <3>2, AtEndIs DEF Cut, BuiltAt, OneArrives
  <2> QED
    BY <2>1, <2>2
<1> QED
  BY <1>2, <1>3, <1>4

LEMMA CutMerged ==
    ASSUME NEW p \in PR, NEW e, NEW s, Cut(p, e, s), NEW x \in LiveAt(p) \ phi[p]
    PROVE  Merged(p, x)' = Merged(p, x)
<1>0. x \in Block /\ \A q : q \in Preds(x)' => q \in Preds(x) /\ q \in Block
  BY CutGraph DEF LiveAt, Preds
<1>1. PICK v : Merged(p, x) = {v}
  BY DEF Cut, BuiltAt, OneArrives
<1>2. MergedFact'
  BY PathsAreNext DEF PathFacts
<1>3. \A w : w \in Merged(p, x)' <=> (\E q \in Preds(x)' : w \in SitesAtEnd(p, q)') \/ (x = Entry /\ w = Version0)
  BY <1>2 DEF MergedFact, Entry, Version0
<1>4. ASSUME NEW w \in Merged(p, x)'
      PROVE  w \in Merged(p, x)
  <2>1. \A q \in Preds(x)' : SitesAtEnd(p, q)' \subseteq SitesAtEnd(p, q)
    BY <1>0, CutEnds
  <2> QED
    BY <1>0, <1>3, <2>1, MergedIs
<1>5. \E w : w \in Merged(p, x)'
  <2>1. CASE x = Entry
    BY <1>3, <2>1
  <2>2. CASE x # Entry
    <3>1. Preds(x)' # {}
      BY <1>0, <2>2, EnteredNext DEF EnteredFact, Cut, Entry
    <3>2. PICK q \in Preds(x)' : q \in Block
      BY <1>0, <3>1
    <3>3. SitesAtEnd(p, q)' # {}
      BY <3>2, CutEnds
    <3> QED
      BY <1>3, <3>2, <3>3
  <2> QED
    BY <2>1, <2>2
<1> QED
  BY <1>1, <1>4, <1>5

LEMMA CutReads ==
    ASSUME NEW p \in PR, NEW e, NEW s, Cut(p, e, s)
    PROVE  ReadsAre(p)'
<1>0. code' = code /\ LiveTypes
  BY DEF Cut
<1> SUFFICES ASSUME NEW x \in Block, NEW i \in DOMAIN code[x], p \in code[x][i].reads
             PROVE  ReadSites(p, x, i)' = SitesBefore(p, x, i)'
  BY <1>0 DEF ReadsAre
<1>1. i # 0
  BY <1>0 DEF LiveTypes
<1>2. ReadSites(p, x, i) = SitesBefore(p, x, i)
  BY DEF Cut, BuiltAt, ReadsAre
<1>3. ReadSites(p, x, i)' = ReadSites(p, x, i)
  <2>1. \A l : l.user = Reader(x, i) => l.user.i # 0
    BY <1>1 DEF Reader
  <2>2. ReadSites(p, x, i) = {l.site : l \in {k \in LinksOf(p) : k.user = Reader(x, i)}}
    BY DEF ReadSites, LinksOf
  <2>3. ReadSites(p, x, i)' = {l.site : l \in {k \in LinksOf(p)' : k.user = Reader(x, i)}}
    BY DEF ReadSites, LinksOf, Reader
  <2>4. {k \in LinksOf(p)' : k.user = Reader(x, i)} = {k \in LinksOf(p) : k.user = Reader(x, i)}
    BY <2>1 DEF Cut
  <2> QED
    BY <2>2, <2>3, <2>4
<1>4. Above(p, x, i)' = Above(p, x, i)
  BY CutGraph DEF Above
<1>5. SitesBefore(p, x, i)' = IF Above(p, x, i) # {} THEN {<<x, LastAmong(Above(p, x, i))>>}
                              ELSE Merged(p, x)'
  <2>1. BeforeFact'
    BY PathsAreNext DEF PathFacts
  <2>2. LastAmong(Above(p, x, i))' = LastAmong(Above(p, x, i))
    BY <1>4 DEF LastAmong
  <2> QED
    BY <1>4, <2>1, <2>2 DEF BeforeFact
<1>6. CASE Above(p, x, i) # {}
  BY <1>2, <1>3, <1>5, <1>6, SitesBeforeIs
<1>7. CASE Above(p, x, i) = {}
  <2>1. x \in LiveAt(p) \ phi[p]
    BY <1>0, <1>7, AboveNone
  <2>2. Merged(p, x)' = Merged(p, x)
    BY <2>1, CutMerged
  <2> QED
    BY <1>2, <1>3, <1>5, <1>7, <2>2, SitesBeforeIs
<1> QED
  BY <1>6, <1>7

LEMMA CutOperands ==
    ASSUME NEW p \in PR, NEW e, NEW s, Cut(p, e, s)
    PROVE  OperandsAre(p)'
<1>0. LiveAt(p)' \subseteq LiveAt(p) /\ phi'[p] = phi[p] /\ phi[p] \subseteq Block
  BY CutGraph DEF Cut
<1> SUFFICES ASSUME NEW x \in phi[p], x \in LiveAt(p)
             PROVE  OperandSites(p, x)' = Arriving(p, x)'
  BY <1>0 DEF OperandsAre
<1>1. OperandSites(p, x) = Arriving(p, x)
  BY DEF Cut, BuiltAt, OperandsAre
<1>2. x \in Block /\ \A q : q \in Preds(x)' <=> q \in Preds(x) /\ ~(x = s /\ q = e)
  BY <1>0, CutGraph
<1>3. ASSUME NEW q \in Preds(x)
      PROVE  SitesAtEnd(p, q)' = SitesAtEnd(p, q)
  BY LiveOutOfPreds, CutEnds DEF Preds
<1>4. ArrivingFact' /\ OperandsFact /\ OperandsFact'
  BY PathsAre, PathsAreNext DEF PathFacts
<1>5. ASSUME NEW w
      PROVE  w \in Arriving(p, x)' <=> \E q \in Preds(x)' : \E d \in SitesAtEnd(p, q)' : w = <<q, d>>
  BY <1>4 DEF ArrivingFact
<1>6. ASSUME NEW w
      PROVE  w \in OperandSites(p, x) <=>
               \E l \in LinksOf(p) : l.user.bb = x /\ l.user.i = 0 /\ w = <<l.user.from, l.site>>
  BY <1>4 DEF OperandsFact
<1>7. ASSUME NEW w
      PROVE  w \in OperandSites(p, x)' <=>
               \E l \in LinksOf(p)' : l.user.bb = x /\ l.user.i = 0 /\ w = <<l.user.from, l.site>>
  BY <1>4 DEF OperandsFact
<1>8. ASSUME NEW w \in OperandSites(p, x)'
      PROVE  w \in Arriving(p, x)'
  <2>1. PICK l \in LinksOf(p)' : l.user.bb = x /\ l.user.i = 0 /\ w = <<l.user.from, l.site>>
    BY <1>7
  <2>2. l \in LinksOf(p) /\ ~(x = s /\ l.user.from = e)
    BY <2>1 DEF Cut
  <2>3. w \in Arriving(p, x)
    BY <1>1, <1>6, <2>1, <2>2
  <2>4. PICK q \in Preds(x) : \E d \in SitesAtEnd(p, q) : w = <<q, d>>
    BY <2>3, ArrivingIs
  <2>5. q = l.user.from
    BY <2>1, <2>4
  <2>6. q \in Preds(x)'
    BY <1>2, <2>2, <2>4, <2>5
  <2> QED
    BY <1>3, <1>5, <2>4, <2>6
<1>9. ASSUME NEW w \in Arriving(p, x)'
      PROVE  w \in OperandSites(p, x)'
  <2>1. PICK q \in Preds(x)' : \E d \in SitesAtEnd(p, q)' : w = <<q, d>>
    BY <1>5
  <2>2. q \in Preds(x) /\ ~(x = s /\ q = e)
    BY <1>2, <2>1
  <2>3. w \in OperandSites(p, x)
    BY <1>1, <1>3, <2>1, <2>2, ArrivingIs
  <2>4. PICK l \in LinksOf(p) : l.user.bb = x /\ l.user.i = 0 /\ w = <<l.user.from, l.site>>
    BY <1>6, <2>3
  <2>5. l.user.from = q
    BY <2>1, <2>4
  <2>6. l \in LinksOf(p)'
    BY <2>2, <2>4, <2>5 DEF Cut
  <2> QED
    BY <1>7, <2>4, <2>6
<1> QED
  BY <1>8, <1>9

LEMMA CutBuilt ==
    ASSUME NEW p \in PR, NEW e, NEW s, Cut(p, e, s)
    PROVE  BuiltAt(p)'
<1>1. Entry \notin phi'[p]
  BY DEF Cut, BuiltAt
<1>2. OneArrives(p)'
  <2>1. LiveAt(p)' \subseteq LiveAt(p) /\ phi'[p] = phi[p]
    BY CutGraph DEF Cut
  <2> SUFFICES ASSUME NEW x \in LiveAt(p) \ phi[p] PROVE \E v : Merged(p, x)' = {v}
    BY <2>1 DEF OneArrives
  <2> QED
    BY CutMerged DEF Cut, BuiltAt, OneArrives
<1> QED
  BY <1>1, <1>2, CutReads, CutOperands DEF BuiltAt, Entry

LEMMA DropBuilt ==
    ASSUME IInv, IInv', TypeInv, \A p \in PR : BuiltAt(p),
           NEW e \in Block, NEW s \in succ[e], DropEdge(e, s)
    PROVE  \A p \in PR : BuiltAt(p)'
<1> TAKE p \in PR
<1>1. /\ code' = code /\ phi' = phi /\ succ' = [succ EXCEPT ![e] = @ \ {s}]
      /\ link' = {l \in link : ~(l.user.bb = s /\ l.user.i = 0 /\ l.user.from = e)}
  BY DEF DropEdge
<1>2. Graph /\ Graph' /\ LiveTypes /\ phi[p] \subseteq Block
  BY DEF IInv, Types, Graph, TypeInv, SSATypes
<1>3. LinksOf(p)' = {l \in LinksOf(p) : ~(l.user.bb = s /\ l.user.i = 0 /\ l.user.from = e)}
  <2>1. LinksOf(p)' = {l \in link' : l.pr = p}
    BY DEF LinksOf
  <2> QED
    BY <1>1, <2>1 DEF LinksOf
<1>4. Cut(p, e, s)
  BY <1>1, <1>2, <1>3 DEF Cut
<1> QED
  BY <1>4, CutBuilt

LEMMA NextBuilt ==
    IInv /\ IInv' /\ TypeInv /\ PlaceInv /\ RenameInv /\ BuiltInv /\ [Next]_vars => BuiltInv'
<1> SUFFICES ASSUME IInv, IInv', TypeInv, PlaceInv, RenameInv, BuiltInv, [Next]_vars, Built',
                    ~change', ~differs'
             PROVE  \A p \in PR : BuiltAt(p)'
  BY DEF BuiltInv
<1>0. pc' \in {"refine", "built"}
  BY DEF Built
<1>1. CASE LiveNext /\ UNCHANGED ssaVars
  BY <1>0, <1>1 DEF LiveNext, Perform, SweepBB, SweepAgain, Solved, NothingRedundant, Eliminate,
     FadeBB, FadeAgain, Faded
<1>2. CASE InitMapInfo \/ PlacePhi \/ InitVPRStack \/ (\E b \in Block : VisitBB(b)) \/ LeaveBB
  <2>1. pc' \in {"place", "rename"}
    BY <1>2 DEF InitMapInfo, PlacePhi, InitVPRStack, VisitBB, LeaveBB, liveVars
  <2> QED
    BY <1>0, <2>1
<1>3. CASE StartRefine
  <2>1. /\ pc = "rename" /\ renamed = Block /\ change' = change /\ differs' = differs
        /\ succ' = succ /\ code' = code /\ phi' = phi /\ link' = link
    BY <1>3 DEF StartRefine, program, solving, fading
  <2>2. \A p \in PR : BuiltAt(p)
    BY <2>1, StartRefineBuilt
  <2>3. \A p \in PR : LinksOf(p)' = LinksOf(p) /\ phi'[p] = phi[p]
    BY <2>1 DEF LinksOf
  <2>4. \A p \in PR : BuiltAt(p)' = BuiltAt(p)
    BY <2>1, <2>3, BuiltStays
  <2> QED
    BY <2>2, <2>4
<1>4. CASE RefineBB
  <2>1. pc = "refine" /\ change' = change /\ differs' = differs
    BY <1>4 DEF RefineBB, liveVars, solving, fading
  <2>2. \A p \in PR : BuiltAt(p)
    BY <2>1 DEF BuiltInv, Built
  <2> QED
    BY <1>4, <2>2, RefineBuilt
<1>5. CASE RefineDone \/ UNCHANGED vars
  <2>1. /\ change' = change /\ differs' = differs /\ succ' = succ /\ code' = code
        /\ phi' = phi /\ link' = link /\ (pc' = pc \/ pc = "refine")
    BY <1>5 DEF RefineDone, vars, liveVars, program, solving, fading, ssaVars
  <2>2. \A p \in PR : BuiltAt(p)
    BY <1>0, <2>1 DEF BuiltInv, Built
  <2>3. \A p \in PR : LinksOf(p)' = LinksOf(p) /\ phi'[p] = phi[p]
    BY <2>1 DEF LinksOf
  <2>4. \A p \in PR : BuiltAt(p)' = BuiltAt(p)
    BY <2>1, <2>3, BuiltStays
  <2> QED
    BY <2>2, <2>4
<1>6. ASSUME NEW e \in Block, NEW s \in succ[e], DropEdge(e, s)
      PROVE  \A p \in PR : BuiltAt(p)'
  <2>1. pc = "built" /\ change' = change /\ differs' = differs
    BY <1>6 DEF DropEdge, solving, fading
  <2>2. \A p \in PR : BuiltAt(p)
    BY <2>1 DEF BuiltInv, Built
  <2> QED
    BY <1>6, <2>2, DropBuilt
<1> QED
  BY <1>1, <1>2, <1>3, <1>4, <1>5, <1>6 DEF Next, Done

LEMMA BuiltInvHolds == Spec => []BuiltInv
<1>1. SSAInit => BuiltInv
  BY DEF SSAInit, LiveInit, BuiltInv, Built
<1> QED
  BY <1>1, NextBuilt, InvariantHolds, TypeInvHolds, PlaceInvHolds, RenameInvHolds, PTL DEF Spec

LEMMA BuiltMeans ==
    BuiltInv /\ ~change /\ ~differs => ReadsSeeTheirVersion /\ OperandsSeeTheirVersion
<1> SUFFICES ASSUME BuiltInv, ~change, ~differs
             PROVE  ReadsSeeTheirVersion /\ OperandsSeeTheirVersion
  OBVIOUS
<1>1. Built => \A p \in PR : ReadsAre(p) /\ OperandsAre(p)
  BY DEF BuiltInv, BuiltAt
<1>2. ReadsSeeTheirVersion
  BY <1>1 DEF ReadsAre, ReadSites, ReadsSeeTheirVersion
<1>3. OperandsSeeTheirVersion
  BY <1>1 DEF OperandsAre, OperandSites, Arriving, OperandsSeeTheirVersion
<1> QED
  BY <1>2, <1>3

\* Once rename is through, and while refinePhi takes PHIs away and branches lose
\* edges, each read and each operand of a live PHI is linked with exactly the
\* definition that the paths bring to it, unless computeGlobal or
\* eliminateRedundantLiveness had been stopped by their bound.
THEOREM UsersSeeTheirVersion ==
    Spec => [](~change /\ ~differs => ReadsSeeTheirVersion /\ OperandsSeeTheirVersion)
BY BuiltInvHolds, BuiltMeans, PTL

\* With bounds that both data flows stay below, renameRHS links each read with
\* the definition that arrives there, and nothing later links it with another.
THEOREM ReadsSeeTheirs == ASSUME EnoughRounds PROVE Spec => []ReadsSeeTheirVersion
<1>1. BuiltInv /\ ConvergeInv => ReadsSeeTheirVersion
  BY BuiltConverged, BuiltMeans DEF ReadsSeeTheirVersion
<1> QED
  BY <1>1, BuiltInvHolds, ConvergeInvHolds, PTL

\* The same for the operands that handlePhiOpndInSucc gives to the PHIs: each is
\* linked with what arrives at the end of the predecessor it stands for.
THEOREM OperandsSeeTheirs == ASSUME EnoughRounds PROVE Spec => []OperandsSeeTheirVersion
<1>1. BuiltInv /\ ConvergeInv => OperandsSeeTheirVersion
  BY BuiltConverged, BuiltMeans DEF OperandsSeeTheirVersion
<1> QED
  BY <1>1, BuiltInvHolds, ConvergeInvHolds, PTL

=============================================================================
