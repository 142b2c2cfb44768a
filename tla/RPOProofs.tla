------------------------------ MODULE RPOProofs ------------------------------
(***************************************************************************)
(* Under a valid numbering no two blocks share a number and no number      *)
(* leaks, for all graphs, gaps and sequences of edits, in debug and in     *)
(* release builds. When the CFGs to begin with are reducible, its numbers  *)
(* and its list go up along every edge that does not close a loop, until a *)
(* trampoline edge is redirected.                                          *)
(***************************************************************************)
EXTENDS RPO, FiniteSetTheorems, WellFoundedInduction, TLAPS

USE RPOAssumption

-----------------------------------------------------------------------------
(* The inductive invariant *)

\* The entry has no predecessor, and reaches every vertex: a closed set that
\* holds it is everything. This is what lets the search number them all.
Connected(vs, es) == \A S \in SUBSET vs : Entry \in S /\ Closed(S, es) => S = vs

GraphInv ==
    /\ vexs \subseteq Vertices /\ Entry \in vexs
    /\ edges \subseteq vexs \X (vexs \ {Entry})
    /\ Connected(vexs, edges)

\* The search has numbered the vertices of the list and nothing else: with
\* distinct multiples of the gap, above the number that comes next.
NextNumber == (Cardinality(vexs) - Len(order) - 1) * RPO_INTERVAL

Distinct(S, num) == \A u, v \in S : num[u] = num[v] => u = v

SearchInv ==
    /\ stk \in Seq(vexs) /\ order \in Seq(vexs)
    /\ IF verifying THEN debug /\ valid ELSE ~valid /\ used = {}
    /\ Entry \in Visited
    /\ \A v \in ToSet(order) :
        /\ Succs(v) \subseteq Visited
        /\ rpo[v] \in Int /\ rpo[v] % RPO_INTERVAL = 0 /\ rpo[v] > NextNumber
    /\ Distinct(ToSet(order), rpo)

\* A number inside a gap that some vertex has is in use. The converse is lost
\* to verifyDom, so in debug builds only.
NumbersInv ==
    /\ \A v \in vexs : rpo[v] # RPO_UNDEF
    /\ Distinct(vexs, rpo)
    /\ \A v \in vexs : rpo[v] % RPO_INTERVAL # 0 => rpo[v] \in used
    /\ debug \/ \A k \in used :
                   \E v \in vexs : rpo[v] = k /\ rpo[v] % RPO_INTERVAL # 0

IInv ==
    /\ GraphInv
    /\ DOMAIN rpo = Vertices
    /\ IF stk # <<>> THEN SearchInv
       ELSE order = <<>> /\ (valid => NumbersInv)

-----------------------------------------------------------------------------
(* The graph stays connected *)

LEMMA HasPred ==
    ASSUME GraphInv, NEW v \in vexs, v # Entry
    PROVE  Preds(v) # {}
<1> SUFFICES ASSUME Preds(v) = {} PROVE FALSE
  OBVIOUS
<1>1. Closed(vexs \ {v}, edges)
  BY DEF Closed, Preds, GraphInv
<1> QED
  BY <1>1 DEF GraphInv, Connected

\* A new vertex that takes over some in-edges of v.
LEMMA InFrontOfConnected ==
    ASSUME GraphInv, NEW v \in vexs, v # Entry, NEW new \in Vertices \ vexs,
           NEW preds \in SUBSET Preds(v), preds # {}
    PROVE  /\ InFrontOf(v, new, preds)
                  \subseteq (vexs \cup {new}) \X ((vexs \cup {new}) \ {Entry})
           /\ Connected(vexs \cup {new}, InFrontOf(v, new, preds))
<1> DEFINE es == InFrontOf(v, new, preds)
<1>1. preds \subseteq vexs /\ new # Entry /\ new \notin vexs /\ Entry \in vexs
      /\ edges \subseteq vexs \X (vexs \ {Entry})
  BY DEF Preds, GraphInv
<1>2. es \subseteq (vexs \cup {new}) \X ((vexs \cup {new}) \ {Entry})
  BY <1>1 DEF InFrontOf
<1>3. ASSUME NEW S \in SUBSET (vexs \cup {new}), Entry \in S, Closed(S, es)
      PROVE  S = vexs \cup {new}
  <2>1. /\ \A e \in edges \ (preds \X {v}) : e[1] \in S => e[2] \in S
        /\ \A p \in preds : p \in S => new \in S
        /\ new \in S => v \in S
    <3>1. /\ edges \ (preds \X {v}) \subseteq es
          /\ \A p \in preds : <<p, new>> \in es
          /\ <<new, v>> \in es
      BY DEF InFrontOf
    <3> QED
      BY <3>1, <1>3 DEF Closed
  <2>2. Closed(S \ {new}, edges)
    <3> SUFFICES ASSUME NEW e \in edges, e[1] \in S \ {new}
                 PROVE  e[2] \in S \ {new}
      BY DEF Closed
    <3>1. e[1] \in vexs /\ e[2] \in vexs
      BY <1>1
    <3>2. CASE e \in preds \X {v}
      BY <3>1, <3>2, <2>1, <1>1
    <3>3. CASE e \notin preds \X {v}
      BY <3>1, <3>3, <2>1, <1>1
    <3> QED
      BY <3>2, <3>3
  <2>3. S \ {new} = vexs
    BY <2>2, <1>1, <1>3 DEF GraphInv, Connected
  <2> QED
    BY <2>1, <2>3, <1>1
<1> QED
  BY <1>2, <1>3 DEF Connected

\* A new vertex on an edge.
LEMMA OnEdgeConnected ==
    ASSUME GraphInv, NEW m \in vexs, NEW n \in Succs(m),
           NEW new \in Vertices \ vexs,
           NEW es, es = (edges \ {<<m, n>>}) \cup {<<m, new>>, <<new, n>>}
    PROVE  /\ es \subseteq (vexs \cup {new}) \X ((vexs \cup {new}) \ {Entry})
           /\ Connected(vexs \cup {new}, es)
<1>1. /\ new # Entry /\ new \notin vexs /\ Entry \in vexs
      /\ edges \subseteq vexs \X (vexs \ {Entry})
      /\ <<m, n>> \in edges /\ n \in vexs \ {Entry}
  BY DEF Succs, GraphInv
<1>2. es \subseteq (vexs \cup {new}) \X ((vexs \cup {new}) \ {Entry})
  BY <1>1
<1>3. ASSUME NEW S \in SUBSET (vexs \cup {new}), Entry \in S, Closed(S, es)
      PROVE  S = vexs \cup {new}
  <2>1. /\ \A e \in edges \ {<<m, n>>} : e[1] \in S => e[2] \in S
        /\ m \in S => new \in S
        /\ new \in S => n \in S
    <3>1. edges \ {<<m, n>>} \subseteq es /\ <<m, new>> \in es /\ <<new, n>> \in es
      OBVIOUS
    <3> QED
      BY <3>1, <1>3 DEF Closed
  <2>2. Closed(S \ {new}, edges)
    <3> SUFFICES ASSUME NEW e \in edges, e[1] \in S \ {new}
                 PROVE  e[2] \in S \ {new}
      BY DEF Closed
    <3>1. e[1] \in vexs /\ e[2] \in vexs
      BY <1>1
    <3>2. CASE e = <<m, n>>
      BY <3>1, <3>2, <2>1, <1>1
    <3>3. CASE e # <<m, n>>
      BY <3>1, <3>3, <2>1, <1>1
    <3> QED
      BY <3>2, <3>3
  <2>3. S \ {new} = vexs
    BY <2>2, <1>1, <1>3 DEF GraphInv, Connected
  <2> QED
    BY <2>1, <2>3, <1>1
<1> QED
  BY <1>2, <1>3 DEF Connected

\* A vertex with one successor goes away, its predecessors lead to that one.
LEMMA BypassConnected ==
    ASSUME GraphInv, NEW v \in vexs, v # Entry, NEW s \in vexs, s # v,
           Succs(v) = {s},
           NEW es,
           es = {e \in edges : v \notin {e[1], e[2]}} \cup (Preds(v) \X {s})
    PROVE  /\ es \subseteq (vexs \ {v}) \X ((vexs \ {v}) \ {Entry})
           /\ Connected(vexs \ {v}, es)
<1>1. /\ Entry \in vexs /\ edges \subseteq vexs \X (vexs \ {Entry})
      /\ <<v, s>> \in edges /\ s # Entry
      /\ Preds(v) \subseteq vexs \ {v}
  BY DEF Succs, Preds, GraphInv
<1>2. es \subseteq (vexs \ {v}) \X ((vexs \ {v}) \ {Entry})
  BY <1>1
<1>3. ASSUME NEW S \in SUBSET (vexs \ {v}), Entry \in S, Closed(S, es)
      PROVE  S = vexs \ {v}
  <2> DEFINE T == S \cup {u \in {v} : s \in S}
  <2>1. Closed(T, edges)
    <3> SUFFICES ASSUME NEW e \in edges, e[1] \in T PROVE e[2] \in T
      BY DEF Closed
    <3>1. e[1] \in vexs /\ e[2] \in vexs /\ e = <<e[1], e[2]>>
      BY <1>1
    <3>2. CASE e[1] = v
      <4>1. e[2] \in Succs(v)
        BY <3>1, <3>2 DEF Succs
      <4> QED
        BY <4>1, <3>2, <1>3
    <3>3. CASE e[1] # v /\ e[2] = v
      <4>1. <<e[1], s>> \in es
        BY <3>1, <3>3 DEF Preds
      <4> QED
        BY <4>1, <3>3, <1>3 DEF Closed
    <3>4. CASE e[1] # v /\ e[2] # v
      BY <3>4, <1>3 DEF Closed
    <3> QED
      BY <3>2, <3>3, <3>4
  <2>2. T = vexs
    <3>1. T \in SUBSET vexs /\ Entry \in T
      BY <1>3
    <3> QED
      BY <3>1, <2>1 DEF GraphInv, Connected
  <2> QED
    BY <2>2, <1>3
<1> QED
  BY <1>2, <1>3 DEF Connected

\* An edge that led to v from p leads to v's one successor: v keeps another
\* predecessor.
LEMMA RedirectConnected ==
    ASSUME GraphInv, NEW v \in vexs, NEW p \in Preds(v), Preds(v) # {p},
           NEW s \in vexs, s # v, Succs(v) = {s},
           NEW es, es = (edges \ {<<p, v>>}) \cup {<<p, s>>}
    PROVE  /\ es \subseteq vexs \X (vexs \ {Entry})
           /\ Connected(vexs, es)
<1>1. /\ Entry \in vexs /\ edges \subseteq vexs \X (vexs \ {Entry})
      /\ <<v, s>> \in edges /\ s # Entry /\ p \in vexs /\ <<p, v>> \in edges
      /\ Preds(v) \subseteq vexs \ {v} /\ v # Entry
  BY DEF Succs, Preds, GraphInv
<1>2. es \subseteq vexs \X (vexs \ {Entry})
  BY <1>1
<1>3. ASSUME NEW S \in SUBSET vexs, Entry \in S, Closed(S, es)
      PROVE  S = vexs
  <2>1. \A e \in edges : e # <<p, v>> /\ e[1] \in S => e[2] \in S
    BY <1>3 DEF Closed
  <2>2. p \in S => s \in S
    <3>1. <<p, s>> \in es
      OBVIOUS
    <3> QED
      BY <3>1, <1>3 DEF Closed
  <2>3. SUFFICES ASSUME v \notin S PROVE FALSE
    <3>1. ASSUME v \in S PROVE Closed(S, edges)
      BY <3>1, <2>1 DEF Closed
    <3> QED
      BY <2>3, <3>1, <1>3 DEF GraphInv, Connected
  <2>4. p \in S
    <3>1. ASSUME p \notin S PROVE Closed(S, edges)
      BY <3>1, <2>1 DEF Closed
    <3> QED
      BY <2>3, <3>1, <1>3 DEF GraphInv, Connected
  <2>5. Closed(S \cup {v}, edges)
    <3> SUFFICES ASSUME NEW e \in edges, e[1] \in S \cup {v}
                 PROVE  e[2] \in S \cup {v}
      BY DEF Closed
    <3>1. CASE e[1] = v
      <4>1. e[2] \in Succs(v)
        BY <3>1, <1>1 DEF Succs
      <4> QED
        BY <4>1, <2>2, <2>4
    <3>2. CASE e[1] # v
      BY <3>2, <2>1
    <3> QED
      BY <3>1, <3>2
  <2>6. S \cup {v} = vexs
    BY <2>5, <1>3 DEF GraphInv, Connected
  <2>7. PICK q \in Preds(v) : q # p
    OBVIOUS
  <2>8. q \in S /\ <<q, v>> \in edges
    BY <2>6, <1>1 DEF Preds
  <2> QED
    BY <2>8, <2>7, <2>1, <2>3
<1> QED
  BY <1>2, <1>3 DEF Connected

\* What stays reachable without some edges.
LEMMA ReachConnected ==
    ASSUME GraphInv, NEW es \in SUBSET edges,
           NEW keep, keep = Reach(vexs, es)
    PROVE  /\ keep \subseteq vexs /\ Entry \in keep
           /\ {e \in es : e[1] \in keep} \subseteq keep \X (keep \ {Entry})
           /\ Connected(keep, {e \in es : e[1] \in keep})
<1>1. keep \subseteq vexs /\ Entry \in keep
  BY DEF Reach, GraphInv
<1>2. ASSUME NEW e \in es, e[1] \in keep PROVE e \in keep \X (keep \ {Entry})
  <2>1. e = <<e[1], e[2]>> /\ e[2] \in vexs \ {Entry}
    BY DEF GraphInv
  <2>2. e[2] \in keep
    BY <2>1, <1>2 DEF Reach, Closed
  <2> QED
    BY <2>1, <2>2, <1>2
<1>3. ASSUME NEW S \in SUBSET keep, Entry \in S,
             Closed(S, {e \in es : e[1] \in keep})
      PROVE  S = keep
  <2>1. Closed(S, es)
    BY <1>3 DEF Closed
  <2> QED
    BY <2>1, <1>1, <1>3 DEF Reach
<1> QED
  BY <1>1, <1>2, <1>3 DEF Connected
-----------------------------------------------------------------------------
(* Sequences as sets *)

LEMMA PushToSet ==
    ASSUME NEW X, NEW s \in Seq(X), NEW x
    PROVE  ToSet(<<x>> \o s) = {x} \cup ToSet(s)
<1>1. /\ Len(<<x>>) = 1 /\ <<x>>[1] = x
      /\ DOMAIN (<<x>> \o s) = 1..(1 + Len(s)) /\ Len(s) \in Nat
      /\ DOMAIN s = 1..Len(s)
      /\ \A i \in 1..(1 + Len(s)) :
            (<<x>> \o s)[i] = IF i <= 1 THEN <<x>>[i] ELSE s[i - 1]
  OBVIOUS
<1>2. \A i \in DOMAIN s : i + 1 \in 1..(1 + Len(s)) /\ ~(i + 1 <= 1) /\ (i + 1) - 1 = i
  BY <1>1
<1>3. \A i \in 1..(1 + Len(s)) : i # 1 => i - 1 \in DOMAIN s /\ ~(i <= 1)
  BY <1>1
<1>4. 1 \in 1..(1 + Len(s)) /\ 1 <= 1
  BY <1>1
<1>5. (<<x>> \o s)[1] = x
  BY <1>1, <1>4
<1>6. \A i \in DOMAIN s : (<<x>> \o s)[i + 1] = s[i]
  BY <1>1, <1>2
<1>7. \A i \in 1..(1 + Len(s)) : i # 1 => (<<x>> \o s)[i] = s[i - 1]
  BY <1>1, <1>3
<1>8. ASSUME NEW y \in ToSet(<<x>> \o s) PROVE y \in {x} \cup ToSet(s)
  <2>1. PICK i \in 1..(1 + Len(s)) : y = (<<x>> \o s)[i]
    BY <1>1 DEF ToSet
  <2>2. CASE i = 1
    BY <2>1, <2>2, <1>5
  <2>3. CASE i # 1
    BY <2>1, <2>3, <1>3, <1>7 DEF ToSet
  <2> QED
    BY <2>2, <2>3
<1>9. x \in ToSet(<<x>> \o s)
  BY <1>1, <1>4, <1>5 DEF ToSet
<1>10. ASSUME NEW y \in ToSet(s) PROVE y \in ToSet(<<x>> \o s)
  <2>1. PICK i \in DOMAIN s : y = s[i]
    BY DEF ToSet
  <2>2. i + 1 \in DOMAIN (<<x>> \o s) /\ y = (<<x>> \o s)[i + 1]
    BY <2>1, <1>1, <1>2, <1>6
  <2> QED
    BY <2>2 DEF ToSet
<1> QED
  BY <1>8, <1>9, <1>10

LEMMA PopToSet ==
    ASSUME NEW X, NEW s \in Seq(X), s # <<>>
    PROVE  /\ Head(s) \in X /\ Tail(s) \in Seq(X)
           /\ ToSet(s) = {Head(s)} \cup ToSet(Tail(s))
           /\ Tail(s) = <<>> => ToSet(Tail(s)) = {}
<1>1. /\ Head(s) \in X /\ Tail(s) \in Seq(X) /\ s = <<Head(s)>> \o Tail(s)
  OBVIOUS
<1>2. ToSet(<<>>) = {}
  BY DEF ToSet
<1> QED
  BY <1>1, <1>2, PushToSet

-----------------------------------------------------------------------------
(* The search *)

LEMMA VisitKidInv == IInv /\ VisitKid => IInv'
<1> SUFFICES ASSUME IInv, VisitKid PROVE IInv'
  OBVIOUS
<1>1. PICK w \in Succs(Head(stk)) \ Visited : stk' = <<w>> \o stk
  BY DEF VisitKid
<1>2. SearchInv /\ w \in vexs /\ stk # <<>>
  BY <1>1 DEF IInv, VisitKid, Succs
<1>3. UNCHANGED <<vexs, edges, rpo, used, valid, order, verifying, debug>>
  BY DEF VisitKid
<1>4. stk' \in Seq(vexs) /\ ToSet(stk') = {w} \cup ToSet(stk)
  BY <1>1, <1>2, PushToSet DEF SearchInv
<1>5. GraphInv' /\ (DOMAIN rpo = Vertices)'
  BY <1>3 DEF IInv, GraphInv, Connected, Closed
<1>6. SearchInv' /\ stk' # <<>>
  BY <1>1, <1>2, <1>3, <1>4
     DEF SearchInv, Visited, Succs, NextNumber, Distinct
<1> QED
  BY <1>2, <1>3, <1>5, <1>6 DEF IInv

LEMMA Multiple ==
    ASSUME NEW k \in Int
    PROVE  k * RPO_INTERVAL \in Int /\ (k * RPO_INTERVAL) % RPO_INTERVAL = 0
OBVIOUS

LEMMA LeaveVertexInv == IInv /\ LeaveVertex => IInv'
<1> SUFFICES ASSUME IInv, LeaveVertex PROVE IInv'
  OBVIOUS
<1> DEFINE v == Head(stk)
           N == Cardinality(vexs)
           number == (N - Len(order) - 1) * RPO_INTERVAL
           listed == <<v>> \o order
           next   == (N - Len(listed) - 1) * RPO_INTERVAL
<1>1. /\ stk # <<>> /\ Succs(v) \subseteq Visited
      /\ stk' = Tail(stk)
      /\ order' = IF Tail(stk) = <<>> THEN <<>> ELSE listed
      /\ rpo' = [rpo EXCEPT ![v] = number]
      /\ valid' = (valid \/ Tail(stk) = <<>>)
      /\ UNCHANGED <<vexs, edges, used, verifying, debug>>
  BY DEF LeaveVertex
<1>2. SearchInv /\ DOMAIN rpo = Vertices /\ GraphInv
  BY <1>1 DEF IInv
<1>3. /\ v \in vexs /\ v \in Vertices /\ stk' \in Seq(vexs)
      /\ ToSet(stk) = {v} \cup ToSet(stk')
      /\ stk' = <<>> => ToSet(stk') = {}
  BY <1>1, <1>2, PopToSet DEF SearchInv, GraphInv
<1>4. /\ listed \in Seq(vexs) /\ Len(listed) = Len(order) + 1 /\ Len(order) \in Nat
      /\ ToSet(listed) = {v} \cup ToSet(order)
  BY <1>1, <1>2, <1>3, PushToSet DEF SearchInv
<1>5. ToSet(stk') \cup ToSet(listed) = Visited
  BY <1>3, <1>4 DEF Visited
<1>6. N \in Nat
  BY <1>2, FS_Subset, FS_CardinalityType DEF GraphInv
<1>7. /\ number \in Int /\ number % RPO_INTERVAL = 0
      /\ NextNumber = number /\ next \in Int /\ next < number
  <2>1. N - Len(order) - 1 \in Int /\ N - Len(order) - 2 \in Int
    BY <1>4, <1>6
  <2>2. number \in Int /\ number % RPO_INTERVAL = 0 /\ NextNumber = number
    BY <2>1, Multiple DEF NextNumber
  <2>3. next = (N - Len(order) - 2) * RPO_INTERVAL
    <3>1. next = (N - (Len(order) + 1) - 1) * RPO_INTERVAL
      BY <1>4
    <3>2. N - (Len(order) + 1) - 1 = N - Len(order) - 2
      BY <1>4, <1>6
    <3> QED
      BY <3>1, <3>2
  <2>4. (N - Len(order) - 2) * RPO_INTERVAL < (N - Len(order) - 1) * RPO_INTERVAL
    <3>1. \A k \in Int : (k - 1) * RPO_INTERVAL = k * RPO_INTERVAL - RPO_INTERVAL
                         /\ k * RPO_INTERVAL \in Int
      OBVIOUS
    <3>2. N - Len(order) - 2 = (N - Len(order) - 1) - 1
      BY <1>4, <1>6
    <3>3. (N - Len(order) - 2) * RPO_INTERVAL
             = (N - Len(order) - 1) * RPO_INTERVAL - RPO_INTERVAL
      BY <3>1, <3>2, <2>1
    <3> HIDE DEF number, next, N
    <3> QED
      BY <3>1, <3>3, <2>1
  <2> QED
    BY <2>1, <2>2, <2>3, <2>4, Multiple
<1> HIDE DEF number, next, N, v, listed
<1>8. /\ rpo'[v] = number
      /\ \A u \in vexs : u # v => rpo'[u] = rpo[u]
      /\ DOMAIN rpo' = Vertices
  BY <1>1, <1>2, <1>3 DEF GraphInv
<1>9. /\ \A u \in ToSet(order) :
            /\ u \in vexs
            /\ rpo[u] \in Int /\ rpo[u] % RPO_INTERVAL = 0 /\ rpo[u] > number
      /\ Distinct(ToSet(order), rpo)
      /\ \A u \in ToSet(order) : Succs(u) \subseteq Visited
  <2>1. ToSet(order) \subseteq vexs
    BY <1>2 DEF SearchInv, ToSet
  <2> QED
    BY <2>1, <1>2, <1>7 DEF SearchInv
<1>10. \A u \in ToSet(listed) :
            /\ Succs(u)' \subseteq Visited
            /\ rpo'[u] \in Int /\ rpo'[u] % RPO_INTERVAL = 0
            /\ rpo'[u] > next
  <2> TAKE u \in ToSet(listed)
  <2>1. Succs(u)' \subseteq Visited
    <3>1. Succs(u)' = Succs(u)
      BY <1>1 DEF Succs
    <3>2. Succs(v) \subseteq Visited
      BY <1>1 DEF v
    <3> QED
      BY <3>1, <3>2, <1>4, <1>9
  <2>2. CASE u = v
    BY <2>1, <2>2, <1>7, <1>8
  <2>3. CASE u # v
    BY <2>1, <2>3, <1>4, <1>7, <1>8, <1>9
  <2> QED
    BY <2>2, <2>3
<1>11. Distinct(ToSet(listed), rpo')
  <2> SUFFICES ASSUME NEW x \in ToSet(listed), NEW y \in ToSet(listed),
                      rpo'[x] = rpo'[y]
               PROVE  x = y
    BY DEF Distinct
  <2>1. CASE x # v /\ y # v
    BY <2>1, <1>4, <1>8, <1>9 DEF Distinct
  <2>2. CASE x # v /\ y = v
    BY <2>2, <1>4, <1>7, <1>8, <1>9
  <2>3. CASE x = v /\ y # v
    BY <2>3, <1>4, <1>7, <1>8, <1>9
  <2> QED
    BY <2>1, <2>2, <2>3
<1>12. GraphInv' /\ (DOMAIN rpo = Vertices)'
  BY <1>1, <1>2, <1>8 DEF GraphInv, Connected, Closed
\* The search goes on.
<1>13. CASE stk' # <<>>
  <2>1. order' = listed /\ (valid' <=> valid)
    BY <1>1, <1>13
  <2>2. Visited' = Visited
    BY <2>1, <1>5 DEF Visited
  <2>3. NextNumber' = next
    BY <2>1, <1>1 DEF NextNumber, next, N
  <2>4. SearchInv'
    BY <2>1, <2>2, <2>3, <1>1, <1>2, <1>3, <1>4, <1>10, <1>11 DEF SearchInv
  <2> QED
    BY <2>4, <1>12, <1>13 DEF IInv
\* It ends: what it has visited is closed, so it is everything.
<1>14. CASE stk' = <<>>
  <2>1. Visited = ToSet(listed)
    BY <1>3, <1>5, <1>14
  <2>2. Closed(ToSet(listed), edges)
    <3> SUFFICES ASSUME NEW e \in edges, e[1] \in ToSet(listed)
                 PROVE  e[2] \in ToSet(listed)
      BY DEF Closed
    <3>1. e[2] \in Succs(e[1])'
      <4>1. e = <<e[1], e[2]>> /\ e[2] \in vexs
        BY <1>2 DEF GraphInv
      <4> QED
        BY <4>1, <1>1 DEF Succs
    <3> QED
      BY <3>1, <2>1, <1>10
  <2>3. ToSet(listed) = vexs
    <3>1. ToSet(listed) \subseteq vexs
      BY <1>4 DEF ToSet
    <3>2. Entry \in ToSet(listed)
      BY <2>1, <1>2 DEF SearchInv
    <3> QED
      BY <3>1, <3>2, <2>2, <1>2 DEF GraphInv, Connected
  <2>4. \A u \in vexs : rpo'[u] # RPO_UNDEF /\ rpo'[u] % RPO_INTERVAL = 0
    <3>1. (-1) % RPO_INTERVAL # 0
      OBVIOUS
    <3> QED
      BY <3>1, <2>3, <1>10 DEF RPO_UNDEF
  <2>5. debug \/ used = {}
    BY <1>2 DEF SearchInv
  <2>6. NumbersInv'
    BY <2>3, <2>4, <2>5, <1>1, <1>11 DEF NumbersInv
  <2>7. order' = <<>>
    BY <1>1, <1>14
  <2> QED
    BY <2>6, <2>7, <1>12, <1>14 DEF IInv
<1> QED
  BY <1>13, <1>14

\* A search starts with nothing but the entry visited.
LEMMA StartInv ==
    ASSUME IInv, stk = <<>>, stk' = <<Entry>>, UNCHANGED <<vexs, edges, rpo, order>>,
           IF verifying' THEN debug' /\ valid' ELSE ~valid' /\ used' = {}
    PROVE  IInv'
<1>1. GraphInv' /\ (DOMAIN rpo = Vertices)'
  BY DEF IInv, GraphInv, Connected, Closed
<1>2. order' = <<>> /\ ToSet(order') = {} /\ Entry \in ToSet(stk') /\ Entry \in vexs
  BY DEF ToSet, IInv, GraphInv
<1>3. SearchInv' /\ stk' # <<>>
  BY <1>2 DEF SearchInv, Visited, Distinct
<1> QED
  BY <1>1, <1>3 DEF IInv

LEMMA computeRPOInv == IInv /\ computeRPO => IInv'
BY StartInv DEF computeRPO, Idle

LEMMA verifyDomInv == IInv /\ verifyDom => IInv'
BY StartInv DEF verifyDom, Idle

-----------------------------------------------------------------------------
(* What the search for a free number returns *)

FreeOrNone(n) == n = RPO_UNDEF \/ isUsableRPO(n)

LEMMA FoundIsFree == \A begin, end : FreeOrNone(tryFindUsableRPO(begin, end))
<1> TAKE begin, end
<1> DEFINE range   == SearchRange(begin, end)
           cand(d) == range[1] + Quotient(range[2] - range[1], d)
           first(d) == /\ isUsableRPO(cand(d))
                       /\ \A c \in 2..(d - 1) : ~isUsableRPO(cand(c))
           found == CHOOSE d \in 2..RPO_INTERVAL : first(d)
<1>1. tryFindUsableRPO(begin, end) =
        IF \E d \in 2..RPO_INTERVAL : first(d) THEN cand(found) ELSE RPO_UNDEF
  BY DEF tryFindUsableRPO
<1>2. (\E d \in 2..RPO_INTERVAL : first(d)) => first(found)
  <2> HIDE DEF first
  <2> QED
    OBVIOUS
<1>3. first(found) => isUsableRPO(cand(found))
  <2> HIDE DEF cand, found
  <2> QED
    OBVIOUS
<1> HIDE DEF cand, found, first
<1> QED
  BY <1>1, <1>2, <1>3 DEF FreeOrNone

LEMMA PriorIsFree == \A m : FreeOrNone(compRPOIfVexPriorMarker(m).found)
  BY FoundIsFree
     DEF compRPOIfVexPriorMarker, SearchBetween, Outcome, FreeOrNone

LEMMA AfterIsFree == \A m : FreeOrNone(compRPOIfMarkerPriorVex(m).found)
  BY FoundIsFree, PriorIsFree
     DEF compRPOIfMarkerPriorVex, compRPOIfMarkerPriorVexCase1, SearchBetween,
         Outcome, FreeOrNone

-----------------------------------------------------------------------------
(* Inserting and removing *)

\* A number that is free in its gap belongs to no vertex.
LEMMA FreeIsNew ==
    ASSUME NumbersInv, NEW n, isUsableRPO(n)
    PROVE  n \notin used /\ n # RPO_UNDEF /\ n % RPO_INTERVAL # 0
           /\ \A v \in vexs : rpo[v] # n
BY DEF NumbersInv, isUsableRPO

LEMMA PlaceKeepsNumbers ==
    ASSUME NumbersInv, GraphInv, DOMAIN rpo = Vertices,
           NEW new \in Vertices \ vexs, NEW m \in vexs, NEW prior, NEW n,
           isUsableRPO(n.found), Place(new, m, prior, n),
           vexs' = vexs \cup {new}, debug' = debug
    PROVE  NumbersInv' /\ DOMAIN rpo' = Vertices
<1>1. /\ m # new /\ m \in Vertices /\ vexs \subseteq Vertices
      /\ rpo' = [rpo EXCEPT
                   ![new] = IF n.swap THEN rpo[m] ELSE n.found,
                   ![m]   = IF n.swap THEN n.found ELSE rpo[m]]
      /\ used' = used \cup {n.found}
  BY DEF Place, GraphInv
<1>2. /\ n.found \notin used /\ n.found # RPO_UNDEF
      /\ n.found % RPO_INTERVAL # 0
      /\ \A v \in vexs : rpo[v] # n.found
  BY FreeIsNew
<1>3. DOMAIN rpo' = Vertices
  BY <1>1
<1>4. /\ \A v \in vexs \ {m} : rpo'[v] = rpo[v]
      /\ \/ rpo'[new] = n.found /\ rpo'[m] = rpo[m]
         \/ rpo'[new] = rpo[m] /\ rpo'[m] = n.found
  BY <1>1
<1>5. /\ \A v \in vexs : rpo[v] # RPO_UNDEF
      /\ \A u, v \in vexs : rpo[u] = rpo[v] => u = v
      /\ \A v \in vexs : rpo[v] % RPO_INTERVAL # 0 => rpo[v] \in used
  BY DEF NumbersInv, Distinct
<1>6. \A v \in vexs' : rpo'[v] # RPO_UNDEF
  BY <1>2, <1>4, <1>5
<1>7. \A u, v \in vexs' : rpo'[u] = rpo'[v] => u = v
  BY <1>1, <1>2, <1>4, <1>5
<1>8. \A v \in vexs' : rpo'[v] % RPO_INTERVAL # 0 => rpo'[v] \in used'
  BY <1>1, <1>2, <1>4, <1>5
<1>9. debug' \/ \A k \in used' :
                  \E v \in vexs' : rpo'[v] = k /\ rpo'[v] % RPO_INTERVAL # 0
  <2> SUFFICES ASSUME ~debug, NEW k \in used'
               PROVE  \E v \in vexs' : rpo'[v] = k /\ rpo'[v] % RPO_INTERVAL # 0
    OBVIOUS
  <2>1. CASE k = n.found
    BY <2>1, <1>1, <1>2, <1>4
  <2>2. CASE k # n.found
    <3>1. k \in used
      BY <2>2, <1>1
    <3>2. PICK v \in vexs : rpo[v] = k /\ rpo[v] % RPO_INTERVAL # 0
      BY <3>1 DEF NumbersInv
    <3> QED
      BY <3>2, <1>1, <1>4
  <2> QED
    BY <2>1, <2>2
<1> QED
  BY <1>3, <1>6, <1>7, <1>8, <1>9 DEF NumbersInv, Distinct

LEMMA InsertInv ==
    ASSUME IInv, NEW new \in Vertices \ vexs, NEW m \in vexs, NEW prior, NEW n,
           NEW es, Insert(new, m, prior, n, es), FreeOrNone(n.found),
           es \subseteq (vexs \cup {new}) \X ((vexs \cup {new}) \ {Entry}),
           Connected(vexs \cup {new}, es)
    PROVE  IInv'
<1>1. stk = <<>> /\ stk' = stk /\ order' = order /\ debug' = debug
  BY DEF Insert, Idle, search
<1>2. CASE debug /\ valid /\ ~n.ok
  <2>1. UNCHANGED <<vexs, edges, rpo, used, vlst, valid>>
    BY <1>2 DEF Insert
  <2> QED
    BY <2>1, <1>1
       DEF IInv, GraphInv, Connected, Closed, NumbersInv, Distinct
<1>3. CASE ~(debug /\ valid /\ ~n.ok)
  <2>1. /\ vexs' = vexs \cup {new} /\ edges' = es
        /\ IF valid /\ n.found # RPO_UNDEF
           THEN Place(new, m, prior, n) ELSE Forget
    BY <1>3 DEF Insert
  <2>2. GraphInv'
    BY <2>1 DEF IInv, GraphInv
  <2>3. CASE valid /\ n.found # RPO_UNDEF
    <3>1. NumbersInv /\ GraphInv /\ DOMAIN rpo = Vertices
          /\ isUsableRPO(n.found) /\ Place(new, m, prior, n)
      BY <1>1, <2>1, <2>3 DEF IInv, FreeOrNone
    <3>2. NumbersInv' /\ DOMAIN rpo' = Vertices
      BY <3>1, <2>1, <1>1, PlaceKeepsNumbers
    <3> QED
      BY <3>2, <2>2, <1>1 DEF IInv
  <2>4. CASE ~(valid /\ n.found # RPO_UNDEF)
    BY <2>1, <2>2, <2>4, <1>1 DEF IInv, Forget
  <2> QED
    BY <2>3, <2>4
<1> QED
  BY <1>2, <1>3

\* Numbers leave with their vertices.
LEMMA RemoveInv ==
    ASSUME IInv, NEW gone \in SUBSET vexs, RemoveVertices(gone),
           stk = <<>>, UNCHANGED <<stk, order, valid, debug>>,
           edges' \subseteq (vexs \ gone) \X ((vexs \ gone) \ {Entry}),
           Entry \notin gone, Connected(vexs \ gone, edges')
    PROVE  IInv'
<1>1. /\ vexs' = vexs \ gone
      /\ used' = used \ {rpo[v] : v \in gone}
      /\ rpo' = [v \in Vertices |-> IF v \in gone THEN RPO_UNDEF ELSE rpo[v]]
  BY DEF RemoveVertices
<1>2. GraphInv' /\ DOMAIN rpo' = Vertices
  BY <1>1 DEF IInv, GraphInv
<1>3. \A v \in vexs' : v \in vexs /\ rpo'[v] = rpo[v]
  BY <1>1 DEF IInv, GraphInv
<1>4. ASSUME valid PROVE NumbersInv'
  <2>1. /\ \A v \in vexs : rpo[v] # RPO_UNDEF
        /\ \A u, v \in vexs : rpo[u] = rpo[v] => u = v
        /\ \A v \in vexs : rpo[v] % RPO_INTERVAL # 0 => rpo[v] \in used
        /\ debug \/ \A k \in used :
                       \E v \in vexs : rpo[v] = k /\ rpo[v] % RPO_INTERVAL # 0
    BY <1>4 DEF IInv, NumbersInv, Distinct
  <2>2. ASSUME ~debug, NEW k \in used'
        PROVE  \E v \in vexs' : rpo'[v] = k /\ rpo'[v] % RPO_INTERVAL # 0
    <3>1. PICK v \in vexs : rpo[v] = k /\ rpo[v] % RPO_INTERVAL # 0
      BY <2>1, <2>2, <1>1
    <3>2. v \notin gone
      BY <3>1, <2>2, <1>1
    <3> QED
      BY <3>1, <3>2, <1>1, <1>3
  <2>3. ASSUME NEW v \in vexs', rpo'[v] % RPO_INTERVAL # 0
        PROVE  rpo'[v] \in used'
    BY <2>3, <2>1, <1>1, <1>3
  <2> QED
    BY <2>1, <2>2, <2>3, <1>3 DEF NumbersInv, Distinct
<1> QED
  BY <1>2, <1>4 DEF IInv
-----------------------------------------------------------------------------
(* The edits *)

LEMMA insertBBBeforeInv ==
    ASSUME IInv, NEW v \in vexs, insertBBBefore(v)
    PROVE  IInv'
<1>1. v # Entry /\ GraphInv
  BY DEF insertBBBefore, IInv
<1>2. PICK new \in FreshIds :
        Insert(new, v, TRUE, compRPOIfVexPriorMarker(v),
               InFrontOf(v, new, Preds(v)))
  BY DEF insertBBBefore
<1>3. new \in Vertices \ vexs
  BY DEF FreshIds
<1>4. Preds(v) # {}
  BY <1>1, HasPred
<1> QED
  BY <1>1, <1>2, <1>3, <1>4, InFrontOfConnected, PriorIsFree, InsertInv

LEMMA insertPreheaderInv ==
    ASSUME IInv, NEW head \in vexs, insertPreheader(head)
    PROVE  IInv'
<1> DEFINE entering ==
        Preds(head) \ {p \in Preds(head) : Dominates(head, p)}
<1>1. head # Entry /\ GraphInv /\ entering # {}
  BY DEF insertPreheader, IInv
<1>2. PICK new \in FreshIds :
        Insert(new, head, TRUE, compRPOIfVexPriorMarker(head),
               InFrontOf(head, new, entering))
  BY DEF insertPreheader
<1>3. new \in Vertices \ vexs
  BY DEF FreshIds
<1>4. entering \in SUBSET Preds(head)
  OBVIOUS
<1> HIDE DEF entering
<1> QED
  BY <1>1, <1>2, <1>3, <1>4, InFrontOfConnected, PriorIsFree, InsertInv

LEMMA insertBBAfterInv ==
    ASSUME IInv, NEW m \in vexs, NEW n \in vexs, insertBBAfter(m, n)
    PROVE  IInv'
<1>1. n \in Succs(m) /\ GraphInv
  BY DEF insertBBAfter, IInv
<1>2. PICK new \in FreshIds :
        Insert(new, m, FALSE, compRPOIfMarkerPriorVex(m),
               (edges \ {<<m, n>>}) \cup {<<m, new>>, <<new, n>>})
  BY DEF insertBBAfter
<1>3. new \in Vertices \ vexs
  BY DEF FreshIds
<1> DEFINE es == (edges \ {<<m, n>>}) \cup {<<m, new>>, <<new, n>>}
<1>4. /\ es \subseteq (vexs \cup {new}) \X ((vexs \cup {new}) \ {Entry})
      /\ Connected(vexs \cup {new}, es)
  BY <1>1, <1>3, OnEdgeConnected
<1>5. Insert(new, m, FALSE, compRPOIfMarkerPriorVex(m), es)
  BY <1>2
<1> HIDE DEF es
<1> QED
  BY <1>3, <1>4, <1>5, AfterIsFree, InsertInv

LEMMA removeEmptyBBInv ==
    ASSUME IInv, NEW v \in vexs, removeEmptyBB(v)
    PROVE  IInv'
<1>1. v # Entry /\ GraphInv /\ stk = <<>> /\ UNCHANGED <<stk, order, valid, debug>>
      /\ RemoveVertices({v})
  BY DEF removeEmptyBB, Idle, IInv, search
<1>2. PICK s \in Succs(v) \ {v} :
        /\ Succs(v) = {s}
        /\ edges' = {e \in edges : v \notin {e[1], e[2]}} \cup (Preds(v) \X {s})
  BY DEF removeEmptyBB
<1>3. s \in vexs /\ s # v
  BY DEF Succs
<1>4. /\ edges' \subseteq (vexs \ {v}) \X ((vexs \ {v}) \ {Entry})
      /\ Connected(vexs \ {v}, edges')
  BY <1>1, <1>2, <1>3, BypassConnected
<1> QED
  BY <1>1, <1>4, RemoveInv

LEMMA removeRedundantBranchInv ==
    ASSUME IInv, NEW u \in vexs, NEW w \in vexs, removeRedundantBranch(u, w)
    PROVE  IInv'
<1> DEFINE es   == edges \ {<<u, w>>}
           keep == Reach(vexs, es)
<1>1. GraphInv /\ stk = <<>> /\ UNCHANGED <<stk, order, valid, debug>>
      /\ RemoveVertices(vexs \ keep) /\ edges' = {e \in es : e[1] \in keep}
  BY DEF removeRedundantBranch, Idle, IInv, search
<1>2. es \in SUBSET edges
  OBVIOUS
<1> HIDE DEF es, keep
<1>3. /\ keep \subseteq vexs /\ Entry \in keep
      /\ edges' \subseteq keep \X (keep \ {Entry}) /\ Connected(keep, edges')
  BY <1>1, <1>2, ReachConnected DEF keep
<1>4. vexs \ (vexs \ keep) = keep
  BY <1>3
<1> QED
  BY <1>1, <1>3, <1>4, RemoveInv

LEMMA removeTrampolinEdgeInv ==
    ASSUME IInv, NEW p \in vexs, NEW b \in vexs, removeTrampolinEdge(p, b)
    PROVE  IInv'
<1>1. /\ GraphInv /\ p \in Preds(b) /\ p # b
      /\ stk = <<>> /\ UNCHANGED <<stk, order, debug>>
  BY DEF removeTrampolinEdge, Idle, IInv, search
<1>2. PICK s \in Succs(b) \ {b} :
        /\ Succs(b) = {s}
        /\ IF Preds(b) = {p}
           THEN /\ edges' = {e \in edges : b \notin {e[1], e[2]}} \cup {<<p, s>>}
                /\ IF Succs(p) = {b}
                   THEN vexs' = vexs \ {b} /\ Forget
                   ELSE RemoveVertices({b}) /\ UNCHANGED valid
           ELSE /\ edges' = (edges \ {<<p, b>>}) \cup {<<p, s>>}
                /\ UNCHANGED <<vexs, rpo, used, vlst, valid>>
  BY DEF removeTrampolinEdge
<1>3. s \in vexs /\ s # b /\ b # Entry
  BY <1>1 DEF Succs, Preds, GraphInv
<1>4. CASE Preds(b) = {p}
  <2>1. {p} \X {s} = {<<p, s>>}
    OBVIOUS
  <2>2. edges' = {e \in edges : b \notin {e[1], e[2]}} \cup (Preds(b) \X {s})
    BY <2>1, <1>2, <1>4
  <2>3. /\ edges' \subseteq (vexs \ {b}) \X ((vexs \ {b}) \ {Entry})
        /\ Connected(vexs \ {b}, edges')
    BY <1>1, <1>2, <1>3, <2>2, BypassConnected
  <2>4. CASE Succs(p) = {b}
    <3>1. vexs' = vexs \ {b} /\ Forget
      BY <1>2, <1>4, <2>4
    <3>2. GraphInv'
      BY <3>1, <2>3, <1>3 DEF IInv, GraphInv
    <3> QED
      BY <3>1, <3>2, <1>1 DEF IInv, Forget
  <2>5. CASE Succs(p) # {b}
    BY <1>1, <1>2, <1>3, <1>4, <2>3, <2>5, RemoveInv
  <2> QED
    BY <2>4, <2>5
<1>5. CASE Preds(b) # {p}
  <2>1. edges' = (edges \ {<<p, b>>}) \cup {<<p, s>>}
        /\ UNCHANGED <<vexs, rpo, used, vlst, valid>>
    BY <1>2, <1>5
  <2>2. edges' \subseteq vexs \X (vexs \ {Entry}) /\ Connected(vexs, edges')
    BY <1>1, <1>2, <1>3, <1>5, <2>1, RedirectConnected
  <2>3. GraphInv'
    BY <2>1, <2>2, <1>1 DEF GraphInv
  <2> QED
    BY <2>1, <2>3, <1>1 DEF IInv, NumbersInv, Distinct
<1> QED
  BY <1>4, <1>5

LEMMA addJumpEdgeInv ==
    ASSUME IInv, NEW u \in vexs, NEW v \in vexs, NEW w \in vexs,
           addJumpEdge(u, v, w)
    PROVE  IInv'
<1>1. /\ GraphInv /\ w \in Succs(v)
      /\ stk = <<>> /\ UNCHANGED <<stk, order, debug>>
      /\ edges' = edges \cup {<<u, w>>}
      /\ UNCHANGED <<vexs, rpo, used, vlst, valid>>
  BY DEF addJumpEdge, Idle, IInv, search
<1>2. w # Entry
  BY <1>1 DEF Succs, GraphInv
<1>3. Connected(vexs, edges')
  BY <1>1 DEF GraphInv, Connected, Closed
<1>4. GraphInv'
  BY <1>1, <1>2, <1>3 DEF GraphInv
<1> QED
  BY <1>1, <1>4 DEF IInv, NumbersInv, Distinct

LEMMA setInvalidRPOInv == IInv /\ setInvalidRPO => IInv'
  BY DEF IInv, setInvalidRPO, Forget, Idle, search, GraphInv, Connected, Closed

-----------------------------------------------------------------------------
(* The theorems about numbers *)

LEMMA InitInv == Init => IInv
<1> SUFFICES ASSUME Init PROVE IInv
  OBVIOUS
<1>1. /\ edges \in Shapes /\ vexs = VerticesOf(edges)
      /\ rpo = [v \in Vertices |-> RPO_UNDEF] /\ ~valid
      /\ stk = <<>> /\ order = <<>>
  BY DEF Init
<1>2. /\ edges \subseteq Vertices \X (Vertices \ {Entry})
      /\ Reach(vexs, edges) = vexs
  BY <1>1
<1>3. vexs \subseteq Vertices /\ Entry \in vexs
  BY <1>1, <1>2 DEF VerticesOf
<1>4. edges \subseteq vexs \X (vexs \ {Entry})
  BY <1>1, <1>2 DEF VerticesOf
<1>5. Connected(vexs, edges)
  BY <1>2 DEF Connected, Reach
<1> QED
  BY <1>1, <1>3, <1>4, <1>5 DEF IInv, GraphInv

LEMMA NextInv == IInv /\ [Next]_vars => IInv'
<1> SUFFICES ASSUME IInv, [Next]_vars PROVE IInv'
  OBVIOUS
<1>1. CASE computeRPO \/ verifyDom \/ VisitKid \/ LeaveVertex \/ setInvalidRPO
  BY <1>1, computeRPOInv, verifyDomInv, VisitKidInv, LeaveVertexInv, setInvalidRPOInv
<1>2. CASE \E v \in vexs :
             insertBBBefore(v) \/ insertPreheader(v) \/ removeEmptyBB(v)
  BY <1>2, insertBBBeforeInv, insertPreheaderInv, removeEmptyBBInv
<1>3. CASE \E v, w \in vexs : \/ insertBBAfter(v, w)
                              \/ removeRedundantBranch(v, w)
                              \/ removeTrampolinEdge(v, w)
  BY <1>3, insertBBAfterInv, removeRedundantBranchInv, removeTrampolinEdgeInv
<1>4. CASE \E u, v, w \in vexs : addJumpEdge(u, v, w)
  BY <1>4, addJumpEdgeInv
<1>5. CASE UNCHANGED vars
  BY <1>5 DEF vars, search, IInv, GraphInv, Connected, Closed, SearchInv, NextNumber,
              Visited, Succs, NumbersInv, Distinct
<1> QED
  BY <1>1, <1>2, <1>3, <1>4, <1>5 DEF Next

\* Whatever is inserted, removed, redirected and verified in between, no two
\* blocks share a number while the numbering is valid (verifyRPOUniqueness).
THEOREM NumbersAreUnique == Spec => []NumbersUnique
<1>1. IInv => NumbersUnique
  BY DEF IInv, NumbersUnique, Numbered, Idle, NumbersInv, Distinct
<1> QED
  BY InitInv, NextInv, <1>1, PTL DEF Spec

\* A number that a block has inside a gap is never given out again, and in a
\* release build none leaks when blocks are removed.
THEOREM NoNumberLeaks == Spec => []UsedIsTaken
<1>1. IInv => UsedIsTaken
  BY DEF IInv, UsedIsTaken, Numbered, Idle, NumbersInv
<1> QED
  BY InitInv, NextInv, <1>1, PTL DEF Spec

-----------------------------------------------------------------------------
(* Least and greatest *)

\* Of finitely many things one has the least number: the sets of those with
\* lesser numbers are well founded by inclusion.
LEMMA LeastOf ==
    ASSUME NEW S, IsFiniteSet(S), S # {}, NEW g, \A x \in S : g[x] \in Int
    PROVE  \E m \in S : \A n \in S : g[m] <= g[n]
<1> DEFINE Lesser(x) == {y \in S : g[y] < g[x]}
           T == {Lesser(x) : x \in S}
<1>1. T \subseteq FiniteSubsetsOf(S) /\ T # {}
  <2>1. \A x \in S : IsFiniteSet(Lesser(x)) /\ Lesser(x) \in SUBSET S
    BY FS_Subset
  <2> HIDE DEF Lesser
  <2> QED
    BY <2>1 DEF FiniteSubsetsOf
<1>2. PICK t \in T : \A u \in T : <<u, t>> \notin StrictSubsetOrdering(S)
  <2> HIDE DEF T
  <2>1. IsWellFoundedOn(StrictSubsetOrdering(S), FiniteSubsetsOf(S))
    BY FS_StrictSubsetOrderingWellFounded
  <2> QED
    BY <1>1, <2>1, WFMin
<1>3. PICK m \in S : t = Lesser(m)
  OBVIOUS
<1>4. ASSUME NEW n \in S, g[n] < g[m] PROVE FALSE
  <2>1. Lesser(n) \subseteq Lesser(m) /\ n \in Lesser(m) /\ n \notin Lesser(n)
    BY <1>4
  <2>2. Lesser(n) \in T /\ Lesser(n) \in SUBSET S /\ Lesser(m) \in SUBSET S
    OBVIOUS
  <2>3. <<Lesser(n), Lesser(m)>> \in StrictSubsetOrdering(S)
    <3> HIDE DEF Lesser
    <3> QED
      BY <2>1, <2>2 DEF StrictSubsetOrdering
  <2> QED
    BY <1>2, <1>3, <2>2, <2>3
<1> QED
  BY <1>4

LEMMA MaxIs ==
    ASSUME NEW S, IsFiniteSet(S), S # {}, NEW g, \A x \in S : g[x] \in Int
    PROVE  LET M == {g[x] : x \in S}
           IN  Max(M) \in M /\ \A k \in M : k <= Max(M)
<1> DEFINE M == {g[x] : x \in S}
           h == [x \in S |-> -g[x]]
<1>1. PICK m \in S : \A n \in S : h[m] <= h[n]
  <2>1. \A x \in S : h[x] \in Int
    OBVIOUS
  <2> HIDE DEF h
  <2> QED
    BY <2>1, LeastOf
<1>2. \A n \in S : g[n] <= g[m]
  BY <1>1
<1>3. g[m] \in M /\ \A k \in M : g[m] >= k
  BY <1>2
<1>4. Max(M) \in M /\ \A k \in M : Max(M) >= k
  <2> HIDE DEF M
  <2> QED
    BY <1>3 DEF Max
<1>5. M \subseteq Int
  OBVIOUS
<1> QED
  BY <1>4, <1>5

LEMMA MinIs ==
    ASSUME NEW S, IsFiniteSet(S), S # {}, NEW g, \A x \in S : g[x] \in Int
    PROVE  LET M == {g[x] : x \in S}
           IN  Min(M) \in M /\ \A k \in M : Min(M) <= k
<1> DEFINE M == {g[x] : x \in S}
<1>1. PICK m \in S : \A n \in S : g[m] <= g[n]
  BY LeastOf
<1>2. g[m] \in M /\ \A k \in M : g[m] <= k
  BY <1>1
<1>3. Min(M) \in M /\ \A k \in M : Min(M) <= k
  <2> HIDE DEF M
  <2> QED
    BY <1>2 DEF Min
<1> QED
  BY <1>3

-----------------------------------------------------------------------------
(* Dominance *)

Graph(vs, es) ==
    /\ Entry \in vs
    /\ es \subseteq vs \X (vs \ {Entry})
    /\ Connected(vs, es)

\* What the entry may reach before u.
Before(vs, es, S, u) ==
    /\ S \subseteq vs \ {u} /\ Entry \in S
    /\ \A p, q \in vs : <<p, q>> \in es /\ p \in S => q = u \/ q \in S

Dom(vs, es, u, v) ==
    u = v \/ u = Entry \/ \E S \in SUBSET vs : Before(vs, es, S, u) /\ v \notin S

LEMMA DominatesIs ==
    ASSUME GraphInv, NEW u \in vexs, NEW v \in vexs
    PROVE  Dominates(u, v) <=> Dom(vexs, edges, u, v)
<1> DEFINE es == {e \in edges : u \notin {e[1], e[2]}}
<1>1. \A p, q : <<p, q>> \in es <=> <<p, q>> \in edges /\ p # u /\ q # u
  OBVIOUS
<1>2. \A e \in es : e = <<e[1], e[2]>> /\ e[1] \in vexs /\ e[2] \in vexs
  BY DEF GraphInv
<1> HIDE DEF es
<1>3. ASSUME NEW S \in SUBSET (vexs \ {u})
      PROVE  Entry \in S /\ Closed(S, es) <=> Before(vexs, edges, S, u)
  <2>1. Closed(S, es) <=> \A p, q \in vexs : <<p, q>> \in es /\ p \in S => q \in S
    BY <1>2 DEF Closed
  <2> QED
    BY <1>1, <2>1 DEF Before
<1>4. u # v => (v \notin Reach(vexs \ {u}, es)
                 <=> \E S \in SUBSET (vexs \ {u}) : Before(vexs, edges, S, u) /\ v \notin S)
  BY <1>3 DEF Reach
<1>5. \A S : Before(vexs, edges, S, u) => S \in SUBSET (vexs \ {u})
  BY DEF Before
<1> QED
  BY <1>4, <1>5 DEF Dominates, Dom, es

\* An edge goes up or closes a loop, and a graph with such numbers.
Up(vs, es, f) ==
    \A p, q \in vs : <<p, q>> \in es => f[p] < f[q] \/ Dom(vs, es, q, p)

Reducible(vs, es) == \E f \in [vs -> Int] : Up(vs, es, f)

\* The edges that stay keep their direction.
Alike(es, es2, f, f2) ==
    \A p, q : <<p, q>> \in es /\ <<p, q>> \in es2 /\ f[p] < f[q] => f2[p] < f2[q]

\* A vertex in front of v takes over all in-edges, or those that enter the loop.
LEMMA InFrontDom ==
    ASSUME NEW vs, NEW es, Graph(vs, es), NEW v \in vs, v # Entry, NEW new, new \notin vs,
           NEW ps \in SUBSET {p \in vs : <<p, v>> \in es},
           NEW es2, es2 = (es \ (ps \X {v})) \cup (ps \X {new}) \cup {<<new, v>>}
    PROVE  /\ \A a, b \in vs : Dom(vs, es, a, b) => Dom(vs \cup {new}, es2, a, b)
           /\ ps = {p \in vs : <<p, v>> \in es} =>
                \A p \in ps : Dom(vs, es, v, p) => Dom(vs \cup {new}, es2, new, p)
<1>1. \A p, q : <<p, q>> \in es2 <=> \/ <<p, q>> \in es /\ ~(p \in ps /\ q = v)
                                     \/ p \in ps /\ q = new
                                     \/ p = new /\ q = v
  OBVIOUS
<1>2. \A p, q : <<p, q>> \in es => p \in vs /\ q \in vs /\ p # new /\ q # new
  BY DEF Graph
<1>3. ASSUME NEW a \in vs, NEW b \in vs, NEW S \in SUBSET vs, Before(vs, es, S, a), b \notin S
      PROVE  Dom(vs \cup {new}, es2, a, b)
  <2> DEFINE S2 == IF ps \cap S = {} THEN S ELSE S \cup {new}
  <2>1. Before(vs \cup {new}, es2, S2, a)
    <3>1. S2 \subseteq (vs \cup {new}) \ {a} /\ Entry \in S2
      BY <1>3 DEF Before
    <3>2. ASSUME NEW p \in vs \cup {new}, NEW q \in vs \cup {new},
                 <<p, q>> \in es2, p \in S2
          PROVE  q = a \/ q \in S2
      <4>1. CASE <<p, q>> \in es
        BY <4>1, <3>2, <1>2, <1>3 DEF Before
      <4>2. CASE p \in ps /\ q = new
        BY <4>2, <3>2, <1>3
      <4>3. CASE p = new /\ q = v
        <5>1. PICK r \in ps : r \in S
          BY <4>3, <3>2, <1>3
        <5> QED
          BY <5>1, <4>3, <1>3, <1>2 DEF Before
      <4> QED
        BY <4>1, <4>2, <4>3, <3>2, <1>1
    <3> QED
      BY <3>1, <3>2 DEF Before
  <2>2. b \notin S2 /\ S2 \in SUBSET (vs \cup {new})
    BY <1>3
  <2> QED
    BY <2>1, <2>2 DEF Dom
<1>4. \A a, b \in vs : Dom(vs, es, a, b) => Dom(vs \cup {new}, es2, a, b)
  BY <1>3 DEF Dom
<1>5. ASSUME ps = {p \in vs : <<p, v>> \in es}, NEW p \in ps, Dom(vs, es, v, p)
      PROVE  Dom(vs \cup {new}, es2, new, p)
  <2>1. PICK S \in SUBSET vs : Before(vs, es, S, v) /\ p \notin S
    <3>1. CASE v = p
      <4>1. Before(vs, es, vs \ {v}, v)
        BY DEF Before, Graph
      <4> QED
        BY <4>1, <3>1
    <3> QED
      BY <3>1, <1>5 DEF Dom
  <2>2. Before(vs \cup {new}, es2, S, new)
    <3>1. ASSUME NEW q \in vs \cup {new}, NEW r \in vs \cup {new},
                 <<q, r>> \in es2, q \in S
          PROVE  r = new \/ r \in S
      <4>1. q # new
        BY <3>1, <2>1
      <4>2. CASE <<q, r>> \in es /\ ~(q \in ps /\ r = v)
        <5>1. r # v
          BY <4>2, <1>2, <1>5
        <5> QED
          BY <5>1, <4>2, <3>1, <2>1, <1>2 DEF Before
      <4> QED
        BY <4>1, <4>2, <3>1, <1>1
    <3> QED
      BY <3>1, <2>1 DEF Before
  <2> QED
    BY <2>1, <2>2 DEF Dom
<1> QED
  BY <1>4, <1>5

LEMMA InFrontUp ==
    ASSUME NEW vs, NEW es, Graph(vs, es), NEW v \in vs, v # Entry, NEW new, new \notin vs,
           NEW ps \in SUBSET {p \in vs : <<p, v>> \in es},
           \/ ps = {p \in vs : <<p, v>> \in es}
           \/ \A p \in ps : ~Dom(vs, es, v, p),
           NEW es2, es2 = (es \ (ps \X {v})) \cup (ps \X {new}) \cup {<<new, v>>},
           NEW f, Up(vs, es, f), NEW f2, Alike(es, es2, f, f2),
           f2[new] < f2[v], \A p \in ps : f[p] < f[v] => f2[p] < f2[new]
    PROVE  Up(vs \cup {new}, es2, f2)
<1>1. /\ \A a, b \in vs : Dom(vs, es, a, b) => Dom(vs \cup {new}, es2, a, b)
      /\ ps = {p \in vs : <<p, v>> \in es} =>
                \A p \in ps : Dom(vs, es, v, p) => Dom(vs \cup {new}, es2, new, p)
  BY InFrontDom
<1>2. \A p, q : <<p, q>> \in es2 => \/ <<p, q>> \in es
                                    \/ p \in ps /\ q = new
                                    \/ p = new /\ q = v
  OBVIOUS
<1>3. \A p, q : <<p, q>> \in es => p \in vs /\ q \in vs
  BY DEF Graph
<1>4. ASSUME NEW p \in vs \cup {new}, NEW q \in vs \cup {new}, <<p, q>> \in es2
      PROVE  f2[p] < f2[q] \/ Dom(vs \cup {new}, es2, q, p)
  <2>1. CASE <<p, q>> \in es
    BY <2>1, <1>1, <1>3, <1>4 DEF Up, Alike
  <2>2. CASE p \in ps /\ q = new
    <3>1. p \in vs /\ <<p, v>> \in es
      BY <2>2
    <3>2. f[p] < f[v] \/ Dom(vs, es, v, p)
      BY <3>1 DEF Up
    <3> QED
      BY <3>2, <2>2, <1>1
  <2>3. CASE p = new /\ q = v
    BY <2>3
  <2> QED
    BY <2>1, <2>2, <2>3, <1>2, <1>4
<1> QED
  BY <1>4 DEF Up

\* A new vertex on the edge from m to n.
LEMMA OnEdgeUp ==
    ASSUME NEW vs, NEW es, Graph(vs, es), NEW m \in vs, NEW n \in vs, <<m, n>> \in es,
           NEW new, new \notin vs,
           NEW es2, es2 = (es \ {<<m, n>>}) \cup {<<m, new>>, <<new, n>>},
           NEW f, Up(vs, es, f), NEW f2, Alike(es, es2, f, f2),
           f2[m] < f2[new], f[m] < f[n] => f2[new] < f2[n]
    PROVE  Up(vs \cup {new}, es2, f2)
<1>1. \A p, q : <<p, q>> \in es2 <=> \/ <<p, q>> \in es /\ ~(p = m /\ q = n)
                                     \/ p = m /\ q = new
                                     \/ p = new /\ q = n
  OBVIOUS
<1>2. \A p, q : <<p, q>> \in es => p \in vs /\ q \in vs /\ p # new /\ q # new
  BY DEF Graph
<1>3. ASSUME NEW a \in vs, NEW S \in SUBSET vs, Before(vs, es, S, a)
      PROVE  Before(vs \cup {new}, es2, IF m \in S THEN S \cup {new} ELSE S, a)
  <2> DEFINE S2 == IF m \in S THEN S \cup {new} ELSE S
  <2>1. S2 \subseteq (vs \cup {new}) \ {a} /\ Entry \in S2
    BY <1>3 DEF Before
  <2>2. ASSUME NEW p \in vs \cup {new}, NEW q \in vs \cup {new},
               <<p, q>> \in es2, p \in S2
        PROVE  q = a \/ q \in S2
    <3>1. CASE <<p, q>> \in es
      BY <3>1, <2>2, <1>2, <1>3 DEF Before
    <3>2. CASE p = m /\ q = new
      BY <3>2, <2>2
    <3>3. CASE p = new /\ q = n
      BY <3>3, <2>2, <1>2, <1>3 DEF Before
    <3> QED
      BY <3>1, <3>2, <3>3, <2>2, <1>1
  <2> QED
    BY <2>1, <2>2 DEF Before
<1>4. ASSUME NEW a \in vs, NEW b \in vs, Dom(vs, es, a, b)
      PROVE  Dom(vs \cup {new}, es2, a, b)
  <2>1. CASE a = b \/ a = Entry
    BY <2>1 DEF Dom
  <2>2. CASE ~(a = b \/ a = Entry)
    <3>1. PICK S \in SUBSET vs : Before(vs, es, S, a) /\ b \notin S
      BY <2>2, <1>4 DEF Dom
    <3>2. Before(vs \cup {new}, es2, IF m \in S THEN S \cup {new} ELSE S, a)
      BY <1>3, <3>1
    <3>3. b \notin (IF m \in S THEN S \cup {new} ELSE S)
      BY <3>1
    <3> QED
      BY <3>2, <3>3 DEF Dom, Before
  <2> QED
    BY <2>1, <2>2
<1>5. ASSUME Dom(vs, es, n, m)
      PROVE  Dom(vs \cup {new}, es2, n, new)
  <2>1. CASE n = Entry
    BY <2>1 DEF Dom
  <2>2. CASE n # Entry
    <3>1. PICK S \in SUBSET vs : Before(vs, es, S, n) /\ m \notin S
      <4>1. CASE n = m
        <5>1. Before(vs, es, vs \ {n}, n)
          BY <2>2 DEF Before, Graph
        <5> QED
          BY <5>1, <4>1
      <4> QED
        BY <4>1, <2>2, <1>5 DEF Dom
    <3>2. Before(vs \cup {new}, es2, S, n)
      BY <1>3, <3>1
    <3> QED
      BY <3>1, <3>2 DEF Dom
  <2> QED
    BY <2>1, <2>2
<1>6. ASSUME NEW p \in vs \cup {new}, NEW q \in vs \cup {new}, <<p, q>> \in es2
      PROVE  f2[p] < f2[q] \/ Dom(vs \cup {new}, es2, q, p)
  <2>1. CASE <<p, q>> \in es
    BY <2>1, <1>2, <1>4, <1>6 DEF Up, Alike
  <2>2. CASE p = m /\ q = new
    BY <2>2
  <2>3. CASE p = new /\ q = n
    <3>1. f[m] < f[n] \/ Dom(vs, es, n, m)
      BY DEF Up
    <3> QED
      BY <3>1, <2>3, <1>5
  <2> QED
    BY <2>1, <2>2, <2>3, <1>1, <1>6
<1> QED
  BY <1>6 DEF Up

\* A vertex with one successor goes.
LEMMA BypassUp ==
    ASSUME NEW vs, NEW es, Graph(vs, es), NEW v \in vs, v # Entry,
           NEW s \in vs, s # v, \A q \in vs : <<v, q>> \in es <=> q = s,
           NEW es2, es2 = {e \in es : v \notin {e[1], e[2]}}
                              \cup ({p \in vs : <<p, v>> \in es} \X {s}),
           NEW f \in [vs -> Int], Up(vs, es, f),
           NEW f2, \A p \in vs \ {v} : f2[p] = f[p]
    PROVE  Up(vs \ {v}, es2, f2)
<1>1. \A p, q : <<p, q>> \in es2 <=> \/ <<p, q>> \in es /\ p # v /\ q # v
                                     \/ <<p, v>> \in es /\ p \in vs /\ q = s
  OBVIOUS
<1>2. \A p, q : <<p, q>> \in es => p \in vs /\ q \in vs
  BY DEF Graph
<1>3. ASSUME NEW a \in vs \ {v}, NEW S \in SUBSET vs, Before(vs, es, S, a)
      PROVE  Before(vs \ {v}, es2, S \ {v}, a)
  <2>1. S \ {v} \subseteq (vs \ {v}) \ {a} /\ Entry \in S \ {v}
    BY <1>3 DEF Before
  <2>2. ASSUME NEW p \in vs \ {v}, NEW q \in vs \ {v}, <<p, q>> \in es2, p \in S \ {v}
        PROVE  q = a \/ q \in S \ {v}
    <3>1. CASE <<p, q>> \in es
      BY <3>1, <2>2, <1>3 DEF Before
    <3>2. CASE <<p, v>> \in es /\ q = s
      <4>1. v \in S
        BY <3>2, <2>2, <1>3 DEF Before
      <4> QED
        BY <4>1, <3>2, <1>3 DEF Before
    <3> QED
      BY <3>1, <3>2, <2>2, <1>1
  <2> QED
    BY <2>1, <2>2 DEF Before
<1>4. ASSUME NEW a \in vs \ {v}, NEW b \in vs \ {v}, Dom(vs, es, a, b)
      PROVE  Dom(vs \ {v}, es2, a, b)
  <2>1. CASE a = b \/ a = Entry
    BY <2>1 DEF Dom
  <2>2. CASE ~(a = b \/ a = Entry)
    <3>1. PICK S \in SUBSET vs : Before(vs, es, S, a) /\ b \notin S
      BY <2>2, <1>4 DEF Dom
    <3>2. Before(vs \ {v}, es2, S \ {v}, a) /\ b \notin S \ {v}
      BY <1>3, <3>1
    <3> QED
      BY <3>2 DEF Dom, Before
  <2> QED
    BY <2>1, <2>2
\* An edge that closes a loop at v or behind it closes one at s.
<1>5. ASSUME NEW p \in vs \ {v}, <<p, v>> \in es, ~(f[p] < f[s])
      PROVE  Dom(vs, es, s, p)
  <2>1. CASE p = s \/ s = Entry
    BY <2>1 DEF Dom
  <2>2. CASE ~(p = s \/ s = Entry) /\ Dom(vs, es, s, v)
    <3>1. PICK S \in SUBSET vs : Before(vs, es, S, s) /\ v \notin S
      BY <2>2 DEF Dom
    <3>2. p \notin S
      BY <3>1, <1>5 DEF Before
    <3> QED
      BY <3>1, <3>2 DEF Dom
  <2>3. CASE ~(p = s \/ s = Entry) /\ ~Dom(vs, es, s, v)
    <3>1. f[v] < f[s]
      BY <2>3 DEF Up
    <3>2. ~(f[p] < f[v])
      BY <3>1, <1>5
    <3>3. Dom(vs, es, v, p)
      BY <3>2, <1>5 DEF Up
    <3>4. PICK S \in SUBSET vs : Before(vs, es, S, v) /\ p \notin S
      BY <3>3 DEF Dom
    <3>5. s \notin S
      <4>1. SUFFICES ASSUME s \in S PROVE FALSE
        OBVIOUS
      <4>2. Closed(S \cup {v}, es) /\ S \cup {v} \in SUBSET vs /\ Entry \in S \cup {v}
        <5>1. ASSUME NEW e \in es, e[1] \in S \cup {v} PROVE e[2] \in S \cup {v}
          <6>1. e = <<e[1], e[2]>> /\ e[1] \in vs /\ e[2] \in vs
            BY DEF Graph
          <6> QED
            BY <6>1, <5>1, <4>1, <3>4 DEF Before
        <5> QED
          BY <5>1, <3>4 DEF Closed, Before
      <4>3. S \cup {v} = vs
        BY <4>2 DEF Graph, Connected
      <4> QED
        BY <4>3, <3>4
    <3>6. Before(vs, es, S \cup {v}, s)
      BY <3>4, <3>5 DEF Before
    <3> QED
      BY <3>4, <3>6 DEF Dom
  <2> QED
    BY <2>1, <2>2, <2>3
<1>6. ASSUME NEW p \in vs \ {v}, NEW q \in vs \ {v}, <<p, q>> \in es2
      PROVE  f2[p] < f2[q] \/ Dom(vs \ {v}, es2, q, p)
  <2>1. CASE <<p, q>> \in es
    BY <2>1, <1>4, <1>6 DEF Up
  <2>2. CASE <<p, v>> \in es /\ q = s
    BY <2>2, <1>4, <1>5, <1>6
  <2> QED
    BY <2>1, <2>2, <1>1, <1>6
<1> QED
  BY <1>6 DEF Up

\* Edges go, and the vertices that are not reached any more.
LEMMA FewerUp ==
    ASSUME NEW vs, NEW es, Graph(vs, es), NEW keep \in SUBSET vs, NEW es2 \in SUBSET es,
           Graph(keep, es2), NEW f, Up(vs, es, f),
           NEW f2, \A p \in keep : f2[p] = f[p]
    PROVE  Up(keep, es2, f2)
<1>1. ASSUME NEW a \in keep, NEW b \in keep, Dom(vs, es, a, b)
      PROVE  Dom(keep, es2, a, b)
  <2>1. CASE a = b \/ a = Entry
    BY <2>1 DEF Dom
  <2>2. CASE ~(a = b \/ a = Entry)
    <3>1. PICK S \in SUBSET vs : Before(vs, es, S, a) /\ b \notin S
      BY <2>2, <1>1 DEF Dom
    <3>2. Before(keep, es2, S \cap keep, a) /\ b \notin S \cap keep
      BY <3>1 DEF Before, Graph
    <3> QED
      BY <3>2 DEF Dom
  <2> QED
    BY <2>1, <2>2
<1> QED
  BY <1>1 DEF Up

\* An edge over a vertex that nothing else leads to or leaves.
LEMMA JumpUp ==
    ASSUME NEW vs, NEW es, Graph(vs, es), NEW u \in vs, NEW v \in vs, NEW w \in vs,
           \A q \in vs : <<u, q>> \in es <=> q = v,
           \A p \in vs : <<p, v>> \in es <=> p = u,
           \A q \in vs : <<v, q>> \in es <=> q = w,
           w # u, NEW f \in [vs -> Int], Up(vs, es, f)
    PROVE  Up(vs, es \cup {<<u, w>>}, f)
<1> DEFINE es2 == es \cup {<<u, w>>}
<1>1. v # Entry
  BY DEF Graph
<1>2. u # v /\ v # w
  <2>1. ASSUME u = v PROVE FALSE
    <3>1. Closed(vs \ {v}, es)
      <4>1. ASSUME NEW e \in es, e[1] \in vs \ {v} PROVE e[2] \in vs \ {v}
        <5>1. e = <<e[1], e[2]>> /\ e[1] \in vs /\ e[2] \in vs
          BY DEF Graph
        <5> QED
          BY <5>1, <4>1, <2>1
      <4> QED
        BY <4>1 DEF Closed
    <3> QED
      BY <3>1, <1>1 DEF Graph, Connected
  <2> QED
    BY <2>1
<1>3. ASSUME NEW S \in SUBSET vs, NEW a \in vs, a # v, Before(vs, es, S, a)
      PROVE  Before(vs, es2, S, a)
  <2>1. u \in S => w = a \/ w \in S
    BY <1>3 DEF Before
  <2> QED
    BY <2>1, <1>3 DEF Before
<1>4. ASSUME NEW a \in vs, NEW b \in vs, a # v, Dom(vs, es, a, b)
      PROVE  Dom(vs, es2, a, b)
  BY <1>3, <1>4 DEF Dom
<1>5. f[u] < f[v]
  <2>1. SUFFICES ASSUME Dom(vs, es, v, u) PROVE FALSE
    BY DEF Up
  <2>2. PICK S \in SUBSET vs : Before(vs, es, S, v) /\ u \notin S
    BY <2>1, <1>1, <1>2 DEF Dom
  <2>3. Closed(S, es) /\ Entry \in S
    <3>1. ASSUME NEW e \in es, e[1] \in S PROVE e[2] \in S
      <4>1. e = <<e[1], e[2]>> /\ e[1] \in vs /\ e[2] \in vs
        BY DEF Graph
      <4> QED
        BY <4>1, <3>1, <2>2 DEF Before
    <3> QED
      BY <3>1, <2>2 DEF Closed, Before
  <2> QED
    BY <2>2, <2>3 DEF Graph, Connected
<1>6. f[u] < f[w] \/ Dom(vs, es, w, u)
  <2>1. CASE f[v] < f[w]
    BY <2>1, <1>5
  <2>2. CASE Dom(vs, es, w, v) /\ w # Entry
    <3>1. PICK S \in SUBSET vs : Before(vs, es, S, w) /\ v \notin S
      BY <2>2, <1>2 DEF Dom
    <3>2. u \notin S
      BY <3>1, <1>2 DEF Before
    <3> QED
      BY <3>1, <3>2 DEF Dom
  <2>3. CASE w = Entry
    BY <2>3 DEF Dom
  <2> QED
    BY <2>1, <2>2, <2>3 DEF Up
<1>7. ASSUME NEW p \in vs, NEW q \in vs, <<p, q>> \in es2
      PROVE  f[p] < f[q] \/ Dom(vs, es2, q, p)
  <2>1. CASE <<p, q>> \in es /\ q = v
    BY <2>1, <1>5
  <2>2. CASE <<p, q>> \in es /\ q # v
    BY <2>2, <1>4 DEF Up
  <2>3. CASE p = u /\ q = w
    BY <2>3, <1>2, <1>4, <1>6
  <2> QED
    BY <2>1, <2>2, <2>3, <1>7
<1> QED
  BY <1>7 DEF Up

-----------------------------------------------------------------------------
(* The depth-first search *)

\* A path from the entry, the last vertex first, without a vertex twice.
StackPath(es, s) ==
    /\ s[Len(s)] = Entry
    /\ \A i \in 1 .. (Len(s) - 1) : <<s[i + 1], s[i]>> \in es
    /\ \A i, j \in 1 .. Len(s) : s[i] = s[j] => i = j

\* An edge back to a vertex of the path leads to a dominator: of the vertices
\* in between, the lowest one is entered by the edge, and any other vertex the
\* path reaches without what comes later on it.
LEMMA StackDominates ==
    ASSUME NEW vs, NEW es, Graph(vs, es), NEW f \in [vs -> Int], Up(vs, es, f),
           NEW s \in Seq(vs), StackPath(es, s), NEW k \in 1 .. Len(s),
           <<s[1], s[k]>> \in es
    PROVE  Dom(vs, es, s[k], s[1])
<1>1. PICK m \in 1 .. k : \A i \in 1 .. k : f[s[m]] <= f[s[i]]
  <2> DEFINE g == [i \in 1 .. k |-> f[s[i]]]
  <2>1. IsFiniteSet(1 .. k) /\ 1 .. k # {}
    <3>1. 1 \in Int /\ k \in Int /\ 1 \in 1 .. k
      OBVIOUS
    <3> QED
      BY <3>1, FS_Interval
  <2>2. \A i \in 1 .. k : g[i] \in Int
    OBVIOUS
  <2>3. \E m \in 1 .. k : \A i \in 1 .. k : g[m] <= g[i]
    <3> HIDE DEF g
    <3> QED
      BY <2>1, <2>2, LeastOf
  <2> QED
    BY <2>3
<1>2. \A i \in 1 .. k : s[i] \in vs /\ f[s[i]] \in Int
  OBVIOUS
<1>3. CASE m = k
  <2>1. ~(f[s[1]] < f[s[k]])
    BY <1>1, <1>2, <1>3
  <2> QED
    BY <2>1, <1>2 DEF Up
<1>4. CASE m # k
  <2>1. m \in 1 .. (Len(s) - 1) /\ m + 1 \in 1 .. k /\ m \in 1 .. k
    BY <1>4
  <2>2. ~(f[s[m + 1]] < f[s[m]])
    BY <1>1, <1>2, <2>1
  <2>3. <<s[m + 1], s[m]>> \in es
    BY <2>1 DEF StackPath
  <2>4. Dom(vs, es, s[m], s[m + 1])
    BY <2>1, <2>2, <2>3, <1>2 DEF Up
  <2>5. s[m] # s[m + 1] /\ s[m] # Entry
    BY <2>1 DEF StackPath
  <2>6. PICK S \in SUBSET vs : Before(vs, es, S, s[m]) /\ s[m + 1] \notin S
    BY <2>4, <2>5 DEF Dom
  <2> DEFINE Outside == {i \in (m + 1) .. Len(s) : s[i] \notin S}
             g == [i \in Outside |-> -i]
  <2>7. PICK i \in Outside : \A j \in Outside : j <= i
    <3>1. IsFiniteSet(Outside) /\ Outside # {}
      <4>1. IsFiniteSet((m + 1) .. Len(s)) /\ m + 1 \in Outside
        BY <2>1, <2>6, FS_Interval
      <4> QED
        BY <4>1, FS_Subset
    <3>2. \A j \in Outside : g[j] \in Int
      OBVIOUS
    <3>3. \E i \in Outside : \A j \in Outside : g[i] <= g[j]
      <4> HIDE DEF Outside, g
      <4> QED
        BY <3>1, <3>2, LeastOf
    <3>4. PICK i \in Outside : \A j \in Outside : g[i] <= g[j]
      BY <3>3
    <3>5. \A j \in Outside : i \in Int /\ j \in Int /\ g[i] = -i /\ g[j] = -j
      OBVIOUS
    <3>6. \A j \in Outside : j <= i
      <4> HIDE DEF Outside, g
      <4> QED
        BY <3>4, <3>5
    <3> QED
      BY <3>6
  <2>8. i # Len(s)
    BY <2>6 DEF StackPath, Before
  <2>9. i \in 1 .. (Len(s) - 1) /\ i + 1 \in (m + 1) .. Len(s) /\ ~(i + 1 <= i) /\ i # m
    BY <2>1, <2>8
  <2>10. s[i + 1] \in S /\ s[i] \in vs /\ s[i + 1] \in vs /\ <<s[i + 1], s[i]>> \in es
    BY <2>7, <2>9 DEF StackPath
  <2>11. s[i] # s[m]
    <3>1. i \in 1 .. Len(s) /\ m \in 1 .. Len(s)
      BY <2>9
    <3> QED
      BY <3>1, <2>9 DEF StackPath
  <2> QED
    BY <2>6, <2>7, <2>10, <2>11 DEF Before
<1> QED
  BY <1>3, <1>4

-----------------------------------------------------------------------------
(* Where a free number is found *)

LEMMA DivMod ==
    ASSUME NEW n \in Int, NEW d \in Int, d > 0
    PROVE  /\ n \div d \in Int /\ n % d \in 0 .. (d - 1)
           /\ n = (n \div d) * d + (n % d)
           /\ n >= 0 => n \div d >= 0
<1>1. n % d \in 0 .. (d - 1)
  OBVIOUS
<1>2. n \div d \in Int
  OBVIOUS
<1>3. n = (n \div d) * d + (n % d)
  OBVIOUS
<1>4. n >= 0 => n \div d >= 0
  OBVIOUS
<1> QED
  BY <1>1, <1>2, <1>3, <1>4

\* Half of a range at most, and towards its begin.
LEMMA QuotientIs ==
    ASSUME NEW n \in Nat, NEW d \in Nat, d >= 2
    PROVE  /\ Quotient(n, d) \in Nat /\ 2 * Quotient(n, d) <= n
           /\ Quotient(-1, d) = 0
<1>1. n \div d \in Nat /\ n = (n \div d) * d + (n % d) /\ n % d \in Nat
  BY DivMod
<1>2. (n \div d) * d >= (n \div d) * 2
  BY <1>1
<1>3. 1 \div d = 0
  <2>1. /\ 1 \div d \in Int /\ 1 \div d >= 0
        /\ 1 = (1 \div d) * d + (1 % d) /\ 1 % d \in 0 .. (d - 1)
    BY DivMod
  <2>2. ASSUME 1 \div d >= 1 PROVE FALSE
    <3>1. (1 \div d) * d >= d
      BY <2>1, <2>2
    <3> QED
      BY <2>1, <3>1
  <2> QED
    BY <2>1, <2>2
<1> QED
  BY <1>1, <1>2, <1>3 DEF Quotient

LEMMA LessIs ==
    ASSUME NEW r \in Nat
    PROVE  LET n == computeNearestLessUnUsableRPO(r)
           IN  n \in Int /\ n <= r /\ r < n + RPO_INTERVAL
BY DivMod DEF computeNearestLessUnUsableRPO, Quotient

LEMMA GreaterIs ==
    ASSUME NEW r \in Int, r >= -RPO_INTERVAL
    PROVE  LET n == computeNearestGreaterUnUsableRPO(r)
           IN  /\ n \in Int /\ r <= n
               /\ r >= 0 => n < r + RPO_INTERVAL
               /\ r < 0 => n <= RPO_INTERVAL
               /\ r > -RPO_INTERVAL => n >= 0
<1>1. CASE r >= 0
  <2>1. /\ r \div RPO_INTERVAL \in Nat /\ r % RPO_INTERVAL \in 0 .. (RPO_INTERVAL - 1)
        /\ r = (r \div RPO_INTERVAL) * RPO_INTERVAL + (r % RPO_INTERVAL)
    BY <1>1, DivMod
  <2>2. (r \div RPO_INTERVAL + 1) * RPO_INTERVAL
            = (r \div RPO_INTERVAL) * RPO_INTERVAL + RPO_INTERVAL
    BY <2>1
  <2>3. (r \div RPO_INTERVAL + 0) * RPO_INTERVAL = (r \div RPO_INTERVAL) * RPO_INTERVAL
    BY <2>1
  <2>4. (r \div RPO_INTERVAL) * RPO_INTERVAL \in Int
    BY <2>1
  <2> QED
    BY <1>1, <2>1, <2>2, <2>3, <2>4 DEF computeNearestGreaterUnUsableRPO, Quotient
<1>2. CASE r < 0 /\ r # -RPO_INTERVAL
  <2>1. (-r) \in Nat /\ (-r) < RPO_INTERVAL
    BY <1>2
  <2>2. (-r) \div RPO_INTERVAL = 0
    BY <2>1, DivMod
  <2>3. Quotient(r, RPO_INTERVAL) = 0
    BY <1>2, <2>2 DEF Quotient
  <2>4. r % RPO_INTERVAL # 0
    BY <1>2
  <2> QED
    BY <1>2, <2>3, <2>4 DEF computeNearestGreaterUnUsableRPO
<1>3. CASE r = -RPO_INTERVAL
  <2>1. RPO_INTERVAL \div RPO_INTERVAL = 1
    OBVIOUS
  <2>2. Quotient(r, RPO_INTERVAL) = -1
    BY <1>3, <2>1 DEF Quotient
  <2>3. r % RPO_INTERVAL = 0
    BY <1>3
  <2> QED
    BY <1>3, <2>2, <2>3 DEF computeNearestGreaterUnUsableRPO
<1> QED
  BY <1>1, <1>2, <1>3

\* From begin on, and at most one behind end: what is searched is a broken gap
\* at one of the ends, which is empty when end is a multiple.
LEMMA FoundBetween ==
    ASSUME NEW begin \in Int, NEW end \in Int, begin <= end, begin >= -RPO_INTERVAL,
           NEW n, n = tryFindUsableRPO(begin, end), n # RPO_UNDEF
    PROVE  n \in Int /\ begin <= n /\ n <= end + 1
<1> DEFINE range   == SearchRange(begin, end)
           cand(d) == range[1] + Quotient(range[2] - range[1], d)
           up      == computeNearestGreaterUnUsableRPO(begin) - 1
           down    == computeNearestLessUnUsableRPO(end) + 1
<1>1. PICK d \in 2 .. RPO_INTERVAL : n = cand(d)
  <2> DEFINE first(d) == /\ isUsableRPO(cand(d))
                         /\ \A c \in 2..(d - 1) : ~isUsableRPO(cand(c))
             found == CHOOSE d \in 2..RPO_INTERVAL : first(d)
  <2>1. n = IF \E d \in 2..RPO_INTERVAL : first(d) THEN cand(found) ELSE RPO_UNDEF
    BY DEF tryFindUsableRPO
  <2>2. \E d \in 2..RPO_INTERVAL : first(d)
    BY <2>1
  <2>3. found \in 2..RPO_INTERVAL
    <3> HIDE DEF first
    <3> QED
      BY <2>2
  <2> HIDE DEF first, found, cand
  <2> QED
    BY <2>1, <2>2, <2>3
<1>2. d \in Nat /\ d >= 2
  BY <1>1
<1>3. CASE end - begin <= RPO_INTERVAL
  <2>1. range[1] = begin /\ range[2] = end
    BY <1>3 DEF SearchRange
  <2>2. Quotient(end - begin, d) \in Nat /\ 2 * Quotient(end - begin, d) <= end - begin
    BY <1>2, QuotientIs
  <2> QED
    BY <1>1, <2>1, <2>2
<1>4. CASE end - begin > RPO_INTERVAL
  <2>1. end \in Nat /\ end > 0
    BY <1>4
  <2>2. /\ up \in Int /\ down \in Int
        /\ begin <= up + 1
        /\ begin >= 0 => up < begin + RPO_INTERVAL - 1
        /\ begin < 0 => up <= RPO_INTERVAL - 1
        /\ down <= end + 1 /\ end < down - 1 + RPO_INTERVAL
    <3>1. LET m == computeNearestGreaterUnUsableRPO(begin)
          IN  /\ m \in Int /\ begin <= m
              /\ begin >= 0 => m < begin + RPO_INTERVAL
              /\ begin < 0 => m <= RPO_INTERVAL
      BY GreaterIs
    <3>2. LET m == computeNearestLessUnUsableRPO(end)
          IN  m \in Int /\ m <= end /\ end < m + RPO_INTERVAL
      BY <2>1, LessIs
    <3> QED
      BY <3>1, <3>2
  <2> HIDE DEF up, down
  <2>3. CASE up - begin > end - down
    <3>1. range[1] = begin /\ range[2] = up
      BY <1>4, <2>3 DEF SearchRange, up, down
    <3>2. up - begin \in Nat
      BY <2>2, <2>3
    <3>3. Quotient(up - begin, d) \in Nat /\ 2 * Quotient(up - begin, d) <= up - begin
      BY <1>2, <3>2, QuotientIs
    <3> QED
      BY <1>1, <1>4, <2>2, <3>1, <3>3
  <2>4. CASE ~(up - begin > end - down)
    <3>1. range[1] = down /\ range[2] = end
      BY <1>4, <2>4 DEF SearchRange, up, down
    <3>2. CASE down = end + 1
      <4>1. end - down = -1
        BY <3>2, <2>1
      <4>2. Quotient(end - down, d) = 0
        BY <1>2, <4>1, QuotientIs
      <4> QED
        BY <1>1, <3>1, <3>2, <4>2, <2>1
    <3>3. CASE down # end + 1
      <4>1. end - down \in Nat
        BY <2>1, <2>2, <3>3
      <4>2. Quotient(end - down, d) \in Nat /\ 2 * Quotient(end - down, d) <= end - down
        BY <1>2, <4>1, QuotientIs
      <4> QED
        BY <1>1, <1>4, <2>2, <3>1, <4>2
    <3> QED
      BY <3>2, <3>3
  <2> QED
    BY <2>3, <2>4
<1> QED
  BY <1>3, <1>4

\* Every number is above minus the gap: only the entry may be below 0.
NumbersInGap == \A v \in vexs : rpo[v] \in Int /\ rpo[v] > -RPO_INTERVAL

LEMMA PriorBetween ==
    ASSUME GraphInv, NumbersInv, NumbersInGap, NEW m \in vexs,
           NEW n, n = compRPOIfVexPriorMarker(m).found, n # RPO_UNDEF
    PROVE  /\ n \in Int /\ n > -RPO_INTERVAL /\ n < rpo[m]
           /\ \A p \in Preds(m) \ {m} : rpo[p] < n
<1> DEFINE S     == Preds(m) \ {m}
           preds == {rpo[p] : p \in S}
           begin == IF preds = {}
                    THEN computeNearestGreaterUnUsableRPO(rpo[m]) - RPO_INTERVAL
                    ELSE Max(preds) + 1
           end   == rpo[m] - 1
<1>1. n = (IF begin > end THEN Outcome(RPO_UNDEF, FALSE, TRUE)
           ELSE SearchBetween(begin, end)).found
  BY DEF compRPOIfVexPriorMarker
<1>2. /\ S \subseteq vexs /\ IsFiniteSet(S)
      /\ \A p \in S : rpo[p] \in Int /\ rpo[p] > -RPO_INTERVAL
  <2>1. S \subseteq vexs
    BY DEF Preds
  <2> QED
    BY <2>1, FS_Subset DEF GraphInv, NumbersInGap
<1>3. /\ begin \in Int /\ begin >= -RPO_INTERVAL
      /\ \A p \in S : rpo[p] < begin
  <2>1. CASE preds = {}
    <3>1. LET g == computeNearestGreaterUnUsableRPO(rpo[m]) IN g \in Int /\ g >= 0
      BY GreaterIs DEF NumbersInGap
    <3>2. S = {}
      BY <2>1
    <3> QED
      BY <2>1, <3>1, <3>2
  <2>2. CASE preds # {}
    <3>1. S # {}
      BY <2>2
    <3>2. Max(preds) \in preds /\ \A k \in preds : k <= Max(preds)
      BY <3>1, <1>2, MaxIs
    <3>3. PICK p \in S : Max(preds) = rpo[p]
      BY <3>2
    <3>4. Max(preds) \in Int /\ Max(preds) > -RPO_INTERVAL
      BY <3>3, <1>2
    <3>5. \A p2 \in S : rpo[p2] \in Int /\ rpo[p2] <= Max(preds)
      BY <3>2, <1>2
    <3>6. begin = Max(preds) + 1
      BY <2>2
    <3> HIDE DEF preds, S, begin
    <3> QED
      BY <3>4, <3>5, <3>6
  <2> QED
    BY <2>1, <2>2
<1>4. end \in Int
  BY DEF NumbersInGap
<1> HIDE DEF begin, end
<1>5. n \in Int /\ begin <= n /\ n <= end + 1
  <2>1. ~(begin > end) /\ n = tryFindUsableRPO(begin, end)
    BY <1>1 DEF SearchBetween, Outcome
  <2> QED
    BY <2>1, <1>3, <1>4, FoundBetween
<1>6. isUsableRPO(n)
  BY PriorIsFree DEF FreeOrNone
<1>7. n # rpo[m] /\ n % RPO_INTERVAL # 0
  BY <1>6, FreeIsNew
<1>8. n # -RPO_INTERVAL
  <2>1. (-RPO_INTERVAL) % RPO_INTERVAL = 0
    OBVIOUS
  <2> QED
    BY <2>1, <1>7
<1> HIDE DEF S
<1>9. \A p \in S : rpo[p] < n
  BY <1>2, <1>3, <1>5
<1> QED
  BY <1>3, <1>5, <1>7, <1>8, <1>9 DEF NumbersInGap, S, end

LEMMA LessInt ==
    ASSUME NEW r \in Int
    PROVE  computeNearestLessUnUsableRPO(r) \in Int
BY DivMod DEF computeNearestLessUnUsableRPO, Quotient

LEMMA AfterBetween ==
    ASSUME GraphInv, NumbersInv, NumbersInGap, NEW m \in vexs,
           NEW n, n = compRPOIfMarkerPriorVex(m), n.found # RPO_UNDEF
    PROVE  /\ n.found \in Int /\ n.found > -RPO_INTERVAL
           /\ IF n.swap
              THEN /\ Cardinality(Succs(m)) = 1
                   /\ n.found < rpo[m]
                   /\ \A p \in Preds(m) \ {m} : rpo[p] < n.found
              ELSE /\ rpo[m] < n.found
                   /\ \A s \in Succs(m) \ {m} : n.found < rpo[s]
<1> DEFINE S     == Succs(m) \ {m}
           succs == {rpo[s] : s \in S}
           begin == rpo[m] + 1
           end   == IF succs = {}
                    THEN computeNearestLessUnUsableRPO(rpo[m]) + RPO_INTERVAL
                    ELSE Min(succs) - 1
<1>1. n = IF begin <= end THEN SearchBetween(begin, end)
          ELSE IF Cardinality(Succs(m)) = 1
          THEN compRPOIfMarkerPriorVexCase1(m)
          ELSE Outcome(RPO_UNDEF, FALSE, TRUE)
  BY DEF compRPOIfMarkerPriorVex
<1>2. /\ S \subseteq vexs /\ IsFiniteSet(S)
      /\ \A s \in S : rpo[s] \in Int
  <2>1. S \subseteq vexs
    BY DEF Succs
  <2> QED
    BY <2>1, FS_Subset DEF GraphInv, NumbersInGap
<1>3. end \in Int /\ \A s \in S : end < rpo[s]
  <2>1. CASE succs = {}
    <3>1. computeNearestLessUnUsableRPO(rpo[m]) \in Int
      BY LessInt DEF NumbersInGap
    <3>2. S = {}
      BY <2>1
    <3> QED
      BY <2>1, <3>1, <3>2
  <2>2. CASE succs # {}
    <3>1. S # {}
      BY <2>2
    <3>2. Min(succs) \in succs /\ \A k \in succs : Min(succs) <= k
      <4>1. IsFiniteSet(S) /\ \A s \in S : rpo[s] \in Int
        BY <1>2
      <4> HIDE DEF S, end
      <4>2. LET M == {rpo[s] : s \in S} IN Min(M) \in M /\ \A k \in M : Min(M) <= k
        BY ONLY <3>1, <4>1, MinIs
      <4> QED
        BY <4>2
    <3>3. PICK p \in S : Min(succs) = rpo[p]
      BY <3>2
    <3>4. Min(succs) \in Int
      BY <3>3, <1>2
    <3>5. \A s \in S : rpo[s] \in Int /\ Min(succs) <= rpo[s]
      BY <3>2, <1>2
    <3>6. end = Min(succs) - 1
      BY <2>2
    <3> HIDE DEF succs, S, end
    <3> QED
      BY <3>4, <3>5, <3>6
  <2> QED
    BY <2>1, <2>2
<1>4. begin \in Int /\ begin > -RPO_INTERVAL /\ rpo[m] \in Int
  BY DEF NumbersInGap
<1> HIDE DEF end
<1>5. CASE begin <= end
  <2>1. n.found = tryFindUsableRPO(begin, end) /\ ~n.swap
    BY <1>1, <1>5 DEF SearchBetween, Outcome
  <2>2. n.found \in Int /\ begin <= n.found /\ n.found <= end + 1
    BY <2>1, <1>3, <1>4, <1>5, FoundBetween
  <2>3. \A v \in vexs : rpo[v] # n.found
    BY <2>1, FoundIsFree, FreeIsNew DEF FreeOrNone
  <2>4. \A s \in S : n.found < rpo[s]
    <3> TAKE s \in S
    <3>1. s \in vexs /\ rpo[s] \in Int /\ end < rpo[s] /\ rpo[s] # n.found
      BY <1>2, <1>3, <2>3
    <3> QED
      BY <3>1, <2>2, <1>3
  <2> HIDE DEF S
  <2>5. rpo[m] < n.found /\ n.found > -RPO_INTERVAL
    BY <2>2, <1>4
  <2> QED
    BY <2>1, <2>2, <2>4, <2>5 DEF S
<1>6. CASE ~(begin <= end)
  <2>1. /\ Cardinality(Succs(m)) = 1
        /\ n = compRPOIfMarkerPriorVexCase1(m)
    BY <1>1, <1>6 DEF Outcome
  <2>2. n.swap /\ n.found = compRPOIfVexPriorMarker(m).found
    BY <2>1 DEF compRPOIfMarkerPriorVexCase1, Outcome
  <2> QED
    BY <2>1, <2>2, PriorBetween
<1> QED
  BY <1>5, <1>6

-----------------------------------------------------------------------------
(* The list *)

\* Every vertex once, at its position.
Lists(s, vs, pos) ==
    /\ s \in Seq(vs) /\ pos \in [vs -> 1 .. Len(s)]
    /\ \A v \in vs : s[pos[v]] = v
    /\ \A i \in 1 .. Len(s) : pos[s[i]] = i

LEMMA InsertAtIs ==
    ASSUME NEW X, NEW s \in Seq(X), NEW k \in 1 .. (Len(s) + 1), NEW x \in X
    PROVE  LET t == InsertAt(s, k, x)
           IN  /\ t \in Seq(X) /\ Len(t) = Len(s) + 1 /\ t[k] = x
               /\ \A i \in 1 .. Len(s) : t[IF i < k THEN i ELSE i + 1] = s[i]
<1> DEFINE a == SubSeq(s, 1, k - 1)
           b == SubSeq(s, k, Len(s))
           n == Len(s)
<1>1. /\ n \in Nat /\ k \in Nat /\ k >= 1 /\ k <= n + 1
  OBVIOUS
<1>2. /\ a \in Seq(X) /\ Len(a) = k - 1
      /\ \A i \in 1 .. (k - 1) : a[i] = s[i]
  BY <1>1
<1>3. /\ b \in Seq(X) /\ Len(b) = n - k + 1
      /\ \A i \in 1 .. (n - k + 1) : b[i] = s[k + i - 1]
  BY <1>1
<1>4. InsertAt(s, k, x) = (a \o <<x>>) \o b
  BY DEF InsertAt
<1> DEFINE c == a \o <<x>>
<1>5. /\ c \in Seq(X) /\ Len(c) = k /\ c[k] = x
      /\ \A i \in 1 .. (k - 1) : c[i] = s[i]
  <2> HIDE DEF a
  <2>1. /\ <<x>> \in Seq(X) /\ Len(<<x>>) = 1 /\ <<x>>[1] = x
    OBVIOUS
  <2>2. /\ c \in Seq(X) /\ Len(c) = Len(a) + 1
        /\ \A i \in 1 .. Len(c) : c[i] = IF i <= Len(a) THEN a[i] ELSE <<x>>[i - Len(a)]
    BY <1>2, <2>1
  <2>3. \A i \in 1 .. (k - 1) : i \in 1 .. Len(c) /\ i <= Len(a)
    BY <1>1, <1>2, <2>2
  <2>4. k \in 1 .. Len(c) /\ ~(k <= Len(a)) /\ k - Len(a) = 1
    BY <1>1, <1>2, <2>2
  <2> HIDE DEF c
  <2>5. Len(c) = k
    BY <1>1, <1>2, <2>2
  <2>6. c[k] = x
    <3>1. c[k] = <<x>>[k - Len(a)]
      BY <2>2, <2>4
    <3> QED
      BY <3>1, <2>1, <2>4
  <2>7. \A i \in 1 .. (k - 1) : c[i] = s[i]
    BY <1>2, <2>2, <2>3
  <2> QED
    BY <2>2, <2>5, <2>6, <2>7
<1> HIDE DEF a, b, c
<1> DEFINE t == c \o b
<1>6. /\ t \in Seq(X) /\ Len(t) = n + 1
      /\ \A i \in 1 .. Len(t) : t[i] = IF i <= k THEN c[i] ELSE b[i - k]
  <2>1. /\ t \in Seq(X) /\ Len(t) = Len(c) + Len(b)
        /\ \A i \in 1 .. Len(t) : t[i] = IF i <= Len(c) THEN c[i] ELSE b[i - Len(c)]
    BY <1>3, <1>5
  <2>2. Len(c) + Len(b) = n + 1 /\ Len(c) = k
    BY <1>1, <1>3, <1>5
  <2> HIDE DEF t
  <2> QED
    BY <2>1, <2>2
<1>7. t = InsertAt(s, k, x)
  BY <1>4 DEF c
<1> HIDE DEF t
<1>8. t[k] = x
  BY <1>1, <1>5, <1>6
<1>9. ASSUME NEW i \in 1 .. n PROVE t[IF i < k THEN i ELSE i + 1] = s[i]
  <2>1. CASE i < k
    <3>1. i \in 1 .. Len(t) /\ i <= k /\ i \in 1 .. (k - 1)
      BY <1>1, <1>6, <2>1
    <3> QED
      BY <2>1, <3>1, <1>5, <1>6
  <2>2. CASE ~(i < k)
    <3>1. /\ i + 1 \in 1 .. Len(t) /\ ~(i + 1 <= k) /\ (i + 1) - k \in 1 .. (n - k + 1)
          /\ k + ((i + 1) - k) - 1 = i
      BY <1>1, <1>6, <2>2
    <3> QED
      BY <2>2, <3>1, <1>3, <1>6
  <2> QED
    BY <2>1, <2>2
<1> QED
  BY <1>6, <1>7, <1>8, <1>9

LEMMA InsertLists ==
    ASSUME NEW vs, NEW s, NEW pos, Lists(s, vs, pos), NEW new, new \notin vs,
           NEW k \in 1 .. (Len(s) + 1),
           NEW pos2, pos2 = [v \in vs \cup {new} |->
                               IF v = new THEN k
                               ELSE IF pos[v] < k THEN pos[v] ELSE pos[v] + 1]
    PROVE  Lists(InsertAt(s, k, new), vs \cup {new}, pos2)
<1> DEFINE t == InsertAt(s, k, new)
           W == vs \cup {new}
           n == Len(s)
<1>1. /\ s \in Seq(W) /\ n \in Nat /\ new \in W /\ s \in Seq(vs)
  BY DEF Lists
<1>2. /\ t \in Seq(W) /\ Len(t) = n + 1 /\ t[k] = new
      /\ \A i \in 1 .. n : t[IF i < k THEN i ELSE i + 1] = s[i]
  BY <1>1, InsertAtIs
<1>3. \A i \in 1 .. n : s[i] \in vs /\ pos[s[i]] = i
  BY <1>1 DEF Lists
<1>4. \A v \in vs : pos[v] \in 1 .. n /\ s[pos[v]] = v
  BY DEF Lists
<1>5. /\ pos2[new] = k
      /\ \A v \in vs : pos2[v] = IF pos[v] < k THEN pos[v] ELSE pos[v] + 1
  <2>1. \A v \in vs : v # new
    OBVIOUS
  <2> QED
    BY <2>1
<1> HIDE DEF t
<1>6. pos2 \in [W -> 1 .. (n + 1)]
  <2>1. \A v \in W : pos2[v] \in 1 .. (n + 1)
    <3>1. k \in 1 .. (n + 1)
      OBVIOUS
    <3>2. \A v \in vs : pos2[v] \in 1 .. (n + 1)
      BY <1>1, <1>4, <1>5
    <3> QED
      BY <3>1, <3>2, <1>5
  <2> QED
    BY <2>1
<1>7. \A v \in W : t[pos2[v]] = v
  BY <1>2, <1>4, <1>5
<1>8. ASSUME NEW i \in 1 .. (n + 1) PROVE pos2[t[i]] = i
  <2>1. CASE i = k
    BY <2>1, <1>2, <1>5
  <2>2. CASE i < k
    <3>1. i \in 1 .. n
      BY <2>2, <1>1
    <3> QED
      BY <2>2, <3>1, <1>2, <1>3, <1>5
  <2>3. CASE i > k
    <3>1. PICK j \in 1 .. n : ~(j < k) /\ i = j + 1
      <4>1. i - 1 \in 1 .. n /\ ~(i - 1 < k) /\ i = (i - 1) + 1
        BY <2>3, <1>1
      <4> QED
        BY <4>1
    <3> QED
      BY <3>1, <1>2, <1>3, <1>5
  <2> QED
    BY <2>1, <2>2, <2>3
<1>9. Lists(t, W, pos2)
  BY <1>2, <1>6, <1>7, <1>8 DEF Lists
<1> QED
  BY <1>9 DEF t

LEMMA LeastIn ==
    ASSUME NEW n \in Nat, NEW S \in SUBSET (0 .. n), S # {}
    PROVE  \E k \in S : \A m \in S : k <= m
<1>1. IsFiniteSet(S)
  <2>1. IsFiniteSet(0 .. n)
    BY FS_Interval
  <2> QED
    BY <2>1, FS_Subset
<1>2. PICK id : id = [k \in S |-> k]
  OBVIOUS
<1>3. \A k \in S : id[k] = k /\ id[k] \in Int
  BY <1>2
<1>4. \E m \in S : \A l \in S : id[m] <= id[l]
  BY <1>1, <1>3, LeastOf
<1> QED
  BY <1>3, <1>4

LEMMA AppendLists ==
    ASSUME NEW vs, NEW s, NEW pos, Lists(s, vs, pos), NEW x, x \notin vs,
           NEW pos2, pos2 = [v \in vs \cup {x} |-> IF v = x THEN Len(s) + 1 ELSE pos[v]]
    PROVE  Lists(Append(s, x), vs \cup {x}, pos2)
<1> DEFINE t == Append(s, x)
           W == vs \cup {x}
           n == Len(s)
<1>1. /\ s \in Seq(W) /\ n \in Nat /\ x \in W
  BY DEF Lists
<1>2. /\ t \in Seq(W) /\ Len(t) = n + 1 /\ t[n + 1] = x
      /\ \A i \in 1 .. n : t[i] = s[i]
  BY <1>1
<1>3. \A i \in 1 .. n : s[i] \in vs /\ pos[s[i]] = i
  BY <1>1 DEF Lists
<1>4. \A v \in vs : pos[v] \in 1 .. n /\ s[pos[v]] = v
  BY DEF Lists
<1>5. /\ pos2[x] = n + 1
      /\ \A v \in vs : pos2[v] = pos[v]
  OBVIOUS
<1> HIDE DEF t
<1>6. pos2 \in [W -> 1 .. (n + 1)]
  <2>1. \A v \in W : pos2[v] \in 1 .. (n + 1)
    BY <1>1, <1>4, <1>5
  <2> QED
    BY <2>1
<1>7. \A v \in W : t[pos2[v]] = v
  BY <1>2, <1>4, <1>5
<1>8. ASSUME NEW i \in 1 .. (n + 1) PROVE pos2[t[i]] = i
  <2>1. CASE i = n + 1
    BY <2>1, <1>2, <1>5
  <2>2. CASE i \in 1 .. n
    BY <2>2, <1>2, <1>3, <1>5
  <2> QED
    BY <2>1, <2>2, <1>1
<1>9. Lists(t, W, pos2)
  BY <1>2, <1>6, <1>7, <1>8 DEF Lists
<1> QED
  BY <1>9 DEF t

\* A recursive function on the positions of a list exists: of the prefixes, no
\* least one lacks it.
LEMMA WithoutIs ==
    ASSUME NEW s, Len(s) \in Nat, NEW gone
    PROVE  \E f : /\ Without(s, gone) = f[Len(s)]
                  /\ f[0] = <<>>
                  /\ \A i \in 1 .. Len(s) :
                        f[i] = IF s[i] \in gone THEN f[i - 1] ELSE Append(f[i - 1], s[i])
<1> DEFINE n == Len(s)
           Step(i, r) == IF s[i] \in gone THEN r ELSE Append(r, s[i])
           Upto(k, f) == f = [i \in 0 .. k |-> IF i = 0 THEN <<>> ELSE Step(i, f[i - 1])]
           Short == {k \in 0 .. n : ~\E f : Upto(k, f)}
<1>1. \E f : Upto(n, f)
  <2> SUFFICES ASSUME Short # {} PROVE FALSE
    BY n \in 0 .. n
  <2>1. PICK k \in Short : \A m \in Short : k <= m
    <3>1. Short \in SUBSET (0 .. n) /\ n \in Nat
      OBVIOUS
    <3> HIDE DEF Short
    <3> QED
      BY <3>1, LeastIn
  <2>2. k \in 0 .. n
    OBVIOUS
  <2>3. k # 0
    <3>1. Upto(0, [i \in 0 .. 0 |-> <<>>])
      OBVIOUS
    <3> QED
      BY <3>1, <2>1
  <2>4. k - 1 \in 0 .. n /\ ~(k <= k - 1)
    BY <2>2, <2>3
  <2>5. PICK f : Upto(k - 1, f)
    <3> HIDE DEF Upto
    <3> QED
      BY <2>1, <2>4
  <2> DEFINE h == [i \in 0 .. k |-> IF i = k THEN Step(k, f[k - 1]) ELSE f[i]]
  <2>6. \A i \in 0 .. k : h[i] = IF i = 0 THEN <<>> ELSE Step(i, h[i - 1])
    <3> TAKE i \in 0 .. k
    <3>1. \A j \in 0 .. (k - 1) : f[j] = IF j = 0 THEN <<>> ELSE Step(j, f[j - 1])
      <4> HIDE DEF Step
      <4> QED
        BY <2>5
    <3>2. \A j \in 0 .. (k - 1) : h[j] = f[j]
      <4> HIDE DEF Step, Upto
      <4> QED
        BY <2>2
    <3>3. h[k] = Step(k, f[k - 1])
      <4> HIDE DEF Step, Upto
      <4> QED
        BY <2>2
    <3> HIDE DEF Step, Upto, h
    <3>4. CASE i = k
      <4>1. k - 1 \in 0 .. (k - 1)
        BY <2>2, <2>3
      <4> QED
        BY <4>1, <3>2, <3>3, <3>4, <2>3
    <3>5. CASE i = 0
      BY <3>5, <2>2, <2>3, <3>1, <3>2
    <3>6. CASE i # k /\ i # 0
      <4>1. i \in 0 .. (k - 1) /\ i - 1 \in 0 .. (k - 1)
        BY <3>6, <2>2
      <4> QED
        BY <4>1, <3>1, <3>2, <3>6
    <3> QED
      BY <3>4, <3>5, <3>6
  <2>7. Upto(k, h)
    <3>1. h = [i \in 0 .. k |-> h[i]]
      OBVIOUS
    <3> HIDE DEF h, Step
    <3> QED
      BY <3>1, <2>6
  <2> QED
    BY <2>7, <2>1
<1> DEFINE g == CHOOSE f : Upto(n, f)
<1>2. Upto(n, g)
  <2> HIDE DEF Upto
  <2> QED
    BY <1>1
<1>3. Without(s, gone) = g[n]
  BY DEF Without
<1> HIDE DEF g
<1>4. g[0] = <<>> /\ \A i \in 1 .. n : g[i] = Step(i, g[i - 1])
  <2> HIDE DEF Step
  <2>1. \A i \in 0 .. n : g[i] = IF i = 0 THEN <<>> ELSE Step(i, g[i - 1])
    BY <1>2
  <2>2. \A i \in 1 .. n : i \in 0 .. n /\ i # 0
    OBVIOUS
  <2>3. 0 \in 0 .. n
    OBVIOUS
  <2> HIDE DEF Upto
  <2> QED
    BY <2>1, <2>2, <2>3
<1> QED
  BY <1>3, <1>4

LEMMA WithoutLists ==
    ASSUME NEW vs, NEW s, NEW pos, Lists(s, vs, pos), NEW gone
    PROVE  \E pos2 : /\ Lists(Without(s, gone), vs \ gone, pos2)
                     /\ \A x, y \in vs \ gone : pos[x] < pos[y] => pos2[x] < pos2[y]
<1> DEFINE n == Len(s)
           W(i) == {v \in vs \ gone : pos[v] <= i}
           Kept(i, t) == \E p : /\ Lists(t, W(i), p)
                                /\ \A x, y \in W(i) : pos[x] < pos[y] => p[x] < p[y]
<1>1. /\ s \in Seq(vs) /\ n \in Nat
      /\ \A v \in vs : pos[v] \in 1 .. n /\ s[pos[v]] = v
      /\ \A i \in 1 .. n : s[i] \in vs /\ pos[s[i]] = i
  BY DEF Lists
<1>2. PICK f : /\ Without(s, gone) = f[n]
               /\ f[0] = <<>>
               /\ \A i \in 1 .. n :
                     f[i] = IF s[i] \in gone THEN f[i - 1] ELSE Append(f[i - 1], s[i])
  BY <1>1, WithoutIs
<1>3. Kept(0, f[0])
  <2>1. W(0) = {} /\ f[0] = <<>> /\ Len(<<>>) = 0 /\ <<>> \in Seq({})
    BY <1>1, <1>2
  <2>2. PICK p : p = [v \in {} |-> 0]
    OBVIOUS
  <2>3. p \in [{} -> 1 .. 0]
    BY <2>2
  <2> HIDE DEF W
  <2>4. Lists(f[0], W(0), p)
    BY <2>1, <2>3 DEF Lists
  <2> QED
    BY <2>1, <2>4
<1>4. ASSUME NEW i \in 1 .. n, Kept(i - 1, f[i - 1]) PROVE Kept(i, f[i])
  <2>1. CASE s[i] \in gone
    <3>1. f[i] = f[i - 1]
      BY <1>2, <2>1
    <3>2. W(i) = W(i - 1)
      <4> SUFFICES ASSUME NEW v \in vs \ gone, pos[v] <= i PROVE pos[v] <= i - 1
        BY <1>1
      <4>1. pos[v] # i
        BY <1>1, <2>1
      <4> QED
        BY <4>1, <1>1
    <3> HIDE DEF W
    <3> QED
      BY <3>1, <3>2, <1>4
  <2>2. CASE s[i] \notin gone
    <3> DEFINE x == s[i]
               t == f[i - 1]
               V == W(i - 1)
    <3>1. f[i] = Append(t, x) /\ x \in vs /\ pos[x] = i
      BY <1>1, <1>2, <2>2
    <3>2. x \notin V /\ W(i) = V \cup {x}
      <4>1. x \notin V
        BY <3>1
      <4>2. ASSUME NEW v \in vs \ gone, pos[v] <= i, v # x PROVE pos[v] <= i - 1
        <5>1. pos[v] # i
          BY <4>2, <1>1
        <5> QED
          BY <5>1, <4>2, <1>1
      <4>3. \A v \in vs \ gone : pos[v] <= i - 1 => pos[v] <= i
        BY <1>1
      <4>4. x \in W(i)
        BY <3>1, <2>2, <1>1
      <4> HIDE DEF x
      <4> QED
        BY <4>1, <4>2, <4>3, <4>4
    <3>3. \A v \in V : pos[v] \in Int /\ pos[v] < i
      BY <1>1
    <3>4. PICK p : /\ Lists(t, V, p)
                   /\ \A y, z \in V : pos[y] < pos[z] => p[y] < p[z]
      BY <1>4
    <3> HIDE DEF W, V, t, x
    <3>5. PICK q : q = [v \in V \cup {x} |-> IF v = x THEN Len(t) + 1 ELSE p[v]]
      OBVIOUS
    <3>6. Lists(Append(t, x), V \cup {x}, q)
      BY <3>2, <3>4, <3>5, AppendLists
    <3>7. /\ q[x] = Len(t) + 1 /\ Len(t) \in Nat
          /\ \A v \in V : q[v] = p[v] /\ p[v] \in 1 .. Len(t)
      BY <3>2, <3>4, <3>5 DEF Lists
    <3>8. ASSUME NEW y \in V \cup {x}, NEW z \in V \cup {x}, pos[y] < pos[z]
          PROVE  q[y] < q[z]
      <4>1. CASE y \in V /\ z \in V
        BY <4>1, <3>4, <3>7, <3>8
      <4>2. CASE y \in V /\ z = x
        BY <4>2, <3>7
      <4>3. CASE y = x
        <5>1. z # x
          BY <4>3, <3>1, <3>8
        <5> QED
          BY <5>1, <4>3, <3>1, <3>3, <3>8
      <4> QED
        BY <4>1, <4>2, <4>3
    <3> QED
      BY <3>1, <3>2, <3>6, <3>8
  <2> QED
    BY <2>1, <2>2
<1>5. Kept(n, f[n])
  <2> DEFINE Bad == {i \in 0 .. n : ~Kept(i, f[i])}
  <2> HIDE DEF Kept
  <2> SUFFICES ASSUME Bad # {} PROVE FALSE
    <3>1. n \in 0 .. n
      BY <1>1
    <3> QED
      BY <3>1
  <2>1. PICK k \in Bad : \A m \in Bad : k <= m
    <3>1. Bad \in SUBSET (0 .. n) /\ n \in Nat
      BY <1>1
    <3> HIDE DEF Bad
    <3> QED
      BY <3>1, LeastIn
  <2>2. k \in 0 .. n /\ k # 0
    BY <1>3
  <2>3. k \in 1 .. n /\ k - 1 \in 0 .. n /\ ~(k <= k - 1)
    BY <2>2, <1>1
  <2>4. Kept(k - 1, f[k - 1])
    BY <2>1, <2>3
  <2> QED
    BY <2>1, <2>3, <2>4, <1>4
<1>6. W(n) = vs \ gone
  BY <1>1
<1> HIDE DEF W
<1> QED
  BY <1>2, <1>5, <1>6

-----------------------------------------------------------------------------
(* The order of the search, of the numbers and of the list *)

\* The stack is a path from the entry, and the list that the search builds holds
\* other vertices, once each, with ascending numbers.
SearchPath ==
    /\ StackPath(edges, stk)
    /\ ToSet(stk) \cap ToSet(order) = {}
    /\ Len(order) = Cardinality(ToSet(order))
    /\ \A i, j \in 1 .. Len(order) : i < j => rpo[order[i]] < rpo[order[j]]

PathInv == stk # <<>> => SearchPath

\* From a finished vertex an edge goes up or to a dominator; so do all edges when
\* the numbering is valid.
DownInv ==
    \/ redirected
    \/ /\ Reducible(vexs, edges)
       /\ IF stk # <<>>
          THEN \A v \in ToSet(order), w \in vexs : <<v, w>> \in edges =>
                  \/ Dom(vexs, edges, w, v)
                  \/ w \in ToSet(order) /\ rpo[v] < rpo[w]
          ELSE valid => NumbersInGap /\ Up(vexs, edges, rpo)

\* The list of a valid numbering has an order like that, too.
Listed(s, vs, es) == \E pos : Lists(s, vs, pos) /\ (redirected \/ Up(vs, es, pos))

ListInv == valid => Listed(vlst, vexs, edges)

OrderInv == PathInv /\ DownInv /\ ListInv

LEMMA StartOrder ==
    ASSUME IInv, OrderInv, stk = <<>>, stk' = <<Entry>>,
           UNCHANGED <<vexs, edges, order, vlst, valid, redirected>>
    PROVE  OrderInv'
<1>1. order' = <<>> /\ ToSet(order') = {} /\ Len(order') = 0
  BY DEF IInv, ToSet
<1>2. Cardinality({}) = 0
  BY FS_EmptySet
<1>3. Len(stk') = 1 /\ stk'[1] = Entry /\ stk' # <<>>
  OBVIOUS
<1>4. StackPath(edges, stk)'
  BY <1>3 DEF StackPath
<1>5. PathInv'
  <2>1. Len(order') = Cardinality(ToSet(order'))
    <3>1. Cardinality(ToSet(order')) = Cardinality({})
      BY <1>1
    <3> QED
      BY <3>1, <1>1, <1>2
  <2>2. \A i : i \notin 1 .. Len(order')
    BY <1>1
  <2> QED
    BY <2>1, <2>2, <1>1, <1>4 DEF PathInv, SearchPath
<1>6. DownInv'
  <2>1. (Reducible(vexs, edges))' <=> Reducible(vexs, edges)
    OBVIOUS
  <2> QED
    BY <2>1, <1>1, <1>3 DEF OrderInv, DownInv
<1>7. ListInv'
  BY DEF OrderInv, ListInv, Listed
<1> QED
  BY <1>5, <1>6, <1>7 DEF OrderInv

\* A vertex on top of a stack.
LEMMA PushIs ==
    ASSUME NEW X, NEW s \in Seq(X), NEW x \in X, NEW t, t = <<x>> \o s
    PROVE  /\ Len(t) = Len(s) + 1 /\ t[1] = x /\ Len(s) \in Nat
           /\ \A i \in 1 .. Len(s) : t[i + 1] = s[i]
<1>1. /\ Len(<<x>>) = 1 /\ <<x>>[1] = x /\ <<x>> \in Seq(X)
      /\ Len(<<x>> \o s) = 1 + Len(s) /\ Len(s) \in Nat
      /\ \A i \in 1..(1 + Len(s)) :
            (<<x>> \o s)[i] = IF i <= 1 THEN <<x>>[i] ELSE s[i - 1]
  OBVIOUS
<1>2. ASSUME NEW i \in 1 .. Len(s) PROVE t[i + 1] = s[i]
  <2>1. i + 1 \in 1 .. (1 + Len(s)) /\ ~(i + 1 <= 1) /\ (i + 1) - 1 = i
    BY <1>1
  <2> QED
    BY <2>1, <1>1
<1>3. t[1] = x
  <2>1. 1 \in 1 .. (1 + Len(s))
    BY <1>1
  <2> QED
    BY <2>1, <1>1
<1> QED
  BY <1>1, <1>2, <1>3

LEMMA PushPath ==
    ASSUME NEW X, NEW es, NEW s \in Seq(X), s # <<>>, StackPath(es, s),
           NEW x \in X, x \notin ToSet(s), <<s[1], x>> \in es
    PROVE  StackPath(es, <<x>> \o s)
<1> DEFINE t == <<x>> \o s
<1>1. /\ Len(t) = Len(s) + 1 /\ t[1] = x /\ Len(s) \in Nat /\ Len(s) # 0
      /\ \A i \in 1 .. Len(s) : t[i + 1] = s[i]
  BY PushIs
<1>2. \A i \in 1 .. Len(s) : s[i] # x
  BY DEF ToSet
<1> HIDE DEF t
<1>3. ASSUME NEW i \in 1 .. Len(t), i # 1
      PROVE  i - 1 \in 1 .. Len(s) /\ t[i] = s[i - 1]
  <2>1. i - 1 \in 1 .. Len(s) /\ (i - 1) + 1 = i
    BY <1>1, <1>3
  <2> QED
    BY <2>1, <1>1
<1>4. t[Len(t)] = Entry
  <2>1. Len(t) \in 1 .. Len(t) /\ Len(t) # 1 /\ Len(t) - 1 = Len(s)
    BY <1>1
  <2> QED
    BY <2>1, <1>3 DEF StackPath
<1>5. ASSUME NEW i \in 1 .. (Len(t) - 1) PROVE <<t[i + 1], t[i]>> \in es
  <2>1. i \in 1 .. Len(s) /\ t[i + 1] = s[i]
    BY <1>1
  <2>2. CASE i = 1
    BY <2>1, <2>2, <1>1
  <2>3. CASE i # 1
    <3>1. i - 1 \in 1 .. (Len(s) - 1) /\ t[i] = s[i - 1] /\ (i - 1) + 1 = i
      BY <2>1, <2>3, <1>1, <1>3
    <3> QED
      BY <2>1, <3>1 DEF StackPath
  <2> QED
    BY <2>2, <2>3
<1>6. ASSUME NEW i \in 1 .. Len(t), NEW j \in 1 .. Len(t), t[i] = t[j]
      PROVE  i = j
  <2>1. CASE i # 1 /\ j # 1
    <3>1. /\ i - 1 \in 1 .. Len(s) /\ j - 1 \in 1 .. Len(s)
          /\ s[i - 1] = s[j - 1]
      BY <2>1, <1>3, <1>6
    <3>2. i - 1 = j - 1
      BY <3>1 DEF StackPath
    <3> QED
      BY <3>2
  <2>2. CASE i = 1 \/ j = 1
    BY <2>2, <1>1, <1>2, <1>3, <1>6
  <2> QED
    BY <2>1, <2>2
<1>7. StackPath(es, t)
  BY <1>4, <1>5, <1>6 DEF StackPath
<1> QED
  BY <1>7 DEF t

LEMMA VisitKidOrder == IInv /\ OrderInv /\ VisitKid => OrderInv'
<1> SUFFICES ASSUME IInv, OrderInv, VisitKid PROVE OrderInv'
  OBVIOUS
<1>1. PICK w \in Succs(Head(stk)) \ Visited : stk' = <<w>> \o stk
  BY DEF VisitKid
<1>2. /\ UNCHANGED <<vexs, edges, rpo, order, vlst, valid, redirected>>
      /\ stk # <<>>
  BY DEF VisitKid
<1>3. SearchInv /\ SearchPath /\ w \in vexs
  BY <1>1, <1>2 DEF IInv, OrderInv, PathInv, Succs
<1>4. stk \in Seq(vexs) /\ Head(stk) = stk[1]
  BY <1>2, <1>3 DEF SearchInv
<1>5. StackPath(edges, stk')
  <2>1. w \notin ToSet(stk) /\ <<stk[1], w>> \in edges
    BY <1>1, <1>4 DEF Visited, Succs
  <2> QED
    BY <2>1, <1>1, <1>2, <1>3, <1>4, PushPath DEF SearchPath
<1>6. ToSet(stk') = {w} \cup ToSet(stk) /\ w \notin ToSet(order) /\ stk' # <<>>
  BY <1>1, <1>4, PushToSet DEF Visited
<1>7. PathInv'
  BY <1>2, <1>3, <1>5, <1>6 DEF PathInv, SearchPath
<1>8. DownInv'
  <2>1. (Reducible(vexs, edges))' <=> Reducible(vexs, edges)
    BY <1>2
  <2>2. \A x, y \in vexs : (Dom(vexs, edges, x, y))' <=> Dom(vexs, edges, x, y)
    BY <1>2
  <2> QED
    BY <2>1, <2>2, <1>2, <1>6 DEF OrderInv, DownInv
<1>9. ListInv'
  BY <1>2 DEF OrderInv, ListInv, Listed
<1> QED
  BY <1>7, <1>8, <1>9 DEF OrderInv

LEMMA PopPath ==
    ASSUME NEW X, NEW es, NEW s \in Seq(X), s # <<>>, StackPath(es, s)
    PROVE  /\ Head(s) \notin ToSet(Tail(s))
           /\ Tail(s) # <<>> => StackPath(es, Tail(s))
<1> DEFINE t == Tail(s)
<1>1. /\ t \in Seq(X) /\ Head(s) \in X /\ s = <<Head(s)>> \o t
  OBVIOUS
<1>2. /\ Len(s) = Len(t) + 1 /\ s[1] = Head(s) /\ Len(t) \in Nat
      /\ \A i \in 1 .. Len(t) : s[i + 1] = t[i]
  BY <1>1, PushIs
<1>3. \A i \in 1 .. Len(t) : i + 1 \in 1 .. Len(s) /\ i + 1 # 1 /\ 1 \in 1 .. Len(s)
  BY <1>2
<1>4. Head(s) \notin ToSet(t)
  <2> SUFFICES ASSUME NEW i \in 1 .. Len(t), t[i] = Head(s) PROVE FALSE
    BY <1>1 DEF ToSet
  <2> QED
    BY <1>2, <1>3 DEF StackPath
<1>5. ASSUME t # <<>> PROVE StackPath(es, t)
  <2>1. Len(t) # 0
    BY <1>1, <1>5
  <2> HIDE DEF t
  <2>2. t[Len(t)] = Entry
    <3>1. Len(t) \in 1 .. Len(t)
      BY <2>1, <1>2
    <3> QED
      BY <3>1, <1>2 DEF StackPath
  <2>3. ASSUME NEW i \in 1 .. (Len(t) - 1) PROVE <<t[i + 1], t[i]>> \in es
    <3>1. i \in 1 .. Len(t) /\ i + 1 \in 1 .. Len(t) /\ i + 1 \in 1 .. (Len(s) - 1)
      BY <1>2
    <3> QED
      BY <3>1, <1>2 DEF StackPath
  <2>4. ASSUME NEW i \in 1 .. Len(t), NEW j \in 1 .. Len(t), t[i] = t[j] PROVE i = j
    <3>1. i + 1 = j + 1
      BY <2>4, <1>2, <1>3 DEF StackPath
    <3> QED
      BY <3>1
  <2> QED
    BY <2>2, <2>3, <2>4 DEF StackPath
<1> QED
  BY <1>4, <1>5

LEMMA SearchEnds ==
    ASSUME IInv, LeaveVertex, Tail(stk) = <<>>
    PROVE  ToSet(<<Head(stk)>> \o order) = vexs
<1> DEFINE v == Head(stk)
           listed == <<v>> \o order
<1>1. SearchInv /\ GraphInv /\ stk # <<>> /\ Succs(v) \subseteq Visited
  BY DEF LeaveVertex, IInv
<1>2. ToSet(stk) = {v} /\ v \in vexs
  BY <1>1, PopToSet DEF SearchInv
<1>3. ToSet(listed) = {v} \cup ToSet(order)
  BY <1>1, <1>2, PushToSet DEF SearchInv
<1> HIDE DEF v, listed
<1>4. Visited = ToSet(listed)
  BY <1>2, <1>3 DEF Visited
<1>5. ToSet(listed) \subseteq vexs
  <2>1. ToSet(order) \subseteq vexs
    BY <1>1 DEF SearchInv, ToSet
  <2> QED
    BY <2>1, <1>2, <1>3
<1>6. Closed(ToSet(listed), edges)
  <2> SUFFICES ASSUME NEW e \in edges, e[1] \in ToSet(listed)
               PROVE  e[2] \in ToSet(listed)
    BY DEF Closed
  <2>1. e[2] \in Succs(e[1])
    <3>1. e = <<e[1], e[2]>> /\ e[2] \in vexs
      BY <1>1 DEF GraphInv
    <3> QED
      BY <3>1 DEF Succs
  <2> QED
    BY <2>1, <1>1, <1>3, <1>4 DEF SearchInv
<1>7. ToSet(listed) = vexs
  BY <1>1, <1>4, <1>5, <1>6 DEF SearchInv, GraphInv, Connected
<1> QED
  BY <1>7 DEF listed, v

LEMMA UpAlike ==
    ASSUME NEW vs, NEW es, NEW f, Up(vs, es, f), NEW g,
           \A x, y \in vs : f[x] < f[y] => g[x] < g[y]
    PROVE  Up(vs, es, g)
BY DEF Up

\* Of the vertices that lead to v, one that the entry reaches before v comes
\* before it.
LEMMA EarlierPred ==
    ASSUME NEW vs, NEW es, Graph(vs, es), NEW f, Up(vs, es, f),
           NEW v \in vs, v # Entry
    PROVE  \E p \in vs : <<p, v>> \in es /\ f[p] < f[v]
<1> SUFFICES ASSUME \A p \in vs : <<p, v>> \in es => ~(f[p] < f[v])
             PROVE  FALSE
  OBVIOUS
<1> DEFINE S == {x \in vs \ {v} : \A T \in SUBSET vs : Before(vs, es, T, v) => x \in T}
<1>1. ASSUME NEW p \in S PROVE <<p, v>> \notin es
  <2> SUFFICES ASSUME <<p, v>> \in es PROVE FALSE
    OBVIOUS
  <2>1. p \in vs /\ p # v /\ Dom(vs, es, v, p)
    BY DEF Up
  <2>2. PICK T \in SUBSET vs : Before(vs, es, T, v) /\ p \notin T
    BY <2>1 DEF Dom
  <2> QED
    BY <2>2
<1>2. Entry \in S
  BY DEF Before, Graph
<1>3. Closed(S, es)
  <2> SUFFICES ASSUME NEW e \in es, e[1] \in S PROVE e[2] \in S
    BY DEF Closed
  <2>1. PICK p, q \in vs : e = <<p, q>>
    BY DEF Graph
  <2>2. <<p, q>> \in es /\ p \in S /\ q # v
    BY <2>1, <1>1
  <2>3. \A T \in SUBSET vs : Before(vs, es, T, v) => q \in T
    BY <2>1, <2>2 DEF Before
  <2> QED
    BY <2>1, <2>2, <2>3
<1>4. S \in SUBSET vs /\ v \notin S
  OBVIOUS
<1> HIDE DEF S
<1> QED
  BY <1>2, <1>3, <1>4 DEF Graph, Connected

\* A list with ascending numbers has every vertex at one position.
LEMMA AscendingLists ==
    ASSUME NEW vs, NEW s \in Seq(vs), ToSet(s) = vs,
           NEW f, \A v \in vs : f[v] \in Int,
           \A i, j \in 1 .. Len(s) : i < j => f[s[i]] < f[s[j]]
    PROVE  \E pos : /\ Lists(s, vs, pos)
                    /\ \A x, y \in vs : f[x] < f[y] => pos[x] < pos[y]
<1>1. PICK pos : pos = [v \in vs |-> CHOOSE i \in 1 .. Len(s) : s[i] = v]
  OBVIOUS
<1>2. /\ Len(s) \in Nat
      /\ \A v \in vs : \E i \in 1 .. Len(s) : s[i] = v
      /\ \A i \in 1 .. Len(s) : s[i] \in vs
  BY DEF ToSet
<1>3. \A v \in vs : pos[v] \in 1 .. Len(s) /\ s[pos[v]] = v
  BY <1>1, <1>2
<1>4. pos \in [vs -> 1 .. Len(s)]
  BY <1>1, <1>3
<1>5. ASSUME NEW i \in 1 .. Len(s) PROVE pos[s[i]] = i
  <2>1. PICK j \in 1 .. Len(s) : j = pos[s[i]] /\ s[j] = s[i]
    BY <1>2, <1>3
  <2>2. f[s[i]] \in Int
    BY <1>2
  <2>3. CASE i < j
    <3>1. f[s[i]] < f[s[j]]
      BY <2>3
    <3> QED
      BY <3>1, <2>1, <2>2
  <2>4. CASE j < i
    <3>1. f[s[j]] < f[s[i]]
      BY <2>4
    <3> QED
      BY <3>1, <2>1, <2>2
  <2> QED
    BY <2>1, <2>3, <2>4
<1>6. ASSUME NEW x \in vs, NEW y \in vs, f[x] < f[y] PROVE pos[x] < pos[y]
  <2>1. PICK i \in 1 .. Len(s), j \in 1 .. Len(s) :
            i = pos[x] /\ j = pos[y] /\ s[i] = x /\ s[j] = y
    BY <1>3
  <2>2. CASE i = j
    BY <2>1, <2>2, <1>6
  <2>3. CASE j < i
    <3>1. f[y] < f[x]
      BY <2>1, <2>3
    <3> QED
      BY <3>1, <1>6
  <2> QED
    BY <2>1, <2>2, <2>3
<1> QED
  BY <1>4, <1>3, <1>5, <1>6 DEF Lists

LEMMA LeaveVertexOrder == IInv /\ OrderInv /\ LeaveVertex => OrderInv'
<1> SUFFICES ASSUME IInv, OrderInv, LeaveVertex PROVE OrderInv'
  OBVIOUS
<1> DEFINE v == Head(stk)
           N == Cardinality(vexs)
           number == (N - Len(order) - 1) * RPO_INTERVAL
           listed == <<v>> \o order
           done == Tail(stk) = <<>>
<1>1. /\ stk # <<>> /\ Succs(v) \subseteq Visited
      /\ stk' = Tail(stk)
      /\ order' = IF done THEN <<>> ELSE listed
      /\ rpo' = [rpo EXCEPT ![v] = number]
      /\ valid' = (valid \/ done)
      /\ vlst' = IF done /\ ~verifying THEN listed ELSE vlst
      /\ UNCHANGED <<vexs, edges, redirected>>
  BY DEF LeaveVertex
<1>2. SearchInv /\ SearchPath /\ DOMAIN rpo = Vertices /\ GraphInv
  BY <1>1 DEF IInv, OrderInv, PathInv
<1>3. /\ v \in vexs /\ v \in Vertices /\ Tail(stk) \in Seq(vexs)
      /\ ToSet(stk) = {v} \cup ToSet(Tail(stk))
      /\ order \in Seq(vexs) /\ Head(stk) = stk[1]
  BY <1>1, <1>2, PopToSet DEF SearchInv, GraphInv
<1>4. /\ listed \in Seq(vexs) /\ Len(listed) = Len(order) + 1 /\ Len(order) \in Nat
      /\ ToSet(listed) = {v} \cup ToSet(order)
      /\ listed[1] = v /\ \A i \in 1 .. Len(order) : listed[i + 1] = order[i]
  <2>1. listed \in Seq(vexs)
    BY <1>3
  <2> QED
    BY <2>1, <1>3, PushToSet, PushIs
<1>5. /\ v \notin ToSet(order) /\ v \notin ToSet(Tail(stk))
      /\ ToSet(Tail(stk)) \cap ToSet(listed) = {}
      /\ ~done => StackPath(edges, Tail(stk))
  BY <1>1, <1>2, <1>3, <1>4, PopPath DEF SearchPath, SearchInv
<1>6. Len(listed) = Cardinality(ToSet(listed))
  <2>1. ToSet(order) \subseteq vexs /\ IsFiniteSet(ToSet(order))
    <3>1. ToSet(order) \subseteq vexs
      BY <1>3 DEF ToSet
    <3> QED
      BY <3>1, <1>2, FS_Subset DEF GraphInv
  <2>2. Cardinality(ToSet(order) \cup {v}) = Cardinality(ToSet(order)) + 1
    BY <2>1, <1>5, FS_AddElement
  <2>3. ToSet(order) \cup {v} = ToSet(listed)
    BY <1>4
  <2> QED
    BY <2>2, <2>3, <1>2, <1>4 DEF SearchPath
<1>7. NextNumber = number /\ number \in Int
  <2>1. N \in Nat
    BY <1>2, FS_Subset, FS_CardinalityType DEF GraphInv
  <2> QED
    BY <2>1, <1>4 DEF NextNumber
<1> HIDE DEF number, listed, N
<1>8. /\ rpo'[v] = number
      /\ \A u \in ToSet(order) : rpo'[u] = rpo[u] /\ rpo[u] \in Int /\ rpo[u] > number
  <2>1. \A u : u # v => rpo'[u] = rpo[u]
    BY <1>1, <1>2
  <2> QED
    BY <1>1, <1>2, <1>3, <1>5, <1>7, <2>1 DEF SearchInv
<1>9. \A u \in ToSet(listed) : rpo'[u] \in Int /\ rpo'[u] >= number
  BY <1>4, <1>7, <1>8
<1>10. \A i, j \in 1 .. Len(listed) : i < j => rpo'[listed[i]] < rpo'[listed[j]]
  <2> SUFFICES ASSUME NEW i \in 1 .. Len(listed), NEW j \in 1 .. Len(listed), i < j
               PROVE  rpo'[listed[i]] < rpo'[listed[j]]
    OBVIOUS
  <2>1. \A k \in 1 .. Len(order) : order[k] \in ToSet(order)
    BY <1>3 DEF ToSet
  <2>2. PICK l \in 1 .. Len(order) : j = l + 1 /\ listed[j] = order[l]
    <3>1. j - 1 \in 1 .. Len(order) /\ j = (j - 1) + 1
      BY <1>4
    <3> QED
      BY <3>1, <1>4
  <2>3. CASE i = 1
    BY <2>1, <2>2, <2>3, <1>4, <1>8
  <2>4. CASE i # 1
    <3>1. PICK k \in 1 .. Len(order) : i = k + 1 /\ listed[i] = order[k] /\ k < l
      <4>1. i - 1 \in 1 .. Len(order) /\ i = (i - 1) + 1 /\ i - 1 < l
        BY <1>4, <2>2, <2>4
      <4> QED
        BY <4>1, <1>4
    <3>2. rpo[order[k]] < rpo[order[l]]
      BY <3>1, <1>2 DEF SearchPath
    <3> QED
      BY <3>1, <3>2, <2>1, <2>2, <1>8
  <2> QED
    BY <2>3, <2>4
<1>11. PathInv'
  <2> SUFFICES ASSUME ~done PROVE SearchPath'
    BY <1>1 DEF PathInv
  <2>1. stk' = Tail(stk) /\ order' = listed /\ edges' = edges
    BY <1>1
  <2> QED
    BY <2>1, <1>5, <1>6, <1>10 DEF SearchPath
<1>12. ASSUME done PROVE ToSet(listed) = vexs /\ number = 0
  <2>1. ToSet(listed) = vexs
    BY <1>12, SearchEnds DEF listed
  <2>2. N - Len(order) - 1 = 0
    BY <2>1, <1>4, <1>6 DEF N
  <2>3. 0 * RPO_INTERVAL = 0
    OBVIOUS
  <2> QED
    BY <2>1, <2>2, <2>3 DEF number
\* From v an edge leads to a finished vertex or to one of the stack.
<1>13. ASSUME ~redirected
       PROVE  \A u \in ToSet(listed), w \in vexs : <<u, w>> \in edges =>
                 \/ Dom(vexs, edges, w, u)
                 \/ w \in ToSet(listed) /\ rpo'[u] < rpo'[w]
  <2> SUFFICES ASSUME NEW u \in ToSet(listed), NEW w \in vexs, <<u, w>> \in edges
               PROVE  \/ Dom(vexs, edges, w, u)
                      \/ w \in ToSet(listed) /\ rpo'[u] < rpo'[w]
    OBVIOUS
  <2>1. CASE u = v /\ w \in ToSet(stk)
    <3>1. PICK f \in [vexs -> Int] : Up(vexs, edges, f)
      BY <1>13 DEF OrderInv, DownInv, Reducible
    <3>2. PICK k \in 1 .. Len(stk) : w = stk[k]
      BY <2>1, <1>2 DEF ToSet, SearchInv
    <3>3. Graph(vexs, edges)
      BY <1>2 DEF Graph, GraphInv
    <3>4. stk \in Seq(vexs) /\ StackPath(edges, stk) /\ <<stk[1], stk[k]>> \in edges
      BY <2>1, <1>2, <1>3, <3>2 DEF SearchInv, SearchPath
    <3>5. Dom(vexs, edges, stk[k], stk[1])
      BY <3>1, <3>3, <3>4, StackDominates
    <3> QED
      BY <2>1, <3>2, <3>5, <1>3
  <2>2. CASE u = v /\ w \in ToSet(order)
    BY <2>2, <1>4, <1>7, <1>8
  <2>3. u = v => w \in ToSet(stk) \/ w \in ToSet(order)
    BY <1>1 DEF Succs, Visited
  <2> HIDE DEF v
  <2>4. CASE u \in ToSet(order)
    <3>1. \/ Dom(vexs, edges, w, u)
          \/ w \in ToSet(order) /\ rpo[u] < rpo[w]
      BY <2>4, <1>1, <1>13 DEF OrderInv, DownInv
    <3> QED
      BY <3>1, <2>4, <1>4, <1>8
  <2> QED
    BY <2>1, <2>2, <2>3, <2>4, <1>4
<1> HIDE DEF v
<1>14. ASSUME ~redirected, done PROVE Up(vexs, edges, rpo')
  BY <1>12, <1>13, <1>14 DEF Up
<1>15. DownInv'
  <2> SUFFICES ASSUME ~redirected PROVE DownInv'
    BY <1>1 DEF DownInv
  <2>1. (Reducible(vexs, edges))'
    BY <1>1 DEF OrderInv, DownInv
  <2>2. CASE ~done
    <3>1. stk' # <<>> /\ order' = listed /\ vexs' = vexs /\ edges' = edges
      BY <1>1, <2>2
    <3> QED
      BY <2>1, <3>1, <1>13 DEF DownInv
  <2>3. CASE done
    <3>1. stk' = <<>> /\ vexs' = vexs /\ edges' = edges
      BY <1>1, <2>3
    <3>2. NumbersInGap'
      <4>1. \A u \in vexs' : rpo'[u] \in Int /\ rpo'[u] >= 0
        BY <3>1, <2>3, <1>9, <1>12
      <4> QED
        BY <4>1 DEF NumbersInGap
    <3> QED
      BY <2>1, <2>3, <3>1, <3>2, <1>14 DEF DownInv
  <2> QED
    BY <2>2, <2>3
<1>16. ListInv'
  <2>1. vexs' = vexs /\ edges' = edges /\ redirected' = redirected
    BY <1>1
  <2>2. CASE done /\ ~verifying
    <3>1. PICK pos : /\ Lists(listed, vexs, pos)
                     /\ \A x, y \in vexs : rpo'[x] < rpo'[y] => pos[x] < pos[y]
      <4>1. PICK f : f = rpo'
        OBVIOUS
      <4>2. ToSet(listed) = vexs /\ \A u \in vexs : f[u] \in Int
        BY <4>1, <2>2, <1>9, <1>12
      <4>3. \A i, j \in 1 .. Len(listed) : i < j => f[listed[i]] < f[listed[j]]
        BY <4>1, <1>10
      <4>4. \E pos : /\ Lists(listed, vexs, pos)
                     /\ \A x, y \in vexs : f[x] < f[y] => pos[x] < pos[y]
        <5>1. listed \in Seq(vexs) /\ ToSet(listed) = vexs
          BY <4>2, <1>4
        <5>2. \A u \in vexs : f[u] \in Int
          BY <4>2
        <5> QED
          BY ONLY <5>1, <5>2, <4>3, AscendingLists
      <4> QED
        BY <4>1, <4>4
    <3>2. redirected \/ Up(vexs, edges, pos)
      BY <3>1, <2>2, <1>14 DEF Up
    <3>3. vlst' = listed
      BY <1>1, <2>2
    <3> QED
      BY <2>1, <3>1, <3>2, <3>3 DEF ListInv, Listed
  <2>3. CASE ~(done /\ ~verifying)
    <3>1. vlst' = vlst /\ (valid' => valid)
      BY <1>1, <1>2, <2>3 DEF SearchInv
    <3> QED
      BY <2>1, <3>1 DEF OrderInv, ListInv, Listed
  <2> QED
    BY <2>2, <2>3
<1> QED
  BY <1>11, <1>15, <1>16 DEF OrderInv

-----------------------------------------------------------------------------
(* Edits keep the order *)

\* An order of the vertices and one that has a new vertex next to a marker.
NextTo(f, f2, new, m, prior) ==
    /\ \A x, y \in vexs : f[x] < f[y] => f2[x] < f2[y]
    /\ IF prior
       THEN f2[new] < f2[m] /\ \A x \in vexs : f[x] < f[m] => f2[x] < f2[new]
       ELSE f2[m] < f2[new] /\ \A x \in vexs : f[m] < f[x] => f2[new] < f2[x]

\* Edges that go up wherever the new vertex is next to the marker.
UpNext(new, m, prior, es) ==
    \A f, f2 : Up(vexs, edges, f) /\ NextTo(f, f2, new, m, prior) =>
                  Up(vexs \cup {new}, es, f2)

LEMMA InsertReducible ==
    ASSUME Reducible(vexs, edges), NEW new, new \notin vexs, NEW m \in vexs,
           NEW prior \in BOOLEAN, NEW es, UpNext(new, m, prior, es)
    PROVE  Reducible(vexs \cup {new}, es)
<1>1. PICK f \in [vexs -> Int] : Up(vexs, edges, f)
  BY DEF Reducible
<1>2. PICK k : k = IF prior THEN 2 * f[m] - 1 ELSE 2 * f[m] + 1
  OBVIOUS
<1>3. PICK f2 : f2 = [x \in vexs \cup {new} |-> IF x = new THEN k ELSE 2 * f[x]]
  OBVIOUS
<1>4. f2[new] = k /\ k \in Int /\ \A x \in vexs : f2[x] = 2 * f[x] /\ f[x] \in Int
  BY <1>2, <1>3
<1>5. f2 \in [vexs \cup {new} -> Int]
  BY <1>3, <1>4
<1>6. NextTo(f, f2, new, m, prior)
  BY <1>2, <1>4 DEF NextTo
<1>7. Up(vexs \cup {new}, es, f2)
  BY <1>1, <1>6 DEF UpNext
<1> QED
  BY <1>5, <1>7 DEF Reducible

LEMMA PlaceList ==
    ASSUME Listed(vlst, vexs, edges), NEW new, new \notin vexs, NEW m \in vexs,
           NEW prior \in BOOLEAN, NEW n, Place(new, m, prior, n),
           NEW es, redirected \/ UpNext(new, m, prior, es)
    PROVE  Listed(vlst', vexs \cup {new}, es)
<1>1. PICK pos : Lists(vlst, vexs, pos) /\ (redirected \/ Up(vexs, edges, pos))
  BY DEF Listed
<1>2. PICK k : k = Position(m) + (IF prior THEN 0 ELSE 1)
  OBVIOUS
<1>3. /\ Len(vlst) \in Nat
      /\ \A v \in vexs : pos[v] \in 1 .. Len(vlst) /\ vlst[pos[v]] = v
      /\ \A i \in 1 .. Len(vlst) : pos[vlst[i]] = i
  BY <1>1 DEF Lists
<1>4. Position(m) = pos[m]
  <2>1. \A i \in 1 .. Len(vlst) : vlst[i] = m <=> i = pos[m]
    BY <1>3
  <2> QED
    BY <1>3, <2>1 DEF Position
<1>5. k \in 1 .. (Len(vlst) + 1) /\ k = pos[m] + (IF prior THEN 0 ELSE 1)
  BY <1>2, <1>3, <1>4
<1>6. vlst' = InsertAt(vlst, k, new)
  BY <1>2 DEF Place
<1>7. PICK pos2 : pos2 = [v \in vexs \cup {new} |->
                            IF v = new THEN k
                            ELSE IF pos[v] < k THEN pos[v] ELSE pos[v] + 1]
  OBVIOUS
<1>8. Lists(vlst', vexs \cup {new}, pos2)
  BY <1>1, <1>5, <1>6, <1>7, InsertLists
<1>9. /\ pos2[new] = k
      /\ \A v \in vexs : /\ pos2[v] = IF pos[v] < k THEN pos[v] ELSE pos[v] + 1
                         /\ pos[v] \in Int
  BY <1>3, <1>7
<1>10. NextTo(pos, pos2, new, m, prior)
  BY <1>5, <1>9 DEF NextTo
<1>11. redirected \/ Up(vexs \cup {new}, es, pos2)
  BY <1>1, <1>10 DEF UpNext
<1> QED
  BY <1>8, <1>11 DEF Listed

\* What the marker and the new vertex get.
NumbersWith(new, m, n) ==
    [rpo EXCEPT ![new] = IF n.swap THEN rpo[m] ELSE n.found,
                ![m]   = IF n.swap THEN n.found ELSE rpo[m]]

UpWith(new, m, n, es) ==
    valid /\ n.found # RPO_UNDEF /\ NumbersInv /\ NumbersInGap /\ Up(vexs, edges, rpo)
    => /\ n.found \in Int /\ n.found > -RPO_INTERVAL
       /\ Up(vexs \cup {new}, es, NumbersWith(new, m, n))

LEMMA InsertOrder ==
    ASSUME IInv, OrderInv, NEW new \in Vertices \ vexs, NEW m \in vexs,
           NEW prior \in BOOLEAN, NEW n, NEW es, Insert(new, m, prior, n, es),
           redirected \/ (UpNext(new, m, prior, es) /\ UpWith(new, m, n, es))
    PROVE  OrderInv'
<1>1. stk = <<>> /\ stk' = stk /\ redirected' = redirected /\ new \notin vexs
  BY DEF Insert, Idle, search
<1>2. /\ valid => NumbersInv /\ Listed(vlst, vexs, edges)
      /\ \/ redirected
         \/ /\ Reducible(vexs, edges)
            /\ valid => NumbersInGap /\ Up(vexs, edges, rpo)
  BY <1>1 DEF IInv, OrderInv, DownInv, ListInv
<1>3. PathInv'
  BY <1>1 DEF PathInv
<1>4. CASE debug /\ valid /\ ~n.ok
  <2>1. UNCHANGED <<vexs, edges, rpo, used, vlst, valid>>
    BY <1>4 DEF Insert
  <2>2. DownInv'
    <3> SUFFICES ASSUME ~redirected PROVE DownInv'
      BY <1>1 DEF DownInv
    <3>1. NumbersInGap /\ Up(vexs, edges, rpo)
      BY <1>2, <1>4
    <3>2. NumbersInGap'
      BY <3>1, <2>1 DEF NumbersInGap
    <3>3. (Reducible(vexs, edges))' /\ (Up(vexs, edges, rpo))'
      BY <2>1, <1>2, <3>1
    <3> QED
      BY <3>2, <3>3, <1>1 DEF DownInv
  <2>3. ListInv'
    BY <2>1, <1>1, <1>2 DEF ListInv, Listed
  <2> QED
    BY <2>2, <2>3, <1>3 DEF OrderInv
<1>5. CASE ~(debug /\ valid /\ ~n.ok)
  <2>1. /\ vexs' = vexs \cup {new} /\ edges' = es
        /\ IF valid /\ n.found # RPO_UNDEF
           THEN Place(new, m, prior, n) ELSE Forget
    BY <1>5 DEF Insert
  <2>2. redirected \/ (Reducible(vexs, edges))'
    <3>1. redirected \/ Reducible(vexs \cup {new}, es)
      BY <1>1, <1>2, InsertReducible
    <3> QED
      BY <3>1, <2>1
  <2>3. CASE valid /\ n.found # RPO_UNDEF
    <3>1. /\ rpo' = NumbersWith(new, m, n) /\ valid' = valid
          /\ Place(new, m, prior, n)
      BY <2>1, <2>3 DEF Place, NumbersWith
    <3>2. ListInv'
      <4>1. Listed(vlst', vexs \cup {new}, es)
        BY <1>1, <1>2, <2>3, <3>1, PlaceList
      <4> QED
        BY <4>1, <2>1, <1>1 DEF ListInv, Listed
    <3>3. DownInv'
      <4> SUFFICES ASSUME ~redirected PROVE DownInv'
        BY <1>1 DEF DownInv
      <4>1. /\ n.found \in Int /\ n.found > -RPO_INTERVAL
            /\ Up(vexs \cup {new}, es, NumbersWith(new, m, n))
            /\ NumbersInGap
        BY <2>3, <1>2 DEF UpWith
      <4>2. (Up(vexs, edges, rpo))'
        BY <3>1, <4>1, <2>1
      <4>3. NumbersInGap'
        <5>1. DOMAIN rpo = Vertices /\ m \in Vertices /\ m # new /\ vexs \subseteq Vertices
          BY DEF IInv, GraphInv
        <5>2. PICK i, j : /\ i = (IF n.swap THEN rpo[m] ELSE n.found)
                          /\ j = (IF n.swap THEN n.found ELSE rpo[m])
          OBVIOUS
        <5>3. rpo' = [rpo EXCEPT ![new] = i, ![m] = j]
          BY <3>1, <5>2 DEF NumbersWith
        <5>4. /\ rpo'[new] = i /\ rpo'[m] = j
              /\ \A u \in vexs : u # m => rpo'[u] = rpo[u]
          BY <5>1, <5>3
        <5>5. {i, j} \subseteq {n.found, rpo[m]}
          BY <5>2
        <5> QED
          BY <5>4, <5>5, <4>1, <2>1 DEF NumbersInGap
      <4> QED
        BY <4>2, <4>3, <2>2, <1>1 DEF DownInv
    <3> QED
      BY <3>2, <3>3, <1>3 DEF OrderInv
  <2>4. CASE ~(valid /\ n.found # RPO_UNDEF)
    <3>1. ~valid'
      BY <2>1, <2>4 DEF Forget
    <3> QED
      BY <3>1, <2>2, <1>1, <1>3 DEF OrderInv, DownInv, ListInv
  <2> QED
    BY <2>3, <2>4
<1> QED
  BY <1>4, <1>5

LEMMA InFrontOrder ==
    ASSUME IInv, OrderInv, NEW new \in Vertices \ vexs, NEW v \in vexs,
           v # Entry, NEW ps \in SUBSET Preds(v),
           ps = Preds(v) \/ \A p \in ps : ~Dominates(v, p),
           Insert(new, v, TRUE, compRPOIfVexPriorMarker(v), InFrontOf(v, new, ps))
    PROVE  OrderInv'
<1> DEFINE es == InFrontOf(v, new, ps)
           n == compRPOIfVexPriorMarker(v)
<1>1. /\ GraphInv /\ Graph(vexs, edges) /\ DOMAIN rpo = Vertices
      /\ new \notin vexs
  BY DEF Insert, Idle, IInv, Graph, GraphInv
<1>2. \A p, q : <<p, q>> \in edges => p \in vexs /\ q \in vexs /\ p # new /\ q # new
  BY <1>1 DEF Graph
<1>3. /\ ps \in SUBSET {p \in vexs : <<p, v>> \in edges}
      /\ \/ ps = {p \in vexs : <<p, v>> \in edges}
         \/ \A p \in ps : ~Dom(vexs, edges, v, p)
      /\ es = (edges \ (ps \X {v})) \cup (ps \X {new}) \cup {<<new, v>>}
  BY <1>1, DominatesIs DEF Preds, InFrontOf
<1>4. UpNext(new, v, TRUE, es)
  <2> SUFFICES ASSUME NEW f, NEW f2, Up(vexs, edges, f), NextTo(f, f2, new, v, TRUE)
               PROVE  Up(vexs \cup {new}, es, f2)
    BY DEF UpNext
  <2> HIDE DEF es
  <2>1. Alike(edges, es, f, f2)
    BY <1>2 DEF Alike, NextTo
  <2>2. f2[new] < f2[v] /\ \A p \in ps : f[p] < f[v] => f2[p] < f2[new]
    <3>1. \A p \in ps : p \in vexs
      BY <1>3
    <3> QED
      BY <3>1 DEF NextTo
  <2> QED
    BY <1>1, <1>3, <2>1, <2>2, InFrontUp
<1>5. ASSUME valid, n.found # RPO_UNDEF, NumbersInv, NumbersInGap, Up(vexs, edges, rpo)
      PROVE  /\ n.found \in Int /\ n.found > -RPO_INTERVAL
             /\ Up(vexs \cup {new}, es, NumbersWith(new, v, n))
  <2>1. PICK k : k = n.found
    OBVIOUS
  <2>2. /\ k \in Int /\ k > -RPO_INTERVAL /\ k < rpo[v]
        /\ \A p \in Preds(v) \ {v} : rpo[p] < k
    BY <1>1, <1>5, <2>1, PriorBetween
  <2>3. ~n.swap
    BY DEF compRPOIfVexPriorMarker, SearchBetween, Outcome
  <2>4. PICK f2 : f2 = NumbersWith(new, v, n)
    OBVIOUS
  <2>5. f2[new] = k /\ \A x \in vexs : f2[x] = rpo[x] /\ rpo[x] \in Int
    BY <1>1, <1>5, <2>1, <2>3, <2>4 DEF NumbersWith, GraphInv, NumbersInGap
  <2> HIDE DEF es, n
  <2>6. Alike(edges, es, rpo, f2)
    BY <1>2, <2>5 DEF Alike
  <2>7. f2[new] < f2[v] /\ \A p \in ps : rpo[p] < rpo[v] => f2[p] < f2[new]
    <3>1. ASSUME NEW p \in ps, rpo[p] < rpo[v] PROVE f2[p] < f2[new]
      <4>1. p \in Preds(v) \ {v} /\ p \in vexs
        BY <3>1, <2>5, <1>3 DEF Preds
      <4> QED
        BY <4>1, <2>2, <2>5
    <3> QED
      BY <3>1, <2>2, <2>5
  <2>8. Up(vexs \cup {new}, es, f2)
    BY <1>1, <1>3, <1>5, <2>6, <2>7, InFrontUp
  <2> QED
    BY <2>1, <2>2, <2>4, <2>8
<1>6. Insert(new, v, TRUE, n, es)
  OBVIOUS
<1> HIDE DEF es, n
<1> QED
  BY <1>4, <1>5, <1>6, InsertOrder DEF UpWith

LEMMA insertBBBeforeOrder ==
    ASSUME IInv, OrderInv, NEW v \in vexs, insertBBBefore(v)
    PROVE  OrderInv'
<1>1. v # Entry
  BY DEF insertBBBefore
<1>2. PICK new \in FreshIds :
        Insert(new, v, TRUE, compRPOIfVexPriorMarker(v), InFrontOf(v, new, Preds(v)))
  BY DEF insertBBBefore
<1>3. new \in Vertices \ vexs
  BY DEF FreshIds
<1>4. Preds(v) \in SUBSET Preds(v)
  OBVIOUS
<1> QED
  BY <1>1, <1>2, <1>3, <1>4, InFrontOrder

LEMMA insertPreheaderOrder ==
    ASSUME IInv, OrderInv, NEW head \in vexs, insertPreheader(head)
    PROVE  OrderInv'
<1> DEFINE entering ==
        Preds(head) \ {p \in Preds(head) : Dominates(head, p)}
<1>1. head # Entry
  BY DEF insertPreheader
<1>2. PICK new \in FreshIds :
        Insert(new, head, TRUE, compRPOIfVexPriorMarker(head),
               InFrontOf(head, new, entering))
  BY DEF insertPreheader
<1>3. new \in Vertices \ vexs
  BY DEF FreshIds
<1>4. entering \in SUBSET Preds(head) /\ \A p \in entering : ~Dominates(head, p)
  OBVIOUS
<1> HIDE DEF entering
<1> QED
  BY <1>1, <1>2, <1>3, <1>4, InFrontOrder

LEMMA insertBBAfterOrder ==
    ASSUME IInv, OrderInv, NEW m \in vexs, NEW t \in vexs,
           insertBBAfter(m, t)
    PROVE  OrderInv'
<1>1. PICK new \in FreshIds :
        Insert(new, m, FALSE, compRPOIfMarkerPriorVex(m),
               (edges \ {<<m, t>>}) \cup {<<m, new>>, <<new, t>>})
  BY DEF insertBBAfter
<1> DEFINE es == (edges \ {<<m, t>>}) \cup {<<m, new>>, <<new, t>>}
           n == compRPOIfMarkerPriorVex(m)
<1>2. new \in Vertices \ vexs /\ t \in Succs(m)
  BY DEF FreshIds, insertBBAfter
<1>3. /\ GraphInv /\ Graph(vexs, edges) /\ DOMAIN rpo = Vertices
      /\ new \notin vexs /\ <<m, t>> \in edges
  BY <1>1, <1>2 DEF Insert, Idle, IInv, Graph, GraphInv, Succs
<1>4. \A p, q : <<p, q>> \in edges => p \in vexs /\ q \in vexs /\ p # new /\ q # new
  BY <1>3 DEF Graph
<1>5. UpNext(new, m, FALSE, es)
  <2> SUFFICES ASSUME NEW f, NEW f2, Up(vexs, edges, f), NextTo(f, f2, new, m, FALSE)
               PROVE  Up(vexs \cup {new}, es, f2)
    BY DEF UpNext
  <2>1. Alike(edges, es, f, f2)
    <3> HIDE DEF es
    <3> QED
      BY <1>4 DEF Alike, NextTo
  <2>2. f2[m] < f2[new] /\ (f[m] < f[t] => f2[new] < f2[t])
    BY DEF NextTo
  <2> QED
    BY <1>3, <2>1, <2>2, OnEdgeUp
<1>6. ASSUME valid, n.found # RPO_UNDEF, NumbersInv, NumbersInGap, Up(vexs, edges, rpo)
      PROVE  /\ n.found \in Int /\ n.found > -RPO_INTERVAL
             /\ Up(vexs \cup {new}, es, NumbersWith(new, m, n))
  <2>1. PICK k, swap : k = n.found /\ swap = n.swap
    OBVIOUS
  <2>2. /\ k \in Int /\ k > -RPO_INTERVAL
        /\ IF swap
           THEN /\ Cardinality(Succs(m)) = 1
                /\ k < rpo[m]
                /\ \A p \in Preds(m) \ {m} : rpo[p] < k
           ELSE /\ rpo[m] < k
                /\ \A s \in Succs(m) \ {m} : k < rpo[s]
    BY <1>3, <1>6, <2>1, AfterBetween
  <2>3. PICK f2 : f2 = NumbersWith(new, m, n)
    OBVIOUS
  <2>4. /\ f2[new] = IF swap THEN rpo[m] ELSE k
        /\ f2[m] = IF swap THEN k ELSE rpo[m]
        /\ \A x \in vexs : rpo[x] \in Int /\ (x # m => f2[x] = rpo[x])
    <3>1. m \in Vertices /\ m # new /\ vexs \subseteq Vertices
      BY <1>3 DEF GraphInv
    <3> HIDE DEF n, es
    <3> QED
      BY <1>2, <1>3, <1>6, <2>1, <2>3, <3>1 DEF NumbersWith, NumbersInGap
  <2>5. CASE swap
    <3>1. \A q : <<m, q>> \in edges => q = t
      <4>1. Succs(m) = {t}
        <5>1. IsFiniteSet(Succs(m))
          BY <1>3, FS_Subset DEF Succs, GraphInv
        <5>2. PICK x : Succs(m) = {x}
          BY <5>1, <2>2, <2>5, FS_Singleton
        <5> QED
          BY <5>2, <1>2
      <4> QED
        BY <4>1, <1>4 DEF Succs
    <3>2. Alike(edges, es, rpo, f2)
      <4> SUFFICES ASSUME NEW p, NEW q, <<p, q>> \in edges, <<p, q>> \in es, rpo[p] < rpo[q]
                   PROVE  f2[p] < f2[q]
        BY DEF Alike
      <4>1. p \in vexs /\ q \in vexs /\ p # new /\ q # new
        BY <1>4
      <4>2. p # m
        <5> SUFFICES ASSUME p = m PROVE FALSE
          OBVIOUS
        <5>1. q = t
          BY <3>1
        <5> QED
          BY <5>1, <4>1
      <4>3. p # q
        BY <4>1, <2>4
      <4>4. CASE q = m
        <5>1. p \in Preds(m) \ {m}
          BY <4>1, <4>2, <4>4 DEF Preds
        <5> QED
          BY <5>1, <4>1, <4>2, <4>4, <2>2, <2>4, <2>5
      <4>5. CASE q # m
        BY <4>1, <4>2, <4>5, <2>4
      <4> QED
        BY <4>4, <4>5
    <3>3. f2[m] < f2[new] /\ (rpo[m] < rpo[t] => f2[new] < f2[t])
      <4> HIDE DEF es, n
      <4> QED
        BY <2>2, <2>4, <2>5
    <3> HIDE DEF n
    <3>4. Up(vexs \cup {new}, es, f2)
      BY <1>3, <1>6, <3>2, <3>3, OnEdgeUp
    <3> QED
      BY <2>1, <2>2, <2>3, <3>4
  <2>6. CASE ~swap
    <3>1. \A x \in vexs : f2[x] = rpo[x]
      BY <2>4, <2>6
    <3>2. Alike(edges, es, rpo, f2)
      <4> HIDE DEF es, n
      <4> QED
        BY <1>4, <3>1 DEF Alike
    <3>3. f2[m] < f2[new] /\ (rpo[m] < rpo[t] => f2[new] < f2[t])
      <4>1. t # m => t \in Succs(m) \ {m}
        BY <1>2
      <4> HIDE DEF es, n
      <4> QED
        BY <4>1, <3>1, <2>2, <2>4, <2>6
    <3> HIDE DEF n
    <3>4. Up(vexs \cup {new}, es, f2)
      BY <1>3, <1>6, <3>2, <3>3, OnEdgeUp
    <3> QED
      BY <2>1, <2>2, <2>3, <3>4
  <2> QED
    BY <2>5, <2>6
<1>7. Insert(new, m, FALSE, n, es)
  BY <1>1
<1> HIDE DEF es, n
<1> QED
  BY <1>2, <1>5, <1>6, <1>7, InsertOrder DEF UpWith

\* Edges that go up in any order of what stays.
UpWithout(gone, es) ==
    \A f, f2 : /\ f \in [vexs -> Int] /\ Up(vexs, edges, f)
               /\ \A x \in vexs \ gone : f2[x] = f[x]
               => Up(vexs \ gone, es, f2)

\* What stays keeps its order.
LEMMA RemoveOrder ==
    ASSUME IInv, OrderInv, NEW gone \in SUBSET vexs, NEW es,
           RemoveVertices(gone), edges' = es,
           stk = <<>>, UNCHANGED <<stk, valid>>,
           redirected' \/ (~redirected /\ UpWithout(gone, es))
    PROVE  OrderInv'
<1>1. /\ vexs' = vexs \ gone /\ vlst' = Without(vlst, gone)
      /\ rpo' = [v \in Vertices |-> IF v \in gone THEN RPO_UNDEF ELSE rpo[v]]
  BY DEF RemoveVertices
<1>2. \A x \in vexs \ gone : rpo'[x] = rpo[x]
  BY <1>1 DEF IInv, GraphInv
<1>3. PathInv'
  BY DEF PathInv
<1>4. DownInv'
  <2> SUFFICES ASSUME ~redirected, UpWithout(gone, es) PROVE DownInv'
    BY DEF DownInv
  <2>1. /\ Reducible(vexs, edges)
        /\ valid => NumbersInGap /\ Up(vexs, edges, rpo)
    BY DEF OrderInv, DownInv
  <2>2. Reducible(vexs \ gone, es)
    <3>1. PICK f \in [vexs -> Int] : Up(vexs, edges, f)
      BY <2>1 DEF Reducible
    <3>2. PICK f2 : f2 = [x \in vexs \ gone |-> f[x]]
      OBVIOUS
    <3>3. f2 \in [vexs \ gone -> Int] /\ \A x \in vexs \ gone : f2[x] = f[x]
      BY <3>1, <3>2
    <3>4. Up(vexs \ gone, es, f2)
      BY <3>1, <3>3 DEF UpWithout
    <3> QED
      BY <3>3, <3>4 DEF Reducible
  <2>3. ASSUME valid PROVE NumbersInGap' /\ Up(vexs \ gone, es, rpo')
    <3>1. PICK f : f = [x \in vexs |-> rpo[x]]
      OBVIOUS
    <3>2. f \in [vexs -> Int] /\ \A x \in vexs : f[x] = rpo[x]
      BY <3>1, <2>1, <2>3 DEF NumbersInGap
    <3>3. Up(vexs, edges, f)
      BY <3>2, <2>1, <2>3 DEF Up
    <3>4. \A x \in vexs \ gone : rpo'[x] = f[x]
      BY <3>2, <1>2
    <3>5. PICK g : g = rpo'
      OBVIOUS
    <3>6. Up(vexs \ gone, es, g)
      BY <3>2, <3>3, <3>4, <3>5 DEF UpWithout
    <3>7. NumbersInGap'
      BY <1>1, <1>2, <2>1, <2>3 DEF NumbersInGap
    <3> QED
      BY <3>5, <3>6, <3>7
  <2> QED
    BY <1>1, <2>2, <2>3 DEF DownInv
<1>5. ListInv'
  <2> SUFFICES ASSUME valid PROVE Listed(vlst, vexs, edges)'
    BY DEF ListInv
  <2>1. PICK pos : Lists(vlst, vexs, pos) /\ (redirected \/ Up(vexs, edges, pos))
    BY DEF OrderInv, ListInv, Listed
  <2>2. PICK pos2 : /\ Lists(Without(vlst, gone), vexs \ gone, pos2)
                    /\ \A x, y \in vexs \ gone : pos[x] < pos[y] => pos2[x] < pos2[y]
    <3>1. Lists(vlst, vexs, pos)
      BY <2>1
    <3> QED
      BY ONLY <3>1, WithoutLists
  <2>3. ASSUME ~redirected, UpWithout(gone, es) PROVE Up(vexs \ gone, es, pos2)
    <3>1. pos \in [vexs -> Int]
      BY <2>1 DEF Lists
    <3>2. Up(vexs \ gone, es, pos)
      BY <2>1, <2>3, <3>1 DEF UpWithout
    <3> QED
      BY <2>2, <3>2 DEF Up
  <2> QED
    BY <1>1, <2>2, <2>3 DEF Listed
<1> QED
  BY <1>3, <1>4, <1>5 DEF OrderInv

LEMMA removeEmptyBBOrder ==
    ASSUME IInv, OrderInv, NEW v \in vexs, removeEmptyBB(v)
    PROVE  OrderInv'
<1>1. PICK s \in Succs(v) \ {v} :
        /\ Succs(v) = {s}
        /\ edges' = {e \in edges : v \notin {e[1], e[2]}} \cup (Preds(v) \X {s})
  BY DEF removeEmptyBB
<1>2. /\ v # Entry /\ stk = <<>> /\ UNCHANGED <<stk, valid, redirected>>
      /\ RemoveVertices({v})
  BY DEF removeEmptyBB, Idle, search
<1> DEFINE es == {e \in edges : v \notin {e[1], e[2]}} \cup (Preds(v) \X {s})
<1>3. /\ Graph(vexs, edges) /\ s \in vexs /\ s # v
      /\ \A q \in vexs : <<v, q>> \in edges <=> q = s
  <2>1. Graph(vexs, edges)
    BY <1>2 DEF IInv, GraphInv, Graph
  <2> QED
    BY <2>1, <1>1 DEF Succs
<1>4. es = {e \in edges : v \notin {e[1], e[2]}}
              \cup ({p \in vexs : <<p, v>> \in edges} \X {s})
  BY DEF Preds
<1> HIDE DEF es
<1>5. ASSUME NEW f \in [vexs -> Int], NEW f2, Up(vexs, edges, f),
             \A x \in vexs \ {v} : f2[x] = f[x]
      PROVE  Up(vexs \ {v}, es, f2)
  BY <1>2, <1>3, <1>4, <1>5, BypassUp
<1>6. edges' = es
  BY <1>1 DEF es
<1>7. {v} \in SUBSET vexs
  OBVIOUS
<1> QED
  BY <1>2, <1>5, <1>6, <1>7, RemoveOrder DEF UpWithout

LEMMA removeRedundantBranchOrder ==
    ASSUME IInv, OrderInv, NEW u \in vexs, NEW w \in vexs,
           removeRedundantBranch(u, w)
    PROVE  OrderInv'
<1> DEFINE es   == edges \ {<<u, w>>}
           keep == Reach(vexs, es)
           es2  == {e \in es : e[1] \in keep}
<1>1. /\ stk = <<>> /\ UNCHANGED <<stk, valid, redirected>>
      /\ RemoveVertices(vexs \ keep) /\ edges' = es2
  BY DEF removeRedundantBranch, Idle, search
<1>2. es \in SUBSET edges /\ es2 \in SUBSET edges /\ GraphInv
  BY <1>1 DEF IInv
<1>3. /\ keep \subseteq vexs /\ Entry \in keep
      /\ es2 \subseteq keep \X (keep \ {Entry}) /\ Connected(keep, es2)
  <2> HIDE DEF es, keep
  <2>1. keep = Reach(vexs, es)
    BY DEF keep
  <2> QED
    BY <2>1, <1>2, ReachConnected
<1> HIDE DEF es, keep, es2
<1>4. Graph(vexs, edges) /\ Graph(keep, es2) /\ vexs \ (vexs \ keep) = keep
  BY <1>2, <1>3 DEF Graph, GraphInv
<1>5. ASSUME NEW f, NEW f2, Up(vexs, edges, f), \A x \in keep : f2[x] = f[x]
      PROVE  Up(keep, es2, f2)
  BY <1>2, <1>3, <1>4, <1>5, FewerUp
<1>6. PICK gone \in SUBSET vexs : gone = vexs \ keep
  OBVIOUS
<1>7. vexs \ gone = keep /\ RemoveVertices(gone)
  BY <1>1, <1>4, <1>6
<1> QED
  BY <1>1, <1>5, <1>7, RemoveOrder DEF UpWithout

\* The trampoline leaves, or nothing but its edge changes.
LEMMA removeTrampolinEdgeOrder ==
    ASSUME IInv, OrderInv, NEW p \in vexs, NEW b \in vexs, removeTrampolinEdge(p, b)
    PROVE  OrderInv'
<1>1. stk = <<>> /\ stk' = <<>> /\ redirected'
  BY DEF removeTrampolinEdge, Idle, search
<1>2. PathInv' /\ DownInv'
  BY <1>1 DEF PathInv, DownInv
<1>3. PICK es : es = edges'
  OBVIOUS
<1>4. CASE Preds(b) = {p} /\ Succs(p) # {b}
  <2>1. RemoveVertices({b}) /\ UNCHANGED valid /\ {b} \in SUBSET vexs
    BY <1>4 DEF removeTrampolinEdge
  <2> QED
    BY <2>1, <1>1, <1>3, RemoveOrder
<1>5. CASE Preds(b) = {p} /\ Succs(p) = {b}
  <2>1. ~valid'
    BY <1>5 DEF removeTrampolinEdge, Forget
  <2> QED
    BY <2>1, <1>2 DEF OrderInv, ListInv
<1>6. CASE Preds(b) # {p}
  <2>1. UNCHANGED <<vexs, vlst, valid>>
    BY <1>6 DEF removeTrampolinEdge
  <2>2. ListInv'
    BY <2>1, <1>1 DEF OrderInv, ListInv, Listed
  <2> QED
    BY <2>2, <1>2 DEF OrderInv
<1> QED
  BY <1>4, <1>5, <1>6

LEMMA addJumpEdgeOrder ==
    ASSUME IInv, OrderInv, NEW u \in vexs, NEW v \in vexs, NEW w \in vexs,
           addJumpEdge(u, v, w)
    PROVE  OrderInv'
<1> DEFINE es == edges \cup {<<u, w>>}
<1>1. /\ stk = <<>> /\ edges' = es
      /\ UNCHANGED <<vexs, rpo, vlst, valid, stk, redirected>>
  BY DEF addJumpEdge, Idle, search
<1>2. /\ Graph(vexs, edges) /\ w # u
      /\ \A q \in vexs : <<u, q>> \in edges <=> q = v
      /\ \A q \in vexs : <<q, v>> \in edges <=> q = u
      /\ \A q \in vexs : <<v, q>> \in edges <=> q = w
  <2>1. Graph(vexs, edges)
    BY <1>1 DEF IInv, GraphInv, Graph
  <2>2. Succs(u) = {v} /\ Preds(v) = {u} /\ Succs(v) = {w} /\ w # u
    BY DEF addJumpEdge
  <2> QED
    BY <2>1, <2>2 DEF Succs, Preds
<1>3. ASSUME NEW f \in [vexs -> Int], Up(vexs, edges, f) PROVE Up(vexs, es, f)
  BY <1>2, <1>3, JumpUp
<1> HIDE DEF es
<1>4. PathInv'
  BY <1>1 DEF PathInv
<1>5. DownInv'
  <2> SUFFICES ASSUME ~redirected PROVE DownInv'
    BY <1>1 DEF DownInv
  <2>1. /\ Reducible(vexs, edges)
        /\ valid => NumbersInGap /\ Up(vexs, edges, rpo)
    BY <1>1 DEF OrderInv, DownInv
  <2>2. Reducible(vexs, es)
    BY <1>3, <2>1 DEF Reducible
  <2>3. ASSUME valid PROVE NumbersInGap' /\ Up(vexs, es, rpo)
    <3>1. PICK f : f = [x \in vexs |-> rpo[x]]
      OBVIOUS
    <3>2. f \in [vexs -> Int] /\ \A x \in vexs : f[x] = rpo[x]
      BY <3>1, <2>1, <2>3 DEF NumbersInGap
    <3>3. Up(vexs, edges, f)
      BY <3>2, <2>1, <2>3 DEF Up
    <3>4. Up(vexs, es, f)
      BY <3>2, <3>3, <1>3
    <3>5. Up(vexs, es, rpo)
      BY <3>2, <3>4 DEF Up
    <3>6. NumbersInGap'
      BY <1>1, <2>1, <2>3 DEF NumbersInGap
    <3> QED
      BY <3>5, <3>6
  <2> QED
    BY <1>1, <2>2, <2>3 DEF DownInv
<1>6. ListInv'
  <2> SUFFICES ASSUME valid PROVE Listed(vlst, vexs, edges)'
    BY <1>1 DEF ListInv
  <2>1. PICK pos : Lists(vlst, vexs, pos) /\ (redirected \/ Up(vexs, edges, pos))
    BY DEF OrderInv, ListInv, Listed
  <2>2. pos \in [vexs -> Int]
    BY <2>1 DEF Lists
  <2>3. redirected \/ Up(vexs, es, pos)
    BY <2>1, <2>2, <1>3
  <2> QED
    BY <2>1, <2>3, <1>1 DEF Listed
<1> QED
  BY <1>4, <1>5, <1>6 DEF OrderInv

LEMMA setInvalidRPOOrder == IInv /\ OrderInv /\ setInvalidRPO => OrderInv'
<1> SUFFICES ASSUME IInv, OrderInv, setInvalidRPO PROVE OrderInv'
  OBVIOUS
<1>1. /\ stk = <<>> /\ ~valid' /\ UNCHANGED <<vexs, edges, stk, redirected>>
  BY DEF setInvalidRPO, Forget, Idle, search
<1>2. redirected \/ (Reducible(vexs, edges))'
  BY <1>1 DEF OrderInv, DownInv
<1> QED
  BY <1>1, <1>2 DEF OrderInv, PathInv, DownInv, ListInv

-----------------------------------------------------------------------------
(* The theorems about the order *)

LEMMA NextOrder == IInv /\ OrderInv /\ [Next]_vars => OrderInv'
<1> SUFFICES ASSUME IInv, OrderInv, [Next]_vars PROVE OrderInv'
  OBVIOUS
<1>1. CASE computeRPO \/ verifyDom
  <2>1. /\ stk = <<>> /\ stk' = <<Entry>>
        /\ UNCHANGED <<vexs, edges, order, vlst, valid, redirected>>
    BY <1>1 DEF computeRPO, verifyDom, Idle
  <2> QED
    BY <2>1, StartOrder
<1>2. CASE VisitKid \/ LeaveVertex \/ setInvalidRPO
  BY <1>2, VisitKidOrder, LeaveVertexOrder, setInvalidRPOOrder
<1>3. CASE \E v \in vexs :
             insertBBBefore(v) \/ insertPreheader(v) \/ removeEmptyBB(v)
  BY <1>3, insertBBBeforeOrder, insertPreheaderOrder, removeEmptyBBOrder
<1>4. CASE \E v, w \in vexs : \/ insertBBAfter(v, w)
                              \/ removeRedundantBranch(v, w)
                              \/ removeTrampolinEdge(v, w)
  BY <1>4, insertBBAfterOrder, removeRedundantBranchOrder, removeTrampolinEdgeOrder
<1>5. CASE \E u, v, w \in vexs : addJumpEdge(u, v, w)
  BY <1>5, addJumpEdgeOrder
<1>6. CASE UNCHANGED vars
  <2>1. UNCHANGED <<vexs, edges, rpo, vlst, valid, stk, order, redirected>>
    BY <1>6 DEF vars, search
  <2>2. PathInv' <=> PathInv
    BY <2>1 DEF PathInv, SearchPath
  <2>3. DownInv' <=> DownInv
    <3>1. (Reducible(vexs, edges))' <=> Reducible(vexs, edges)
      BY <2>1
    <3>2. (Up(vexs, edges, rpo))' <=> Up(vexs, edges, rpo)
      BY <2>1
    <3>3. NumbersInGap' <=> NumbersInGap
      BY <2>1 DEF NumbersInGap
    <3> QED
      BY <2>1, <3>1, <3>2, <3>3 DEF DownInv
  <2>4. ListInv' <=> ListInv
    BY <2>1 DEF ListInv, Listed
  <2> QED
    BY <2>2, <2>3, <2>4 DEF OrderInv
<1> QED
  BY <1>1, <1>2, <1>3, <1>4, <1>5, <1>6 DEF Next

\* The CFGs to begin with are reducible.
ReducibleShapes == \A es \in Shapes : Reducible(VerticesOf(es), es)

LEMMA OrderIsInv ==
    ASSUME ReducibleShapes
    PROVE  Spec => [](IInv /\ OrderInv)
<1>1. Init => OrderInv
  BY DEF Init, ReducibleShapes, OrderInv, PathInv, DownInv, ListInv
<1>2. IInv /\ OrderInv /\ [Next]_vars => (IInv /\ OrderInv)'
  BY NextInv, NextOrder
<1> QED
  BY <1>1, <1>2, InitInv, PTL DEF Spec

\* When the CFGs to begin with are reducible, an edge that does not go up in a
\* valid numbering leads to a dominator, whatever was inserted and removed, until
\* a trampoline edge is redirected.
THEOREM DownEdgesAreBackEdges ==
    ASSUME ReducibleShapes
    PROVE  Spec => []DownEdgesCloseLoopsUnlessRedirected
<1>1. IInv /\ OrderInv => DownEdgesCloseLoopsUnlessRedirected
  <2> SUFFICES ASSUME IInv, OrderInv, ~redirected, Numbered, NEW e \in edges
               PROVE  rpo[e[1]] < rpo[e[2]] \/ Dominates(e[2], e[1])
    BY DEF DownEdgesCloseLoopsUnlessRedirected, DownEdgesCloseLoops
  <2>1. GraphInv /\ Up(vexs, edges, rpo)
    BY DEF IInv, OrderInv, DownInv, Numbered, Idle
  <2>2. e = <<e[1], e[2]>> /\ e[1] \in vexs /\ e[2] \in vexs
    BY <2>1 DEF GraphInv
  <2> QED
    BY <2>1, <2>2, DominatesIs DEF Up
<1> QED
  BY <1>1, OrderIsInv, PTL

\* The list of a valid numbering holds every block once, after one of its
\* predecessors: a walk along it gives every block a value.
THEOREM ListHoldsAll ==
    ASSUME ReducibleShapes
    PROVE  Spec => []ListLeadsTo
<1>1. IInv /\ OrderInv => ListLeadsTo
  <2> SUFFICES ASSUME IInv, OrderInv, Numbered PROVE ListLeadsTo
    BY DEF ListLeadsTo
  <2>1. /\ GraphInv /\ Graph(vexs, edges) /\ Listed(vlst, vexs, edges)
    BY DEF IInv, OrderInv, ListInv, Numbered, Idle, GraphInv, Graph
  <2>2. PICK pos : Lists(vlst, vexs, pos) /\ (redirected \/ Up(vexs, edges, pos))
    BY <2>1 DEF Listed
  <2>3. /\ vlst \in Seq(vexs) /\ Len(vlst) \in Nat
        /\ \A v \in vexs : pos[v] \in 1 .. Len(vlst) /\ vlst[pos[v]] = v
        /\ \A i \in 1 .. Len(vlst) : vlst[i] \in vexs /\ pos[vlst[i]] = i
    BY <2>2 DEF Lists
  <2>4. ToSet(vlst) = vexs
    BY <2>3 DEF ToSet
  <2>5. Len(vlst) = Cardinality(vexs)
    <3>1. PICK f : f = [i \in 1 .. Len(vlst) |-> vlst[i]]
      OBVIOUS
    <3>2. f \in Bijection(1 .. Len(vlst), vexs)
      BY <2>3, <3>1 DEF Bijection, Injection, Surjection, IsInjective
    <3>3. /\ IsFiniteSet(1 .. Len(vlst))
          /\ Cardinality(1 .. Len(vlst)) = Len(vlst)
      <4>1. PICK n \in Nat : n = Len(vlst)
        BY <2>3
      <4>2. /\ IsFiniteSet(1 .. n)
            /\ Cardinality(1 .. n) = IF 1 > n THEN 0 ELSE n - 1 + 1
        BY FS_Interval
      <4>3. Cardinality(1 .. n) = n
        BY ONLY <4>1, <4>2
      <4> QED
        BY <4>1, <4>2, <4>3
    <3>4. Cardinality(1 .. Len(vlst)) = Cardinality(vexs)
      BY <3>2, <3>3, FS_Bijection DEF ExistsBijection
    <3> QED
      BY <3>3, <3>4
  <2>6. ASSUME ~redirected, NEW i \in 1 .. Len(vlst), vlst[i] # Entry
        PROVE  \E j \in 1 .. (i - 1) : vlst[j] \in Preds(vlst[i])
    <3>1. PICK p \in vexs : <<p, vlst[i]>> \in edges /\ pos[p] < pos[vlst[i]]
      BY <2>1, <2>2, <2>3, <2>6, EarlierPred
    <3>2. pos[p] \in 1 .. (i - 1) /\ vlst[pos[p]] = p
      BY <2>3, <3>1
    <3> QED
      BY <3>1, <3>2 DEF Preds
  <2> QED
    BY <2>4, <2>5, <2>6 DEF ListLeadsTo
<1> QED
  BY <1>1, OrderIsInv, PTL
=============================================================================
