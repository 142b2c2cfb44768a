---------------------------- MODULE MemPoolProofs ----------------------------
(***************************************************************************)
(* A memory pool hands out no byte twice, loses no chunk while it moves    *)
(* them around, and grows only when it must: for all pool and request      *)
(* sizes and every number of chunks.                                       *)
(*                                                                         *)
(* While a search runs there are two lists: the pool's, and the one of the *)
(* chunks set aside. Back links are missing in the second, and also in the *)
(* first, behind chunks that are full, after the two have been joined.     *)
(***************************************************************************)
EXTENDS MemPool, SequenceTheorems, TLAPS

USE PoolAssumption

-----------------------------------------------------------------------------
(* The inductive invariant *)

\* Nothing leads out of S.
Closed(S, nx) == \A c \in S : nx[c] # Null => nx[c] \in S

\* The links lead from h to t, within A.
LeadTo(A, nx, h, t) == \A S \in SUBSET A : h \in S /\ Closed(S, nx) => t \in S

\* The links nx and pv of the chunks C make up two lists: the pool's, from
\* the handler, and A, from fh. A back link may be missing behind F, and A
\* belongs to F.
Lists(C, nx, pv, A, fh, F) ==
    /\ A \subseteq C \ {handler} /\ A \subseteq F
    /\ Closed(A, nx) /\ Closed(C \ A, nx)
    /\ fh # Null => fh \in A
    /\ \A c \in C : nx[c] # handler /\ (fh # Null => nx[c] # fh)
    /\ \A c, d \in C : nx[c] = nx[d] /\ nx[c] # Null => c = d
    /\ \A c \in C \ F : nx[c] # Null => pv[nx[c]] = c
    /\ \A S \in SUBSET C :
          handler \in S /\ (fh # Null => fh \in S) /\ Closed(S, nx) => S = C

\* V is what a walk that started at the handler and is at c has passed.
Walk(C, nx, V, c) ==
    /\ V \subseteq C /\ c \in C \cup {Null} /\ c \notin V
    /\ handler \in V \cup {c}
    /\ \A d \in V : nx[d] \in V \cup {c}
    /\ \A d \in (V \cup {c}) \ {handler, Null} : \E e \in V : nx[e] = d

IsLinks(C, nx, pv) ==
    /\ handler \in C /\ Null \notin C /\ handler # Null
    /\ nx \in [C -> {Null} \cup C] /\ pv \in [C -> {Null} \cup C]

\* What SetAside does to c behind q, when the chunks from fh are set aside,
Unlinked(C, nx, pv, fh, q, c, nx2, pv2) ==
    /\ \A x \in C : nx2[x] = IF x = c THEN fh ELSE IF x = q THEN nx[c] ELSE nx[x]
    /\ \A x \in C : pv2[x] = IF x = c THEN Null ELSE IF x = nx[c] THEN q ELSE pv[x]

\* NewChunk to a new chunk m behind q,
Inserted(C, nx, pv, q, m, nx2, pv2) ==
    /\ m \notin C /\ m # Null
    /\ \A x \in C \cup {m} :
          /\ nx2[x] = IF x = m THEN nx[q] ELSE IF x = q THEN m ELSE nx[x]
          /\ pv2[x] = IF x = m THEN q ELSE IF x = nx[q] THEN m ELSE pv[x]

\* and HangBehind to the chunks from fh to t, which go behind c.
Hung(C, nx, pv, fh, t, c, nx2, pv2) ==
    \A x \in C :
        /\ nx2[x] = IF x = c THEN fh
                    ELSE IF nx[c] # Null /\ x = t THEN nx[c] ELSE nx[x]
        /\ pv2[x] = IF x = fh THEN c
                    ELSE IF nx[c] # Null /\ x = nx[c] THEN t ELSE pv[x]

FullChunks == {c \in Chunks : Full(c)}

\* The search has passed V and kept away from A.
Scan(A, V) ==
    /\ Walk(Chunks, next, V, cur)
    /\ V \cap A = {} /\ cur \notin A
    /\ \A c \in V : Room(c) < size
    /\ cur # handler =>
          last \in V /\ next[last] = cur /\ (cur # Null => prev[cur] = last)

\* The chunk to take from has room; tail is in the list from full_head.
Fin(A) ==
    /\ cur \in Chunks \ A /\ size <= Room(cur)
    /\ full_head # Null =>
          /\ tail \in A
          /\ LeadTo(A, next, full_head, tail)

ChunksInv ==
    \E A \in SUBSET Chunks :
        /\ handler \in Chunks
        /\ Lists(Chunks, next, prev, A, full_head, FullChunks)
        /\ pc \notin {"scan", "fin"} => A = {} /\ full_head = Null
        /\ pc = "scan" => \E V \in SUBSET Chunks : Scan(A, V)
        /\ pc = "fin" => Fin(A)

FreeInv ==
    /\ pc \notin {"free", "gone"} => freed = {}
    /\ pc = "free" => Walk(Chunks, next, freed, cur)
    /\ pc = "gone" => freed = Chunks

\* What has been handed out lies below the start positions.
BytesInv ==
    /\ \A b \in used \cup block : b[2] < start_pos[b[1]]
    /\ used \cap block = {}

\* Which calls a pool serves, and where a const-size pool has room.
KindInv ==
    /\ pc \in {"scan", "fin"} => size \in Requests
    /\ elem # 0 => /\ pc \notin {"scan", "fin"}
                   /\ \A c \in Chunks \ {handler, next[handler]} : Room(c) < elem

IInv == TypeOK /\ ChunksInv /\ FreeInv /\ BytesInv /\ KindInv

-----------------------------------------------------------------------------
(* Lists                                                                   *)

\* The chunk behind the one the search has passed last is taken out of the
\* pool's list and put in front of those set aside.
LEMMA SetAsideLists ==
    ASSUME NEW C, NEW nx, NEW pv, IsLinks(C, nx, pv),
           NEW A, NEW fh \in {Null} \cup C, NEW F \in SUBSET C, Lists(C, nx, pv, A, fh, F),
           NEW q \in C \ A, NEW c \in F \ A, c # handler, nx[q] = c, pv[c] = q, q # c,
           nx[c] # c,
           NEW nx2, NEW pv2, Unlinked(C, nx, pv, fh, q, c, nx2, pv2)
    PROVE  Lists(C, nx2, pv2, A \cup {c}, c, F)
<1> USE DEF IsLinks, Unlinked
<1>1. /\ A \subseteq C \ {handler} /\ A \subseteq F /\ c \in C
      /\ Closed(A, nx) /\ Closed(C \ A, nx)
      /\ fh # Null => fh \in A
      /\ \A x \in C : nx[x] # handler /\ (fh # Null => nx[x] # fh)
      /\ \A x, y \in C : nx[x] = nx[y] /\ nx[x] # Null => x = y
      /\ \A x \in C \ F : nx[x] # Null => pv[nx[x]] = x
      /\ \A S \in SUBSET C :
            handler \in S /\ (fh # Null => fh \in S) /\ Closed(S, nx) => S = C
  BY DEF Lists
<1>2. /\ nx2[c] = fh /\ nx2[q] = nx[c] /\ \A x \in C \ {c, q} : nx2[x] = nx[x]
      /\ \A x \in C : x \notin {c, nx[c]} => pv2[x] = pv[x]
      /\ nx[c] # Null => pv2[nx[c]] = q
  BY <1>1
<1>3. \A x \in C \ {q} : nx[x] # c
  BY <1>1
<1>4. Closed(A \cup {c}, nx2)
  BY <1>1, <1>2 DEF Closed
<1>5. Closed(C \ (A \cup {c}), nx2)
  BY <1>1, <1>2, <1>3 DEF Closed
<1>6. \A x \in C : nx2[x] # handler /\ nx2[x] # c
  BY <1>1, <1>2, <1>3
<1>7. nx[c] \notin A
  BY <1>1 DEF Closed
<1>8. ASSUME NEW x \in C, NEW y \in C, nx2[x] = nx2[y], nx2[x] # Null
      PROVE  x = y
  <2>1. CASE x \notin {c, q} /\ y \notin {c, q}
    BY <1>1, <1>2, <1>8, <2>1
  <2>2. CASE x = c /\ y # c
    <3>1. nx2[y] = fh /\ fh # Null
      BY <1>2, <1>8, <2>2
    <3>2. CASE y = q
      BY <3>1, <3>2, <1>1, <1>2, <1>7
    <3>3. CASE y # q
      BY <3>1, <3>3, <2>2, <1>1, <1>2
    <3> QED
      BY <3>2, <3>3
  <2>3. CASE y = c /\ x # c
    <3>1. nx2[x] = fh /\ fh # Null
      BY <1>2, <1>8, <2>3
    <3>2. CASE x = q
      BY <3>1, <3>2, <1>1, <1>2, <1>7
    <3>3. CASE x # q
      BY <3>1, <3>3, <2>3, <1>1, <1>2
    <3> QED
      BY <3>2, <3>3
  <2>4. CASE x = q /\ y \notin {c, q}
    BY <1>1, <1>2, <1>8, <2>4
  <2>5. CASE y = q /\ x \notin {c, q}
    BY <1>1, <1>2, <1>8, <2>5
  <2> QED
    BY <2>1, <2>2, <2>3, <2>4, <2>5
<1>9. ASSUME NEW x \in C \ F, nx2[x] # Null PROVE pv2[nx2[x]] = x
  <2>1. x # c
    OBVIOUS
  <2>2. CASE x = q
    BY <2>2, <1>2, <1>9
  <2>3. CASE x # q
    <3>1. nx2[x] = nx[x] /\ nx[x] \in C /\ pv[nx[x]] = x
      BY <1>1, <1>2, <1>9, <2>1, <2>3
    <3>2. nx[x] # c /\ nx[x] # nx[c]
      BY <3>1, <1>1, <1>3, <2>1, <2>3
    <3> QED
      BY <3>1, <3>2, <1>2
  <2> QED
    BY <2>2, <2>3
<1>10. ASSUME NEW S \in SUBSET C, handler \in S, c \in S, Closed(S, nx2)
       PROVE  S = C
  <2>1. fh # Null => fh \in S
    BY <1>2, <1>10 DEF Closed
  <2>2. CASE q \in S
    <3>1. Closed(S, nx)
      BY <2>2, <1>2, <1>10 DEF Closed
    <3> QED
      BY <3>1, <2>1, <1>1, <1>10
  <2>3. CASE q \notin S
    <3> DEFINE T == S \ {c}
    <3>1. Closed(T, nx)
      BY <2>3, <1>2, <1>3, <1>10 DEF Closed
    <3>2. handler \in T /\ (fh # Null => fh \in T)
      BY <2>1, <1>1, <1>10
    <3>3. T = C
      BY <3>1, <3>2, <1>1
    <3> QED
      BY <3>3, <1>1
  <2> QED
    BY <2>2, <2>3
<1> QED
  BY <1>1, <1>4, <1>5, <1>6, <1>8, <1>9, <1>10 DEF Lists

\* Without a head nothing is set aside.
LEMMA NoneAside ==
    ASSUME NEW C, handler \in C, NEW nx, NEW pv, NEW A, NEW F, Lists(C, nx, pv, A, Null, F)
    PROVE  A = {}
<1>1. A \subseteq C \ {handler} /\ Closed(C \ A, nx)
  BY DEF Lists
<1>2. C \ A = C
  BY <1>1 DEF Lists
<1> QED
  BY <1>1, <1>2

LEMMA MoreFull ==
    ASSUME NEW C, NEW nx, NEW pv, NEW A, NEW fh, NEW F, NEW F2, F \subseteq F2,
           Lists(C, nx, pv, A, fh, F)
    PROVE  Lists(C, nx, pv, A, fh, F2)
BY DEF Lists

\* A new chunk goes behind one of the pool's list.
LEMMA InsertLists ==
    ASSUME NEW C, NEW nx, NEW pv, IsLinks(C, nx, pv),
           NEW A, NEW fh \in {Null} \cup C, NEW F \in SUBSET C, Lists(C, nx, pv, A, fh, F),
           NEW q \in C \ A, NEW m,
           NEW nx2, NEW pv2, Inserted(C, nx, pv, q, m, nx2, pv2)
    PROVE  Lists(C \cup {m}, nx2, pv2, A, fh, F)
<1> USE DEF IsLinks, Inserted
<1> DEFINE D == C \cup {m}
<1>1. /\ A \subseteq C \ {handler} /\ A \subseteq F
      /\ Closed(A, nx) /\ Closed(C \ A, nx)
      /\ fh # Null => fh \in A
      /\ \A x \in C : nx[x] # handler /\ (fh # Null => nx[x] # fh)
      /\ \A x, y \in C : nx[x] = nx[y] /\ nx[x] # Null => x = y
      /\ \A x \in C \ F : nx[x] # Null => pv[nx[x]] = x
      /\ \A S \in SUBSET C :
            handler \in S /\ (fh # Null => fh \in S) /\ Closed(S, nx) => S = C
  BY DEF Lists
<1>2. /\ nx2[m] = nx[q] /\ nx2[q] = m /\ \A x \in C \ {q} : nx2[x] = nx[x]
      /\ pv2[m] = q /\ \A x \in C : x # nx[q] => pv2[x] = pv[x]
      /\ nx[q] # Null => pv2[nx[q]] = m
      /\ \A x \in C : nx[x] # m
  OBVIOUS
<1>3. Closed(A, nx2)
  BY <1>1, <1>2 DEF Closed
<1>4. Closed(D \ A, nx2)
  BY <1>1, <1>2 DEF Closed
<1>5. \A x \in D : nx2[x] # handler /\ (fh # Null => nx2[x] # fh)
  BY <1>1, <1>2
<1>6. ASSUME NEW x \in D, NEW y \in D, nx2[x] = nx2[y], nx2[x] # Null PROVE x = y
  <2>1. CASE x \in C \ {q} /\ y \in C \ {q}
    BY <1>1, <1>2, <1>6, <2>1
  <2>2. CASE x = m \/ y = m
    BY <1>1, <1>2, <1>6, <2>2
  <2>3. CASE (x = q \/ y = q) /\ x # m /\ y # m
    BY <1>1, <1>2, <1>6, <2>3
  <2> QED
    BY <2>1, <2>2, <2>3
<1>7. ASSUME NEW x \in D \ F, nx2[x] # Null PROVE pv2[nx2[x]] = x
  <2>1. CASE x = m
    BY <1>2, <1>7, <2>1
  <2>2. CASE x = q
    BY <1>2, <2>2
  <2>3. CASE x \in C \ {q}
    <3>1. nx2[x] = nx[x] /\ nx[x] \in C /\ pv[nx[x]] = x
      BY <1>1, <1>2, <1>7, <2>3
    <3>2. nx[x] # nx[q]
      BY <3>1, <1>1, <2>3
    <3> QED
      BY <3>1, <3>2, <1>2
  <2> QED
    BY <2>1, <2>2, <2>3
<1>8. ASSUME NEW S \in SUBSET D, handler \in S, fh # Null => fh \in S, Closed(S, nx2)
      PROVE  S = D
  <2> DEFINE T == S \ {m}
  <2>1. Closed(T, nx)
    <3> SUFFICES ASSUME NEW x \in T, nx[x] # Null PROVE nx[x] \in T
      BY DEF Closed
    <3>1. CASE x = q
      BY <3>1, <1>2, <1>8 DEF Closed
    <3>2. CASE x # q
      BY <3>2, <1>2, <1>8 DEF Closed
    <3> QED
      BY <3>1, <3>2
  <2>2. T = C
    <3>1. T \in SUBSET C /\ handler \in T /\ (fh # Null => fh \in T)
      BY <1>1, <1>8
    <3> HIDE DEF T
    <3> QED
      BY <3>1, <2>1, <1>1
  <2>3. m \in S
    BY <2>2, <1>2, <1>8 DEF Closed
  <2> QED
    BY <2>2, <2>3
<1>9. A \subseteq D \ {handler}
  BY <1>1
<1> QED
  BY <1>1, <1>3, <1>4, <1>5, <1>6, <1>7, <1>8, <1>9 DEF Lists

\* The chunks set aside are hung behind c, and what followed c behind t, their
\* last: one list again.
LEMMA HangBehindLists ==
    ASSUME NEW C, NEW nx, NEW pv, IsLinks(C, nx, pv),
           NEW A, NEW fh \in C, NEW F \in SUBSET C, Lists(C, nx, pv, A, fh, F),
           NEW c \in C \ A, NEW t \in A, nx[c] # Null => nx[t] = Null,
           LeadTo(A, nx, fh, t),
           NEW nx2, NEW pv2, Hung(C, nx, pv, fh, t, c, nx2, pv2)
    PROVE  Lists(C, nx2, pv2, {}, Null, F)
<1> USE DEF IsLinks, Hung
<1>1. /\ A \subseteq C \ {handler} /\ A \subseteq F
      /\ Closed(A, nx) /\ Closed(C \ A, nx)
      /\ fh \in A
      /\ \A x \in C : nx[x] # handler /\ nx[x] # fh
      /\ \A x, y \in C : nx[x] = nx[y] /\ nx[x] # Null => x = y
      /\ \A x \in C \ F : nx[x] # Null => pv[nx[x]] = x
      /\ \A S \in SUBSET C : handler \in S /\ fh \in S /\ Closed(S, nx) => S = C
  BY DEF Lists
<1>2. /\ nx2[c] = fh /\ (nx[c] # Null => nx2[t] = nx[c])
      /\ \A x \in C \ {c, t} : nx2[x] = nx[x]
      /\ nx[c] = Null => nx2[t] = nx[t]
      /\ pv2[fh] = c /\ \A x \in C \ {fh} : x # nx[c] => pv2[x] = pv[x]
  BY <1>1
<1>3. Closed({}, nx2) /\ Closed(C \ {}, nx2)
  BY DEF Closed
<1>4. \A x \in C : nx2[x] # handler
  BY <1>1
<1>5. ASSUME NEW x \in C, NEW y \in C, nx2[x] = nx2[y], nx2[x] # Null PROVE x = y
  BY <1>1, <1>5
<1>6. ASSUME NEW x \in C \ F, nx2[x] # Null PROVE pv2[nx2[x]] = x
  <2>1. CASE x = c
    BY <1>2, <2>1
  <2>2. CASE x # c
    <3>1. nx2[x] = nx[x] /\ nx[x] \in C /\ pv[nx[x]] = x
      BY <1>1, <1>2, <1>6, <2>2
    <3>2. nx[x] # nx[c] /\ nx[x] # fh
      BY <3>1, <1>1, <2>2
    <3> QED
      BY <3>1, <3>2, <1>2
  <2> QED
    BY <2>1, <2>2
<1>7. ASSUME NEW S \in SUBSET C, handler \in S, Closed(S, nx2) PROVE S = C
  <2>1. c \in S
    <3> SUFFICES ASSUME c \notin S PROVE FALSE
      OBVIOUS
    <3> DEFINE T == S \cup A
    <3>1. ASSUME NEW x \in T, nx[x] # Null PROVE nx[x] \in T
      <4>1. CASE x \in A
        BY <3>1, <4>1, <1>1 DEF Closed
      <4>2. CASE x \in S \ A
        BY <3>1, <4>2, <1>2, <1>7 DEF Closed
      <4> QED
        BY <4>1, <4>2
    <3>2. T = C
      BY <3>1, <1>1, <1>7 DEF Closed
    <3> QED
      BY <3>2
  <2>2. fh \in S
    BY <2>1, <1>1, <1>2, <1>7 DEF Closed
  <2>3. nx[c] # Null => t \in S
    <3> SUFFICES ASSUME nx[c] # Null, t \notin S PROVE FALSE
      OBVIOUS
    <3> DEFINE U == S \cap A
    <3>1. Closed(U, nx)
      <4> SUFFICES ASSUME NEW x \in U, nx[x] # Null PROVE nx[x] \in U
        BY DEF Closed
      <4>1. x \notin {c, t} /\ nx2[x] = nx[x]
        BY <1>2
      <4> QED
        BY <4>1, <1>1, <1>7 DEF Closed
    <3>2. U \in SUBSET A /\ fh \in U
      BY <1>1, <2>2
    <3> HIDE DEF U
    <3>3. t \in U
      BY <3>1, <3>2 DEF LeadTo
    <3> QED
      BY <3>3 DEF U
  <2>4. Closed(S, nx)
    <3> SUFFICES ASSUME NEW x \in S, nx[x] # Null PROVE nx[x] \in S
      BY DEF Closed
    <3>1. CASE x = c
      BY <3>1, <2>3, <1>2, <1>7 DEF Closed
    <3>2. CASE x # c
      BY <3>2, <1>1, <1>2, <1>7 DEF Closed
    <3> QED
      BY <3>1, <3>2
  <2> QED
    BY <2>2, <2>4, <1>1, <1>7
<1> QED
  BY <1>1, <1>3, <1>4, <1>5, <1>6, <1>7 DEF Lists

-----------------------------------------------------------------------------
(* Walks                                                                   *)

\* A walk goes on to a chunk it has not seen.
LEMMA WalkOn ==
    ASSUME NEW C, Null \notin C, NEW nx \in [C -> {Null} \cup C],
           \A x \in C : nx[x] # handler,
           \A x, y \in C : nx[x] = nx[y] /\ nx[x] # Null => x = y,
           NEW V, NEW c \in C, Walk(C, nx, V, c)
    PROVE  /\ nx[c] \notin V \cup {c}
           /\ Walk(C, nx, V \cup {c}, nx[c])
<1>1. nx[c] \notin V \cup {c}
  BY DEF Walk
<1> QED
  BY <1>1 DEF Walk

\* The chunk it is at is taken out, behind one it has passed.
LEMMA SetAsideWalk ==
    ASSUME NEW C, NEW nx, NEW pv, IsLinks(C, nx, pv),
           \A x \in C : nx[x] # handler,
           \A x, y \in C : nx[x] = nx[y] /\ nx[x] # Null => x = y,
           NEW V, NEW c \in C, Walk(C, nx, V, c), c # handler, NEW q \in V, nx[q] = c,
           NEW fh, NEW nx2, NEW pv2, Unlinked(C, nx, pv, fh, q, c, nx2, pv2)
    PROVE  Walk(C, nx2, V, nx[c])
<1> USE DEF IsLinks, Unlinked
<1>1. nx[c] \notin V \cup {c}
  BY DEF Walk
<1>2. /\ q # c /\ nx2[q] = nx[c] /\ V \subseteq C /\ c \notin V
      /\ \A d \in V \ {q} : nx2[d] = nx[d] /\ nx[d] # c
  BY DEF Walk
<1>3. \A d \in V : nx2[d] \in V \cup {nx[c]}
  BY <1>2 DEF Walk
<1>4. \A d \in (V \cup {nx[c]}) \ {handler, Null} : \E e \in V : nx2[e] = d
  <2> SUFFICES ASSUME NEW d \in V \ {handler} PROVE \E e \in V : nx2[e] = d
    BY <1>2
  <2>1. PICK e \in V : nx[e] = d
    BY <1>2 DEF Walk
  <2>2. e # q
    BY <2>1, <1>2
  <2> QED
    BY <2>1, <2>2, <1>2
<1> QED
  BY <1>1, <1>2, <1>3, <1>4 DEF Walk

\* At its end it has passed all but the chunks set aside.
LEMMA EndOfWalk ==
    ASSUME NEW C, Null \notin C, handler # Null, NEW nx, NEW pv, NEW A, NEW fh, NEW F,
           Lists(C, nx, pv, A, fh, F), NEW V, Walk(C, nx, V, Null)
    PROVE  V \cup A = C
<1> DEFINE S == V \cup A
<1>1. S \in SUBSET C /\ handler \in S /\ (fh # Null => fh \in S)
  BY DEF Lists, Walk
<1>2. Closed(S, nx)
  BY DEF Lists, Walk, Closed
<1> HIDE DEF S
<1>3. S = C
  BY <1>1, <1>2 DEF Lists
<1> QED
  BY <1>3 DEF S

-----------------------------------------------------------------------------
(* The initial states and the steps that leave the links alone             *)

LEMMA Links ==
    ASSUME TypeOK, handler \in Chunks
    PROVE  /\ Len(next) \in Nat \ {0} /\ Chunks = 1 .. Len(next) /\ Null \notin Chunks
           /\ next \in [Chunks -> {Null} \cup Chunks]
           /\ prev \in [Chunks -> {Null} \cup Chunks]
           /\ handler # Null /\ IsLinks(Chunks, next, prev)
BY DEF TypeOK, Chunks, Null, handler, IsLinks

LEMMA SameChunksType ==
    ASSUME TypeOK, UNCHANGED <<elem, chunks, answers>>,
           pc' \in {"idle", "scan", "fin", "free", "gone"},
           size' \in {0} \cup Requests, grow' \in {0} \cup GrowSizes,
           {cur', last', full_head', tail'} \subseteq {Null} \cup Chunks, freed' \subseteq Chunks
    PROVE  TypeOK'
BY DEF TypeOK, chunks, answers, Chunks

LEMMA InitInv == Init => IInv
<1> SUFFICES ASSUME Init PROVE IInv
  OBVIOUS
<1>1. /\ Chunks = {handler} /\ handler = 1 /\ Null = 0 /\ next[handler] = Null
      /\ start_pos[handler] = 0 /\ pool_size[handler] \in Nat \ {0}
  BY DEF Init, Chunks, Null, handler
<1>2. TypeOK
  BY <1>1 DEF Init, TypeOK, Chunks, Null
<1>3. ChunksInv
  <2>1. Lists(Chunks, next, prev, {}, full_head, FullChunks)
    <3>1. full_head = Null /\ handler # Null
      BY <1>1 DEF Init
    <3>2. \A S \in SUBSET Chunks : handler \in S => S = Chunks
      BY <1>1
    <3> QED
      BY <3>1, <3>2, <1>1 DEF Lists, Closed
  <2> QED
    BY <2>1, <1>1 DEF ChunksInv, Init
<1>4. FreeInv /\ BytesInv /\ KindInv
  BY <1>1 DEF Init, FreeInv, BytesInv, KindInv
<1> QED
  BY <1>2, <1>3, <1>4 DEF IInv

\* A request starts at the handler.
LEMMA MallocInv ==
    ASSUME IInv, NEW n \in Requests, NEW g \in GrowSizes, Malloc(n, g) PROVE IInv'
<1>1. TypeOK'
  BY DEF IInv, TypeOK, Malloc, chunks, answers, Chunks, Null, handler, ChunksInv
<1>2. ChunksInv'
  <2>1. /\ handler \in Chunks
        /\ Lists(Chunks, next, prev, {}, Null, FullChunks)
    BY DEF IInv, ChunksInv, Malloc
  <2>2. (/\ handler \in Chunks
         /\ Lists(Chunks, next, prev, {}, full_head, FullChunks))'
    BY <2>1 DEF Malloc, chunks, Chunks, FullChunks, Full, Room
  <2>3. Scan({}, {})'
    BY <2>2 DEF Scan, Walk, Malloc
  <2> QED
    BY <2>2, <2>3 DEF ChunksInv, Malloc
<1>3. FreeInv' /\ BytesInv' /\ KindInv'
  BY DEF IInv, FreeInv, BytesInv, KindInv, Malloc, chunks, answers, Chunks, Room
<1> QED
  BY <1>1, <1>2, <1>3 DEF IInv

\* The search stops at a chunk with room.
LEMMA FitsInv == ASSUME IInv, Fits PROVE IInv'
<1>1. TypeOK'
  BY DEF IInv, TypeOK, Fits, chunks, answers, Chunks
<1>2. ChunksInv'
  <2>1. PICK A \in SUBSET Chunks :
            /\ handler \in Chunks
            /\ Lists(Chunks, next, prev, A, full_head, FullChunks)
            /\ \E V \in SUBSET Chunks : Scan(A, V)
    BY DEF IInv, ChunksInv, Fits
  <2>2. cur \in Chunks \ A /\ size <= Room(cur)
    BY <2>1 DEF Scan, Walk, Fits
  <2>3. full_head # Null => full_head \in A
    BY <2>1 DEF Lists
  <2>4. Fin(A)'
    BY <2>2, <2>3 DEF Fin, LeadTo, Fits, chunks, Chunks, Room
  <2>5. (/\ handler \in Chunks
         /\ Lists(Chunks, next, prev, A, full_head, FullChunks))'
    BY <2>1 DEF Fits, chunks, Chunks, FullChunks, Full, Room
  <2> QED
    BY <2>4, <2>5 DEF ChunksInv, Fits, chunks, Chunks
<1>3. FreeInv' /\ BytesInv' /\ KindInv'
  BY DEF IInv, FreeInv, BytesInv, KindInv, Fits, chunks, answers, Chunks, Room
<1> QED
  BY <1>1, <1>2, <1>3 DEF IInv

\* The search passes a chunk; as it is not full, the next one knows it.
LEMMA StaysInv == ASSUME IInv, Stays PROVE IInv'
<1>0. PICK A \in SUBSET Chunks, V \in SUBSET Chunks :
          /\ handler \in Chunks
          /\ Lists(Chunks, next, prev, A, full_head, FullChunks)
          /\ Scan(A, V)
  BY DEF IInv, ChunksInv, Stays
<1>L. /\ Null \notin Chunks /\ handler # Null
      /\ next \in [Chunks -> {Null} \cup Chunks]
  BY <1>0, Links DEF IInv
<1>1. TypeOK'
  <2>1. next[cur] \in {Null} \cup Chunks /\ cur \in Chunks
    BY <1>0, <1>L DEF Scan, Walk, Stays
  <2>2. /\ pc' \in {"idle", "scan", "fin", "free", "gone"}
        /\ size' \in {0} \cup Requests /\ grow' \in {0} \cup GrowSizes
        /\ {cur', last', full_head', tail'} \subseteq {Null} \cup Chunks
        /\ freed' \subseteq Chunks
    BY <2>1 DEF IInv, TypeOK, Stays
  <2> QED
    BY <2>2, SameChunksType DEF IInv, Stays
<1>2. ChunksInv'
  <2>1. cur \in Chunks \ A /\ Walk(Chunks, next, V, cur)
    BY <1>0 DEF Scan, Walk, Stays
  <2>2. /\ next[cur] \notin V \cup {cur}
        /\ Walk(Chunks, next, V \cup {cur}, next[cur])
    BY <1>0, <1>L, <2>1, WalkOn DEF Lists
  <2>3. next[cur] \notin A /\ next[cur] # handler
    BY <1>0, <1>L, <2>1 DEF Lists, Closed
  <2>4. next[cur] # Null => prev[next[cur]] = cur
    BY <1>0, <2>1 DEF Lists, Stays, FullChunks
  <2>5. \A c \in V \cup {cur} : Room(c) < size
    BY <1>0, <2>1 DEF Scan, Stays, Room, IInv, TypeOK
  <2>W. PICK W : W = V \cup {cur}
    OBVIOUS
  <2>6. Scan(A, W)'
    <3>1. /\ last' = cur /\ cur' = next[cur] /\ next' = next /\ prev' = prev
          /\ size' = size /\ start_pos' = start_pos /\ pool_size' = pool_size
          /\ Chunks' = Chunks /\ cur # Null
      BY DEF Stays, chunks, Chunks
    <3>2. Walk(Chunks, next, W, cur)'
      BY <2>2, <2>W, <3>1 DEF Walk
    <3>3. /\ W \cap A = {} /\ cur' \notin A
          /\ \A c \in W : Room(c)' < size'
      BY <1>0, <2>1, <2>3, <2>5, <2>W, <3>1 DEF Scan, Room
    <3>4. last' \in W /\ next'[last'] = cur' /\ (cur' # Null => prev'[cur'] = last')
      BY <2>4, <2>W, <3>1
    <3> QED
      BY <3>2, <3>3, <3>4 DEF Scan, Room
  <2>7. (/\ handler \in Chunks
         /\ Lists(Chunks, next, prev, A, full_head, FullChunks))'
    BY <1>0 DEF Stays, chunks, Chunks, FullChunks, Full, Room
  <2>8. /\ A \in SUBSET Chunks' /\ W \in SUBSET Chunks'
        /\ pc' = "scan"
    BY <2>1, <2>W DEF Stays, chunks, Chunks
  <2> QED
    BY <2>6, <2>7, <2>8 DEF ChunksInv
<1>3. FreeInv' /\ BytesInv' /\ KindInv'
  BY DEF IInv, FreeInv, BytesInv, KindInv, Stays, chunks, answers, Chunks, Room
<1> QED
  BY <1>1, <1>2, <1>3 DEF IInv

\* The tail goes on to the next of the chunks set aside.
LEMMA SeekTailInv == ASSUME IInv, SeekTail PROVE IInv'
<1>0. PICK A \in SUBSET Chunks :
          /\ handler \in Chunks
          /\ Lists(Chunks, next, prev, A, full_head, FullChunks)
          /\ Fin(A)
  BY DEF IInv, ChunksInv, SeekTail
<1>1. /\ tail \in A /\ next[tail] \in A
      /\ LeadTo(A, next, full_head, next[tail])
  BY <1>0 DEF Fin, SeekTail, Joins, Lists, Closed, LeadTo
<1>2. TypeOK'
  BY <1>0, <1>1 DEF IInv, TypeOK, SeekTail, chunks, answers, Chunks
<1>3. ChunksInv'
  <2>1. Fin(A)'
    BY <1>0, <1>1 DEF Fin, SeekTail, chunks, Chunks, Room
  <2>2. (/\ handler \in Chunks
         /\ Lists(Chunks, next, prev, A, full_head, FullChunks))'
    BY <1>0 DEF SeekTail, chunks, Chunks, FullChunks, Full, Room
  <2> QED
    BY <2>1, <2>2 DEF ChunksInv, SeekTail, chunks, Chunks
<1>4. FreeInv' /\ BytesInv' /\ KindInv'
  BY DEF IInv, FreeInv, BytesInv, KindInv, SeekTail, chunks, answers, Chunks, Room
<1> QED
  BY <1>2, <1>3, <1>4 DEF IInv

LEMMA DeleteInv == ASSUME IInv, Delete PROVE IInv'
<1>0. /\ handler \in Chunks
      /\ Lists(Chunks, next, prev, {}, full_head, FullChunks) /\ full_head = Null
  BY DEF IInv, ChunksInv, Delete
<1>1. TypeOK'
  BY <1>0 DEF IInv, TypeOK, Delete, chunks, answers, Chunks
<1>2. ChunksInv'
  <2>1. (/\ handler \in Chunks /\ full_head = Null
         /\ Lists(Chunks, next, prev, {}, full_head, FullChunks))'
    BY <1>0 DEF Delete, chunks, Chunks, FullChunks, Full, Room
  <2> QED
    BY <2>1 DEF ChunksInv, Delete
<1>3. FreeInv' /\ BytesInv' /\ KindInv'
  BY <1>0 DEF IInv, FreeInv, Walk, BytesInv, KindInv, Delete, chunks, answers, Chunks, Room
<1> QED
  BY <1>1, <1>2, <1>3 DEF IInv

\* The chunk given back was not given back before; at the end of the walk all
\* have been.
LEMMA FreeStepInv == ASSUME IInv, Free PROVE IInv'
<1>0. /\ handler \in Chunks
      /\ Lists(Chunks, next, prev, {}, full_head, FullChunks) /\ full_head = Null
      /\ Walk(Chunks, next, freed, cur)
  BY DEF IInv, ChunksInv, FreeInv, Free
<1>L. /\ Null \notin Chunks /\ handler # Null
      /\ next \in [Chunks -> {Null} \cup Chunks]
  BY <1>0, Links DEF IInv
<1>1. TypeOK'
  <2>1. cur # Null => next[cur] \in {Null} \cup Chunks /\ cur \in Chunks
    BY <1>0, <1>L DEF Walk
  <2>2. /\ pc' \in {"idle", "scan", "fin", "free", "gone"}
        /\ size' \in {0} \cup Requests /\ grow' \in {0} \cup GrowSizes
        /\ {cur', last', full_head', tail'} \subseteq {Null} \cup Chunks
        /\ freed' \subseteq Chunks
    BY <2>1 DEF IInv, TypeOK, Free
  <2> QED
    BY <2>2, SameChunksType DEF IInv, Free
<1>2. ChunksInv'
  <2>1. (/\ handler \in Chunks /\ full_head = Null
         /\ Lists(Chunks, next, prev, {}, full_head, FullChunks))'
    BY <1>0 DEF Free, chunks, Chunks, FullChunks, Full, Room
  <2> QED
    BY <2>1 DEF ChunksInv, Free
<1>3. FreeInv'
  <2>1. CASE cur = Null
    <3>1. freed \cup {} = Chunks
      BY <1>0, <1>L, <2>1, EndOfWalk
    <3> QED
      BY <3>1, <2>1 DEF FreeInv, Free, chunks, Chunks
  <2>2. CASE cur # Null
    <3>1. Walk(Chunks, next, freed \cup {cur}, next[cur])
      BY <1>0, <1>L, <2>2, WalkOn DEF Lists, Walk
    <3> QED
      BY <3>1, <2>2 DEF FreeInv, Free, chunks, Chunks
  <2> QED
    BY <2>1, <2>2
<1>4. BytesInv' /\ KindInv'
  BY DEF IInv, BytesInv, KindInv, Free, chunks, answers, Chunks, Room
<1> QED
  BY <1>1, <1>2, <1>3, <1>4 DEF IInv

-----------------------------------------------------------------------------
(* The steps that change the links                                         *)

LEMMA AppendIs ==
    ASSUME NEW L \in Nat, NEW S, NEW f \in [1 .. L -> S], NEW e \in S, NEW s, s = Append(f, e)
    PROVE  /\ s \in Seq(S) /\ Len(s) = L + 1
           /\ \A x \in 1 .. L : s[x] = f[x]
           /\ s[L + 1] = e
<1>1. f \in Seq(S) /\ Len(f) = L
  BY SeqDef, LenProperties
<1> QED
  BY <1>1, AppendProperties

\* A chunk made for a request has room for it.
LEMMA ChunkForFits ==
    ASSUME NEW n \in Nat \ {0}, NEW g \in Nat \ {0}
    PROVE  ChunkFor(n, g) \in Nat \ {0} /\ n <= ChunkFor(n, g)
<1>1. n < (n \div g + 1) * g
  OBVIOUS
<1>2. n \div g + 1 \in Nat
  OBVIOUS
<1>3. (n \div g + 1) * g \in Nat
  BY <1>2
<1> QED
  BY <1>1, <1>3 DEF ChunkFor

\* What smpool_init_chunk and the links set afterwards leave.
LEMMA NewChunkIs ==
    ASSUME TypeOK, handler \in Chunks, NEW n \in Nat \ {0}, NEW q \in Chunks,
           NewChunk(n, q, next[q]), NEW m, m = Len(next) + 1
    PROVE  /\ m \in Nat /\ m \notin Chunks /\ m # Null /\ m # handler
           /\ Inserted(Chunks, next, prev, q, m, next', prev')
           /\ \A x \in Chunks \cup {m} : pool_size'[x] = IF x = m THEN n ELSE pool_size[x]
           /\ Chunks' = Chunks \cup {m} /\ next' \in Seq(Nat)
           /\ prev' \in [Chunks' -> {Null} \cup Chunks'] /\ pool_size' \in [Chunks' -> Nat \ {0}]
           /\ \A c \in Chunks' : next'[c] \in {Null} \cup Chunks'
<1>1. /\ Len(next) \in Nat /\ Chunks = 1 .. Len(next) /\ Null \notin Chunks
      /\ next \in [Chunks -> {Null} \cup Chunks]
      /\ prev \in [Chunks -> {Null} \cup Chunks]
      /\ pool_size \in [Chunks -> Nat \ {0}]
  BY Links DEF TypeOK
<1>2. m \in Nat /\ m \notin Chunks /\ m # Null /\ m # handler
  BY <1>1 DEF Null, handler
<1> DEFINE links == [x \in Chunks |-> IF x = q THEN m ELSE next[x]]
           back == [c \in Chunks |-> IF c = next[q] THEN m ELSE prev[c]]
           D == Chunks \cup {m}
<1>L. PICK L \in Nat : L = Len(next) /\ Chunks = 1 .. L /\ m = L + 1 /\ D = 1 .. L + 1
  <2>1. PICK L \in Nat : L = Len(next) /\ Chunks = 1 .. L
    BY <1>1
  <2>2. m = L + 1 /\ D = 1 .. L + 1
    BY <2>1
  <2> QED
    BY <2>1, <2>2
<1>3. links \in [1 .. L -> Nat] /\ next[q] \in Nat
  <2>1. Chunks \subseteq Nat /\ Null \in Nat
    BY <1>1 DEF Null
  <2> QED
    BY <2>1, <1>1, <1>2, <1>L
<1>4. back \in [1 .. L -> {Null} \cup D] /\ q \in {Null} \cup D
  BY <1>1, <1>L
<1>5. /\ next' = Append(links, next[q]) /\ prev' = Append(back, q)
      /\ pool_size' = Append(pool_size, n)
  BY <1>1 DEF NewChunk
<1> HIDE DEF links, back, D
<1>6. /\ next' \in Seq(Nat) /\ next' \in [D -> Nat]
      /\ \A x \in D : next'[x] = IF x = m THEN next[q] ELSE links[x]
  <2>1. /\ next' \in Seq(Nat) /\ Len(next') = L + 1
        /\ \A x \in 1 .. L : next'[x] = links[x]
        /\ next'[L + 1] = next[q]
    BY <1>3, <1>5, AppendIs
  <2>2. next' \in [D -> Nat]
    BY <2>1, <1>L, LenProperties
  <2> QED
    BY <2>1, <2>2, <1>L DEF D
<1>7. /\ prev' \in [D -> {Null} \cup D]
      /\ \A x \in D : prev'[x] = IF x = m THEN q ELSE back[x]
  <2>1. /\ prev' \in Seq({Null} \cup D) /\ Len(prev') = L + 1
        /\ \A x \in 1 .. L : prev'[x] = back[x]
        /\ prev'[L + 1] = q
    BY <1>4, <1>5, AppendIs
  <2>2. prev' \in [D -> {Null} \cup D]
    BY <2>1, <1>L, LenProperties
  <2> QED
    BY <2>1, <2>2, <1>L DEF D
<1>8. /\ pool_size' \in [D -> Nat \ {0}]
      /\ \A x \in D : pool_size'[x] = IF x = m THEN n ELSE pool_size[x]
  <2>1. /\ pool_size' \in Seq(Nat \ {0}) /\ Len(pool_size') = L + 1
        /\ \A x \in 1 .. L : pool_size'[x] = pool_size[x]
        /\ pool_size'[L + 1] = n
    <3>1. pool_size \in [1 .. L -> Nat \ {0}]
      BY <1>1, <1>L
    <3> QED
      BY <3>1, <1>5, AppendIs
  <2>2. pool_size' \in [D -> Nat \ {0}]
    BY <2>1, <1>L, LenProperties
  <2> QED
    BY <2>1, <2>2, <1>L DEF D
<1>9. Chunks' = D
  BY <1>6 DEF Chunks
<1> USE DEF D
<1>10. \A x \in D : next'[x] = IF x = m THEN next[q] ELSE IF x = q THEN m ELSE next[x]
  BY <1>6 DEF links
<1>11. \A x \in D : prev'[x] = IF x = m THEN q ELSE IF x = next[q] THEN m ELSE prev[x]
  BY <1>7 DEF back
<1>12. \A c \in D : next'[c] \in {Null} \cup D
  BY <1>1, <1>10
<1> QED
  BY <1>2, <1>6, <1>7, <1>8, <1>9, <1>10, <1>11, <1>12 DEF Inserted

\* smpool_init_chunk starts a chunk at its beginning.
LEMMA StartsAtZero ==
    ASSUME TypeOK, handler \in Chunks, NEW m, m = Len(next) + 1, NEW pos,
           pos = Append(start_pos, 0)
    PROVE  /\ pos \in [Chunks \cup {m} -> Nat] /\ pos[m] = 0
           /\ \A x \in Chunks : pos[x] = start_pos[x]
<1>1. PICK L \in Nat : L = Len(next) /\ Chunks = 1 .. L
  BY Links
<1>2. m = L + 1 /\ Chunks \cup {m} = 1 .. L + 1
  BY <1>1
<1>3. start_pos \in [1 .. L -> Nat]
  BY <1>1 DEF TypeOK
<1>4. /\ pos \in Seq(Nat) /\ Len(pos) = L + 1
      /\ \A x \in 1 .. L : pos[x] = start_pos[x]
      /\ pos[L + 1] = 0
  BY <1>3, AppendIs
<1>5. pos \in [1 .. L + 1 -> Nat]
  BY <1>4, LenProperties
<1> QED
  BY <1>1, <1>2, <1>4, <1>5

\* The bytes handed out are new ones.
LEMMA TakeBytes ==
    ASSUME NEW C, NEW pos \in [C -> Nat], used \subseteq C \X Nat, block \subseteq C \X Nat,
           \A b \in used \cup block : b[2] < pos[b[1]],
           used \cap block = {}, NEW c \in C, NEW n \in Nat, Take(c, n, pos)
    PROVE  /\ start_pos' = [x \in C |-> IF x = c THEN pos[c] + n ELSE pos[x]]
           /\ start_pos' \in [C -> Nat]
           /\ used' \subseteq C \X Nat /\ block' \subseteq C \X Nat
           /\ \A b \in used' \cup block' : b[2] < start_pos'[b[1]]
           /\ used' \cap block' = {}
<1>1. /\ start_pos' = [x \in C |-> IF x = c THEN pos[c] + n ELSE pos[x]]
      /\ start_pos' \in [C -> Nat]
  <2>1. start_pos' = [pos EXCEPT ![c] = @ + n] /\ DOMAIN pos = C
    BY DEF Take
  <2>2. pos[c] + n \in Nat
    OBVIOUS
  <2> QED
    BY <2>1, <2>2
<1>2. \A b \in block' : \E o \in Nat : b = <<c, o>> /\ pos[c] <= o /\ o < pos[c] + n
  BY DEF Take
<1>3. used' = used \cup block
  BY DEF Take
<1>4. block' \subseteq C \X Nat
  BY <1>2
<1>5. \A b \in used \cup block : b[2] < start_pos'[b[1]]
  BY <1>1
<1>6. \A b \in block' : b[2] < start_pos'[b[1]]
  BY <1>1, <1>2
<1>7. used' \cap block' = {}
  <2> SUFFICES ASSUME NEW b \in used \cup block, b \in block' PROVE FALSE
    BY <1>3
  <2>1. PICK o \in Nat : b = <<c, o>> /\ pos[c] <= o
    BY <1>2
  <2>2. b[1] = c /\ b[2] = o /\ b[2] < pos[b[1]]
    BY <2>1
  <2> QED
    BY <2>1, <2>2
<1> QED
  BY <1>1, <1>3, <1>4, <1>5, <1>6, <1>7

\* The chunk set aside leaves the pool's list for the other one.
LEMMA SetAsideInv == ASSUME IInv, SetAside PROVE IInv'
<1>0. PICK A \in SUBSET Chunks, V \in SUBSET Chunks :
          /\ handler \in Chunks
          /\ Lists(Chunks, next, prev, A, full_head, FullChunks)
          /\ Scan(A, V)
  BY DEF IInv, ChunksInv, SetAside
<1>L. /\ Null \notin Chunks /\ handler # Null
      /\ next \in [Chunks -> {Null} \cup Chunks]
      /\ prev \in [Chunks -> {Null} \cup Chunks]
  BY <1>0, Links DEF IInv
<1>F. /\ \A x \in Chunks : next[x] # handler
      /\ \A x, y \in Chunks : next[x] = next[y] /\ next[x] # Null => x = y
      /\ Closed(Chunks \ A, next)
  BY <1>0 DEF Lists
<1>K. PICK c : c = cur
  OBVIOUS
<1>Q. PICK q : q = last
  OBVIOUS
<1>1. /\ c \in FullChunks \ A /\ c # handler /\ c \in Chunks
      /\ q \in V /\ q \in Chunks \ A /\ next[q] = c /\ prev[c] = q
      /\ Walk(Chunks, next, V, c) /\ c \notin V
  BY <1>0, <1>K, <1>Q DEF Scan, Walk, SetAside, FullChunks, Full
<1>2. /\ next[c] \notin V \cup {c} /\ next[c] \notin A /\ next[c] # handler
      /\ next[c] \in {Null} \cup Chunks
  <2>1. next[c] \notin V \cup {c}
    BY <1>F, <1>L, <1>1 DEF Walk
  <2>2. next[c] \notin A
    BY <1>F, <1>L, <1>1 DEF Closed
  <2> QED
    BY <2>1, <2>2, <1>F, <1>L, <1>1
<1>3. /\ next' = [x \in Chunks |-> IF x = c THEN full_head
                                   ELSE IF x = q THEN next[c] ELSE next[x]]
      /\ prev' = [x \in Chunks |-> IF x = c THEN Null
                                   ELSE IF x = next[c] THEN q ELSE prev[x]]
      /\ full_head' = c /\ cur' = next[c] /\ last' = q /\ size' = size
      /\ Chunks' = Chunks /\ pc = "scan" /\ pc' = "scan"
      /\ start_pos' = start_pos /\ pool_size' = pool_size
  BY <1>1, <1>K, <1>Q DEF SetAside, Chunks
<1>P. /\ IsLinks(Chunks, next, prev)
      /\ Unlinked(Chunks, next, prev, full_head, q, c, next', prev')
  BY <1>0, <1>3, Links DEF Unlinked, IInv
<1>4. full_head \in {Null} \cup Chunks
  BY DEF IInv, TypeOK
<1>5. TypeOK'
  <2>1. /\ next' \in [Chunks -> {Null} \cup Chunks] /\ prev' \in [Chunks -> {Null} \cup Chunks]
    BY <1>1, <1>2, <1>3, <1>4, <1>L
  <2>2. next' \in Seq(Nat)
    <3>1. PICK n \in Nat : Chunks = 1 .. n
      BY <1>0, Links DEF IInv
    <3>2. {Null} \cup Chunks \subseteq Nat
      BY <3>1 DEF Null
    <3>3. next' \in [1 .. n -> Nat]
      BY <2>1, <3>1, <3>2
    <3> QED
      BY <3>3, SeqDef
  <2>3. {cur', last', full_head', tail'} \subseteq {Null} \cup Chunks
    BY <1>1, <1>2, <1>3 DEF IInv, TypeOK, SetAside
  <2>4. \A x \in Chunks : next'[x] \in {Null} \cup Chunks
    BY <2>1
  <2> QED
    BY <2>1, <2>2, <2>3, <2>4, <1>3 DEF IInv, TypeOK, SetAside, answers
<1>6. ChunksInv'
  <2>1. Lists(Chunks, next', prev', A \cup {c}, c, FullChunks)
    <3>1. FullChunks \in SUBSET Chunks /\ q # c /\ next[c] # c /\ c \in FullChunks \ A
      BY <1>1, <1>2 DEF FullChunks
    <3> QED
      BY <3>1, <1>0, <1>1, <1>P, <1>4, SetAsideLists
  <2>2. FullChunks' = FullChunks
    BY <1>3 DEF FullChunks, Full, Room
  <2>3. Walk(Chunks, next', V, next[c])
    BY <1>F, <1>1, <1>P, SetAsideWalk
  <2>4. /\ V \cap (A \cup {c}) = {} /\ next[c] \notin A \cup {c}
        /\ \A x \in V : Room(x) < size
    BY <1>0, <1>1, <1>2 DEF Scan
  <2>5. /\ q \in V /\ next'[q] = next[c]
        /\ next[c] # Null => prev'[next[c]] = q
    BY <1>1, <1>2, <1>3
  <2>6. Scan(A \cup {c}, V)'
    BY <2>3, <2>4, <2>5, <1>3 DEF Scan, Room
  <2> QED
    BY <1>0, <1>1, <1>3, <2>1, <2>2, <2>6 DEF ChunksInv
<1>7. FreeInv' /\ BytesInv' /\ KindInv'
  BY <1>3 DEF IInv, FreeInv, BytesInv, KindInv, SetAside, answers
<1> QED
  BY <1>5, <1>6, <1>7 DEF IInv

\* A chunk is added behind the last one.
LEMMA GrowInv == ASSUME IInv, Grow PROVE IInv'
<1>0. PICK A \in SUBSET Chunks, V \in SUBSET Chunks :
          /\ handler \in Chunks
          /\ Lists(Chunks, next, prev, A, full_head, FullChunks)
          /\ Scan(A, V)
  BY DEF IInv, ChunksInv, Grow
<1>L. /\ Null \notin Chunks /\ handler # Null
      /\ next \in [Chunks -> {Null} \cup Chunks]
      /\ prev \in [Chunks -> {Null} \cup Chunks]
  BY <1>0, Links DEF IInv
<1>1. last \in Chunks \ A /\ next[last] = Null
  BY <1>0, <1>L DEF Scan, Grow
<1>2. PICK q : q = last
  OBVIOUS
<1>3. PICK m : m = Len(next) + 1
  OBVIOUS
<1>4. PICK n \in Nat \ {0} : n = ChunkFor(size, GrowBy) /\ size <= n
  <2>1. size \in Nat \ {0}
    BY DEF IInv, KindInv, Grow
  <2>2. GrowBy \in Nat \ {0} /\ grow_size' \in Nat \ {0}
    BY DEF GrowBy, IInv, TypeOK, Grow
  <2> QED
    BY <2>1, <2>2, ChunkForFits
<1>5. NewChunk(n, q, next[q])
  BY <1>1, <1>2, <1>4 DEF Grow
<1>6. /\ m \in Nat /\ m \notin Chunks /\ m # Null /\ m # handler
      /\ Inserted(Chunks, next, prev, q, m, next', prev')
      /\ \A x \in Chunks \cup {m} : pool_size'[x] = IF x = m THEN n ELSE pool_size[x]
      /\ Chunks' = Chunks \cup {m} /\ next' \in Seq(Nat)
      /\ prev' \in [Chunks' -> {Null} \cup Chunks'] /\ pool_size' \in [Chunks' -> Nat \ {0}]
      /\ \A c \in Chunks' : next'[c] \in {Null} \cup Chunks'
  <2> q \in Chunks /\ TypeOK
    BY <1>1, <1>2 DEF IInv
  <2> QED
    BY <1>0, <1>3, <1>5, NewChunkIs
<1>7. /\ start_pos' \in [Chunks' -> Nat] /\ start_pos'[m] = 0
      /\ \A x \in Chunks : start_pos'[x] = start_pos[x]
  <2> start_pos' = Append(start_pos, 0) /\ TypeOK /\ Chunks' = Chunks \cup {m}
    BY <1>6 DEF Grow, IInv
  <2> QED
    BY <1>0, <1>3, StartsAtZero
<1>8. \A x \in Chunks' : start_pos'[x] <= pool_size'[x]
  BY <1>6, <1>7 DEF IInv, TypeOK
<1>9. /\ cur' = m /\ tail' = full_head /\ full_head' = full_head /\ last' = last
      /\ pc' = "fin" /\ pc = "scan" /\ size' = size /\ grow' = grow
      /\ UNCHANGED <<elem, used, block, freed>>
  BY <1>3 DEF Grow, answers
<1>10. TypeOK'
  <2>1. {cur', last', full_head', tail'} \subseteq {Null} \cup Chunks'
    BY <1>6, <1>9 DEF IInv, TypeOK
  <2>2. used' \subseteq Chunks' \X Nat /\ block' \subseteq Chunks' \X Nat /\ freed' \subseteq Chunks'
    BY <1>6, <1>9 DEF IInv, TypeOK
  <2>3. grow_size' \in Nat \ {0}
    BY DEF IInv, TypeOK, Grow
  <2>4. /\ elem' \in {0} \cup ElemSizes /\ size' \in {0} \cup Requests
        /\ grow' \in {0} \cup GrowSizes
    BY <1>9 DEF IInv, TypeOK
  <2> QED
    BY <2>1, <2>2, <2>3, <2>4, <1>6, <1>7, <1>8, <1>9 DEF TypeOK
<1>11. \A x \in Chunks : Room(x)' = Room(x)
  BY <1>6, <1>7 DEF Room
<1>12. FullChunks \subseteq FullChunks'
  BY <1>6, <1>11 DEF FullChunks, Full
<1>13. ChunksInv'
  <2>1. Lists(Chunks', next', prev', A, full_head, FullChunks)
    <3> q \in Chunks \ A /\ full_head \in {Null} \cup Chunks /\ FullChunks \in SUBSET Chunks
      BY <1>1, <1>2 DEF IInv, TypeOK, FullChunks
    <3> IsLinks(Chunks, next, prev)
      BY <1>0, Links DEF IInv
    <3> QED
      BY <1>0, <1>6, InsertLists
  <2>2. Lists(Chunks', next', prev', A, full_head, FullChunks')
    BY <2>1, <1>12, MoreFull
  <2>3. A \in SUBSET Chunks' /\ handler \in Chunks'
    BY <1>0, <1>6
  <2>4. cur' \in Chunks' \ A /\ size' <= pool_size'[cur'] - start_pos'[cur']
    BY <1>4, <1>6, <1>7, <1>9
  <2>5. full_head # Null => full_head \in A
    BY <1>0 DEF Lists
  <2>6. Fin(A)'
    BY <2>4, <2>5, <1>9 DEF Fin, LeadTo, Room
  <2> QED
    BY <2>2, <2>3, <2>6, <1>9 DEF ChunksInv
<1>14. FreeInv' /\ KindInv'
  BY <1>9 DEF IInv, FreeInv, KindInv
<1>15. BytesInv'
  BY <1>7, <1>9 DEF IInv, BytesInv, TypeOK
<1> QED
  BY <1>10, <1>13, <1>14, <1>15 DEF IInv

\* The chunks set aside go back behind the chunk the answer is taken from.
LEMMA FinishInv == ASSUME IInv, Finish PROVE IInv'
<1>0. PICK A \in SUBSET Chunks :
          /\ handler \in Chunks
          /\ Lists(Chunks, next, prev, A, full_head, FullChunks)
          /\ Fin(A)
  BY DEF IInv, ChunksInv, Finish
<1>K. PICK c, t, fh, n : c = cur /\ t = tail /\ fh = full_head /\ n = size
  OBVIOUS
<1>L. IsLinks(Chunks, next, prev)
  BY <1>0, Links DEF IInv
<1>1. /\ c \in Chunks \ A /\ n <= Room(c) /\ n \in Nat \ {0}
      /\ fh \in {Null} \cup Chunks /\ FullChunks \in SUBSET Chunks
  BY <1>0, <1>K DEF Fin, FullChunks, IInv, TypeOK, KindInv, Finish
<1>2. /\ next' = [x \in Chunks |-> IF x = c /\ fh # Null THEN fh
                                   ELSE IF fh # Null /\ next[c] # Null /\ x = t THEN next[c]
                                   ELSE next[x]]
      /\ prev' = [x \in Chunks |-> IF x = fh THEN c
                                   ELSE IF fh # Null /\ next[c] # Null /\ x = next[c] THEN t
                                   ELSE prev[x]]
      /\ Chunks' = Chunks
  BY <1>K DEF Finish, HangBehind, Joins, Chunks
<1>3. /\ Take(c, n, start_pos)
      /\ cur' = Null /\ last' = Null /\ full_head' = Null /\ tail' = Null
      /\ size' = 0 /\ grow' = 0 /\ pc = "fin" /\ pc' = "idle"
      /\ UNCHANGED <<elem, pool_size, grow_size, freed>>
  BY <1>K DEF Finish
<1>4. /\ start_pos' = [x \in Chunks |-> IF x = c THEN start_pos[c] + n ELSE start_pos[x]]
      /\ start_pos' \in [Chunks -> Nat]
      /\ used' \subseteq Chunks \X Nat /\ block' \subseteq Chunks \X Nat
      /\ BytesInv'
  <2>1. /\ start_pos \in [Chunks -> Nat] /\ n \in Nat /\ c \in Chunks
        /\ used \subseteq Chunks \X Nat /\ block \subseteq Chunks \X Nat
    BY <1>1 DEF IInv, TypeOK
  <2>2. (\A b \in used \cup block : b[2] < start_pos[b[1]]) /\ used \cap block = {}
    BY DEF IInv, BytesInv
  <2> QED
    BY <2>1, <2>2, <1>3, TakeBytes DEF BytesInv
<1>5. fh # Null => /\ fh \in A /\ t \in A /\ (next[c] # Null => next[t] = Null)
                   /\ LeadTo(A, next, fh, t)
  BY <1>0, <1>K DEF Lists, Fin, Finish, Joins
<1>6. Lists(Chunks, next', prev', {}, Null, FullChunks)
  <2>1. CASE fh = Null
    <3>1. A = {}
      BY <1>0, <1>K, <2>1, NoneAside
    <3>2. next' = next /\ prev' = prev
      BY <1>2, <1>L, <2>1 DEF IsLinks
    <3> QED
      BY <1>0, <1>K, <2>1, <3>1, <3>2
  <2>2. CASE fh # Null
    <3>1. Hung(Chunks, next, prev, fh, t, c, next', prev')
      BY <1>2, <2>2 DEF Hung
    <3>2. fh \in Chunks /\ Lists(Chunks, next, prev, A, fh, FullChunks)
      BY <1>0, <1>1, <1>K, <2>2
    <3>3. t \in A /\ (next[c] # Null => next[t] = Null) /\ LeadTo(A, next, fh, t)
      BY <1>5, <2>2
    <3>4. c \in Chunks \ A /\ FullChunks \in SUBSET Chunks
      BY <1>1
    <3> QED
      BY <3>1, <3>2, <3>3, <3>4, <1>L, HangBehindLists
  <2> QED
    BY <2>1, <2>2
<1>7. /\ next' \in [Chunks -> {Null} \cup Chunks] /\ prev' \in [Chunks -> {Null} \cup Chunks]
  <2>1. fh # Null => fh \in Chunks /\ t \in Chunks
    BY <1>5
  <2>2. \A x \in Chunks : next[x] \in {Null} \cup Chunks /\ prev[x] \in {Null} \cup Chunks
    BY <1>L DEF IsLinks
  <2> QED
    BY <2>1, <2>2, <1>1, <1>2
<1>8. TypeOK'
  <2>1. next' \in Seq(Nat)
    <3>1. PICK k \in Nat : Chunks = 1 .. k
      BY <1>0, Links DEF IInv
    <3>2. {Null} \cup Chunks \subseteq Nat
      BY <3>1 DEF Null
    <3>3. next' \in [1 .. k -> Nat]
      BY <1>7, <3>1, <3>2
    <3> QED
      BY <3>3, SeqDef
  <2>2. \A x \in Chunks : next'[x] \in {Null} \cup Chunks
    BY <1>7
  <2>3. \A x \in Chunks : start_pos'[x] <= pool_size'[x]
    BY <1>1, <1>3, <1>4 DEF IInv, TypeOK, Room
  <2>4. /\ elem' \in {0} \cup ElemSizes /\ pool_size' \in [Chunks -> Nat \ {0}]
        /\ grow_size' \in Nat \ {0} /\ freed' \subseteq Chunks
    BY <1>3 DEF IInv, TypeOK
  <2> QED
    BY <1>2, <1>3, <1>4, <1>7, <2>1, <2>2, <2>3, <2>4 DEF TypeOK
<1>9. ChunksInv'
  <2>1. FullChunks \subseteq FullChunks'
    BY <1>1, <1>2, <1>3, <1>4 DEF IInv, TypeOK, FullChunks, Full, Room, MIN_MARGIN
  <2>2. Lists(Chunks', next', prev', {}, full_head', FullChunks')
    BY <1>2, <1>3, <1>6, <2>1, MoreFull
  <2> QED
    BY <1>0, <1>2, <1>3, <2>2 DEF ChunksInv
<1>10. FreeInv' /\ KindInv'
  BY <1>3 DEF IInv, FreeInv, KindInv
<1> QED
  BY <1>4, <1>8, <1>9, <1>10 DEF IInv

\* A const-size pool takes from the handler or the chunk behind it.
LEMMA FromFirstTwoInv == ASSUME IInv, FromFirstTwo PROVE IInv'
<1>0. /\ handler \in Chunks /\ full_head = Null
      /\ Lists(Chunks, next, prev, {}, Null, FullChunks)
  BY DEF IInv, ChunksInv, FromFirstTwo
<1>L. IsLinks(Chunks, next, prev)
  BY <1>0, Links DEF IInv
<1>1. PICK c \in {handler, next[handler]} :
          c # Null /\ elem <= Room(c) /\ Take(c, elem, start_pos)
  BY DEF FromFirstTwo
<1>2. c \in Chunks /\ elem \in Nat \ {0}
  BY <1>0, <1>1, <1>L DEF IsLinks, IInv, TypeOK, FromFirstTwo
<1>3. /\ UNCHANGED <<elem, next, prev, pool_size, grow_size, pc, scanning, freed>>
      /\ pc = "idle" /\ Chunks' = Chunks
  BY DEF FromFirstTwo, Chunks
<1>4. /\ start_pos' = [x \in Chunks |-> IF x = c THEN start_pos[c] + elem ELSE start_pos[x]]
      /\ start_pos' \in [Chunks -> Nat]
      /\ used' \subseteq Chunks \X Nat /\ block' \subseteq Chunks \X Nat
      /\ BytesInv'
  <2>1. /\ start_pos \in [Chunks -> Nat] /\ elem \in Nat /\ c \in Chunks
        /\ used \subseteq Chunks \X Nat /\ block \subseteq Chunks \X Nat
    BY <1>2 DEF IInv, TypeOK
  <2>2. (\A b \in used \cup block : b[2] < start_pos[b[1]]) /\ used \cap block = {}
    BY DEF IInv, BytesInv
  <2> QED
    BY <2>1, <2>2, <1>1, TakeBytes DEF BytesInv
<1>5. TypeOK'
  <2>1. \A x \in Chunks : start_pos'[x] <= pool_size'[x]
    BY <1>1, <1>2, <1>3, <1>4 DEF IInv, TypeOK, Room
  <2> QED
    BY <1>3, <1>4, <2>1 DEF IInv, TypeOK, scanning
<1>6. ChunksInv'
  <2>1. FullChunks \subseteq FullChunks'
    BY <1>1, <1>2, <1>3, <1>4 DEF IInv, TypeOK, FullChunks, Full, Room, MIN_MARGIN
  <2>2. Lists(Chunks', next', prev', {}, full_head', FullChunks')
    BY <1>0, <1>3, <2>1, MoreFull DEF scanning
  <2> QED
    BY <1>0, <1>3, <2>2 DEF ChunksInv, scanning
<1>7. FreeInv'
  BY <1>3 DEF IInv, FreeInv
<1>8. KindInv'
  <2>1. \A x \in Chunks \ {handler, next[handler]} : Room(x)' = Room(x)
    BY <1>1, <1>3, <1>4 DEF Room
  <2> QED
    BY <1>3, <2>1 DEF IInv, KindInv
<1> QED
  BY <1>4, <1>5, <1>6, <1>7, <1>8 DEF IInv

\* A const-size pool grows behind the handler.
LEMMA GrowConstInv == ASSUME IInv, GrowConst PROVE IInv'
<1>0. /\ handler \in Chunks /\ full_head = Null
      /\ Lists(Chunks, next, prev, {}, Null, FullChunks)
  BY DEF IInv, ChunksInv, GrowConst
<1>L. IsLinks(Chunks, next, prev)
  BY <1>0, Links DEF IInv
<1>1. PICK m : m = Len(next) + 1
  OBVIOUS
<1>2. PICK n \in Nat \ {0} : n = grow_size' /\ elem <= n
  BY DEF GrowConst, Larger, IInv, TypeOK
<1>3. /\ m \in Nat /\ m \notin Chunks /\ m # Null /\ m # handler
      /\ Inserted(Chunks, next, prev, handler, m, next', prev')
      /\ \A x \in Chunks \cup {m} : pool_size'[x] = IF x = m THEN n ELSE pool_size[x]
      /\ Chunks' = Chunks \cup {m} /\ next' \in Seq(Nat)
      /\ prev' \in [Chunks' -> {Null} \cup Chunks'] /\ pool_size' \in [Chunks' -> Nat \ {0}]
      /\ \A c \in Chunks' : next'[c] \in {Null} \cup Chunks'
  <2> NewChunk(n, handler, next[handler]) /\ TypeOK
    BY <1>2 DEF IInv, GrowConst
  <2> QED
    BY <1>0, <1>1, NewChunkIs
<1>4. PICK pos \in [Chunks' -> Nat] :
          /\ pos = Append(start_pos, 0) /\ pos[m] = 0
          /\ \A x \in Chunks : pos[x] = start_pos[x]
  <2>1. PICK pos : pos = Append(start_pos, 0)
    OBVIOUS
  <2>2. /\ pos \in [Chunks \cup {m} -> Nat] /\ pos[m] = 0
        /\ \A x \in Chunks : pos[x] = start_pos[x]
    BY <2>1, <1>0, <1>1, StartsAtZero DEF IInv
  <2> QED
    BY <2>1, <2>2, <1>3
<1>5. /\ Take(m, elem, pos)
      /\ UNCHANGED <<elem, pc, scanning, freed>> /\ pc = "idle" /\ elem \in Nat \ {0}
      /\ elem > Room(handler)
      /\ next[handler] # Null => elem > Room(next[handler])
  BY <1>1, <1>4 DEF GrowConst, IInv, TypeOK
<1>6. /\ start_pos' = [x \in Chunks' |-> IF x = m THEN pos[m] + elem ELSE pos[x]]
      /\ start_pos' \in [Chunks' -> Nat]
      /\ used' \subseteq Chunks' \X Nat /\ block' \subseteq Chunks' \X Nat
      /\ BytesInv'
  <2>1. used \subseteq Chunks' \X Nat /\ block \subseteq Chunks' \X Nat
    BY <1>3 DEF IInv, TypeOK
  <2>2. (\A b \in used \cup block : b[2] < pos[b[1]]) /\ used \cap block = {}
    BY <1>4 DEF IInv, BytesInv, TypeOK
  <2>3. m \in Chunks' /\ elem \in Nat
    BY <1>3, <1>5
  <2> QED
    BY <2>1, <2>2, <2>3, <1>5, TakeBytes DEF BytesInv
<1>7. /\ \A x \in Chunks : start_pos'[x] = start_pos[x] /\ pool_size'[x] = pool_size[x]
      /\ start_pos'[m] = elem /\ pool_size'[m] = n
  BY <1>3, <1>4, <1>5, <1>6
<1>8. TypeOK'
  <2>1. \A x \in Chunks' : start_pos'[x] <= pool_size'[x]
    BY <1>2, <1>3, <1>7 DEF IInv, TypeOK
  <2>2. /\ elem' \in {0} \cup ElemSizes /\ pc' \in {"idle", "scan", "fin", "free", "gone"}
        /\ grow_size' \in Nat \ {0} /\ freed' \subseteq Chunks'
        /\ size' \in {0} \cup Requests /\ grow' \in {0} \cup GrowSizes
        /\ {cur', last', full_head', tail'} \subseteq {Null} \cup Chunks'
    BY <1>2, <1>3, <1>5 DEF IInv, TypeOK, scanning
  <2> QED
    BY <2>1, <2>2, <1>3, <1>6 DEF TypeOK
<1>9. ChunksInv'
  <2>1. Lists(Chunks', next', prev', {}, Null, FullChunks)
    <3>1. FullChunks \in SUBSET Chunks /\ handler \in Chunks \ {}
      BY <1>0 DEF FullChunks
    <3>2. Lists(Chunks \cup {m}, next', prev', {}, Null, FullChunks)
      BY <1>0, <1>L, <1>3, <3>1, InsertLists
    <3> QED
      BY <3>2, <1>3
  <2>2. FullChunks \subseteq FullChunks'
    BY <1>3, <1>7 DEF FullChunks, Full, Room
  <2>3. Lists(Chunks', next', prev', {}, full_head', FullChunks')
    BY <1>0, <1>5, <2>1, <2>2, MoreFull DEF scanning
  <2> QED
    BY <1>0, <1>3, <1>5, <2>3 DEF ChunksInv, scanning
<1>10. FreeInv'
  BY <1>5 DEF IInv, FreeInv
<1>11. KindInv'
  <2>1. next'[handler] = m
    BY <1>0, <1>3 DEF Inserted
  <2>2. \A x \in Chunks : Room(x)' = Room(x)
    BY <1>7 DEF Room
  <2>3. \A x \in Chunks \ {handler} : Room(x) < elem
    BY <1>5, <1>L DEF IInv, KindInv, IsLinks, TypeOK, Room
  <2> QED
    BY <1>3, <1>5, <2>1, <2>2, <2>3 DEF IInv, KindInv
<1> QED
  BY <1>6, <1>8, <1>9, <1>10, <1>11 DEF IInv

-----------------------------------------------------------------------------
(* What the pool promises                                                  *)

LEMMA NextInv == IInv /\ [Next]_vars => IInv'
<1> SUFFICES ASSUME IInv, [Next]_vars PROVE IInv'
  OBVIOUS
<1>1. CASE \E n \in Requests, g \in GrowSizes : Malloc(n, g)
  BY <1>1, MallocInv
<1>2. CASE Search
  BY <1>2, FitsInv, StaysInv, SetAsideInv, GrowInv, SeekTailInv, FinishInv DEF Search
<1>3. CASE FromFirstTwo
  BY <1>3, FromFirstTwoInv
<1>4. CASE GrowConst
  BY <1>4, GrowConstInv
<1>5. CASE Delete
  BY <1>5, DeleteInv
<1>6. CASE Free
  BY <1>6, FreeStepInv
<1>7. CASE Gone \/ UNCHANGED vars
  <2> UNCHANGED vars
    BY <1>7 DEF Gone
  <2>1. TypeOK' /\ FreeInv' /\ BytesInv' /\ KindInv'
    BY DEF IInv, TypeOK, FreeInv, BytesInv, KindInv, Room, Chunks, vars, chunks, answers, scanning
  <2>2. FullChunks' = FullChunks
    BY DEF FullChunks, Full, Room, Chunks, vars, chunks
  <2>3. \A A, V : Scan(A, V)' = Scan(A, V) /\ Fin(A)' = Fin(A)
    BY DEF Scan, Fin, Room, Chunks, vars, chunks, scanning
  <2>4. ChunksInv'
    BY <2>2, <2>3 DEF IInv, ChunksInv, Chunks, vars, chunks, scanning
  <2> QED
    BY <2>1, <2>4 DEF IInv
<1> QED
  BY <1>1, <1>2, <1>3, <1>4, <1>5, <1>6, <1>7 DEF Next

LEMMA PoolInvariant == Spec => []IInv
BY InitInv, NextInv, PTL DEF Spec

\* Every variable of a pool keeps its type.
THEOREM PoolTypes == Spec => []TypeOK
<1>1. IInv => TypeOK
  BY DEF IInv
<1> QED
  BY <1>1, PoolInvariant, PTL

\* No byte is handed out twice or lies outside its chunk (smpoolMalloc,
\* smpoolMallocConstSize), however the chunks have been moved around.
THEOREM NoByteTwice == Spec => []BlocksApart
<1>1. ASSUME IInv PROVE BlocksApart
  <2>1. \A b \in block : b[2] < start_pos[b[1]] /\ b[1] \in Chunks /\ b[2] \in Nat
    BY <1>1 DEF IInv, BytesInv, TypeOK
  <2>2. \A c \in Chunks : /\ start_pos[c] \in Nat /\ pool_size[c] \in Nat
                          /\ start_pos[c] <= pool_size[c]
    BY <1>1 DEF IInv, TypeOK
  <2> QED
    BY <1>1, <2>1, <2>2 DEF IInv, BytesInv, BlocksApart
<1> QED
  BY <1>1, PoolInvariant, PTL

\* The chunk that remove_smp takes out of the list has a predecessor, and the
\* predecessor leads to it: the back links that append_head_smp leaves empty
\* are never asked for.
THEOREM RemoveFindsPredecessor == Spec => []UnlinksCleanly
<1>1. ASSUME IInv PROVE UnlinksCleanly
  <2> SUFFICES ASSUME pc = "scan", cur # Null, Full(cur)
               PROVE  prev[cur] # Null /\ next[prev[cur]] = cur
    BY DEF UnlinksCleanly
  <2>1. handler \in Chunks /\ \E A, V \in SUBSET Chunks : Scan(A, V)
    BY <1>1 DEF IInv, ChunksInv
  <2>2. last \in Chunks /\ next[last] = cur /\ prev[cur] = last
    BY <2>1 DEF Scan, Full
  <2>3. Null \notin Chunks
    BY <1>1, <2>1, Links DEF IInv
  <2> QED
    BY <2>2, <2>3
<1> QED
  BY <1>1, PoolInvariant, PTL

\* smpoolDelete gives every chunk back, and none twice: no request has lost a
\* chunk or closed the list to a ring.
THEOREM DeleteFreesAllOnce == Spec => []FreedOnce
<1>1. IInv => FreedOnce
  BY DEF IInv, FreeInv, Walk, FreedOnce
<1> QED
  BY <1>1, PoolInvariant, PTL

\* A pool grows only if no chunk has room for the request, although the search
\* of a MEM_COMM pool has not looked at the chunks set aside, nor that of a
\* MEM_CONST_SIZE pool at more than two.
THEOREM NoRoomLeft == Spec => GrowsOnlyWhenFull
<1>1. ASSUME IInv, [Next]_vars, Len(next') > Len(next), NEW c \in Chunks
      PROVE  Room(c) < IF elem = 0 THEN size ELSE elem
  <2>0. handler \in Chunks /\ IInv'
    BY <1>1, NextInv DEF IInv, ChunksInv
  <2>1. CASE Grow
    <3>1. PICK A \in SUBSET Chunks, V \in SUBSET Chunks :
              /\ Lists(Chunks, next, prev, A, full_head, FullChunks)
              /\ Scan(A, V)
      BY <1>1, <2>1 DEF IInv, ChunksInv, Grow
    <3>2. V \cup A = Chunks
      <4>1. Walk(Chunks, next, V, Null)
        BY <2>1, <3>1 DEF Scan, Grow
      <4>2. Null \notin Chunks /\ handler # Null
        BY <1>1, <2>0, Links DEF IInv
      <4> QED
        BY <3>1, <4>1, <4>2, EndOfWalk
    <3>3. elem = 0 /\ size \in Nat \ {0}
      BY <1>1, <2>1 DEF IInv, KindInv, Grow
    <3>4. CASE c \in V
      BY <3>1, <3>3, <3>4 DEF Scan
    <3>5. CASE c \in A
      <4>1. Room(c) <= 0
        BY <3>1, <3>5 DEF Lists, FullChunks, Full, MIN_MARGIN
      <4>2. Room(c) \in Int
        BY <1>1 DEF IInv, TypeOK, Room
      <4> QED
        BY <3>3, <4>1, <4>2
    <3> QED
      BY <3>2, <3>4, <3>5
  <2>2. CASE GrowConst
    <3>1. /\ elem # 0 /\ elem \in Nat /\ elem > Room(handler)
          /\ next[handler] # Null => elem > Room(next[handler])
      BY <1>1, <2>2 DEF IInv, TypeOK, GrowConst
    <3>2. \A d \in Chunks : d # Null
      BY <1>1, <2>0, Links DEF IInv
    <3> QED
      BY <1>1, <2>0, <3>1, <3>2 DEF IInv, KindInv
  <2>3. CASE Chunks' = Chunks
    <3>1. /\ Len(next) \in Nat /\ Chunks = 1 .. Len(next)
      BY <1>1, <2>0, Links DEF IInv
    <3>2. Len(next') \in Nat /\ Chunks' = 1 .. Len(next')
      BY <2>0, LenProperties DEF IInv, TypeOK, Chunks
    <3> QED
      BY <1>1, <2>3, <3>1, <3>2
  <2>4. Grow \/ GrowConst \/ Chunks' = Chunks
    BY <1>1 DEF Next, Malloc, Search, Fits, Stays, SetAside, SeekTail, Finish, HangBehind,
                FromFirstTwo, Delete, Free, Gone, vars, chunks, Chunks
  <2> QED
    BY <2>1, <2>2, <2>3, <2>4
<1>2. IInv /\ [Next]_vars =>
          [Len(next') > Len(next) =>
              \A c \in Chunks : Room(c) < IF elem = 0 THEN size ELSE elem]_vars
  BY <1>1
<1> QED
  BY <1>2, PoolInvariant, PTL DEF Spec, GrowsOnlyWhenFull
=============================================================================
