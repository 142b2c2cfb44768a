------------------------------- MODULE MemPool -------------------------------
(***************************************************************************)
(* A memory pool: a doubly linked list of chunks.  smpoolMalloc takes the  *)
(* first chunk with room, and on its way sets aside the chunks that are    *)
(* full and hangs them behind the one it took from.  smpoolMallocConstSize *)
(* looks at the first two chunks only.  The statements of the loops are    *)
(* steps, because the links are wrong between them.  A chunk is named by   *)
(* its order of creation, the handler is chunk 1.                          *)
(***************************************************************************)
EXTENDS Naturals, Sequences, FiniteSets

CONSTANTS
    PoolSizes,  \* sizes a pool is created with
    Requests,   \* sizes asked of a MEM_COMM pool
    GrowSizes,  \* third argument of smpoolMalloc, 0 when it is left out
    ElemSizes,  \* element sizes of MEM_CONST_SIZE pools
    MaxChunks,  \* bound on the number of chunks
    MaxBytes    \* no request once this many bytes have been handed out

ASSUME PoolAssumption ==
    /\ PoolSizes \subseteq Nat \ {0} /\ Requests \subseteq Nat \ {0}
    /\ GrowSizes \subseteq Nat /\ ElemSizes \subseteq Nat \ {0}
    /\ MaxChunks \in Nat /\ MaxBytes \in Nat

Null == 0
handler == 1
MIN_MARGIN == 0

VARIABLES
    elem,       \* the element size of a MEM_CONST_SIZE pool, 0 for MEM_COMM
    next, prev, pool_size, start_pos,   \* per chunk
    grow_size,  \* of the handler, the only one that is read
    used,       \* the bytes handed out by earlier requests
    block,      \* the bytes handed out by the last one
    pc,         \* "idle", "scan", "fin", or "free" and "gone" in smpoolDelete
    size, grow, \* the arguments of the request under way
    cur,        \* tmp_rest: the chunk looked at, or to take from, or to free
    last,       \* the last chunk that stays in the list
    full_head,  \* the chunks set aside
    tail,       \* append_after_smp: the end of those
    freed       \* the chunks given back by smpoolDelete

chunks == <<next, prev, pool_size, start_pos, grow_size>>
answers == <<used, block>>
scanning == <<size, grow, cur, last, full_head, tail>>
vars == <<elem, chunks, answers, pc, scanning, freed>>

Chunks == DOMAIN next
Room(c) == pool_size[c] - start_pos[c]
Larger(a, b) == IF a > b THEN a ELSE b

Init ==
    /\ \E s \in PoolSizes :
          /\ elem \in {0} \cup {e \in ElemSizes : s % e = 0}
          /\ pool_size = <<s>> /\ grow_size = s
    /\ next = <<Null>> /\ prev = <<Null>> /\ start_pos = <<0>>
    /\ used = {} /\ block = {}
    /\ pc = "idle" /\ size = 0 /\ grow = 0 /\ cur = Null
    /\ last = Null /\ full_head = Null /\ tail = Null
    /\ freed = {}

\* The bytes at the start position of chunk c are the answer to a request for n.
Take(c, n, pos) ==
    /\ start_pos' = [pos EXCEPT ![c] = @ + n]
    /\ used' = used \cup block
    /\ block' = {<<c, o>> : o \in pos[c] .. pos[c] + n - 1}

-----------------------------------------------------------------------------
(* smpoolMalloc *)

\* The bounds leave room for an answer to a request for n.
Bounded(n) ==
    /\ Len(next) < MaxChunks \/ \E c \in Chunks : n <= Room(c)
    /\ Cardinality(used) < MaxBytes

Malloc(n, g) ==
    /\ pc = "idle" /\ elem = 0 /\ Bounded(n)
    /\ pc' = "scan" /\ size' = n /\ grow' = g
    /\ cur' = handler /\ last' = Null /\ full_head' = Null /\ tail' = Null
    /\ UNCHANGED <<elem, chunks, answers, freed>>

\* The chunk has room.
Fits ==
    /\ pc = "scan" /\ cur # Null /\ size <= Room(cur)
    /\ pc' = "fin" /\ tail' = full_head
    /\ UNCHANGED <<elem, chunks, answers, size, grow, cur, last, full_head, freed>>

Full(c) == Room(c) <= MIN_MARGIN /\ c # handler

\* It has not, but may serve smaller requests.
Stays ==
    /\ pc = "scan" /\ cur # Null /\ size > Room(cur) /\ ~Full(cur)
    /\ last' = cur /\ cur' = next[cur]
    /\ UNCHANGED <<elem, chunks, answers, pc, size, grow, full_head, tail, freed>>

\* mutant: a chunk set aside keeps its next
SetAsideLinked ==
    /\ pc = "scan" /\ cur # Null /\ size > Room(cur) /\ Full(cur)
    /\ prev[cur] # Null
    /\ next' = [c \in Chunks |-> IF c = prev[cur] THEN next[cur] ELSE next[c]]
    /\ prev' = [c \in Chunks |-> IF c = cur THEN Null
                                 ELSE IF c = next[cur] THEN prev[cur] ELSE prev[c]]
    /\ full_head' = cur /\ cur' = next[cur]
    /\ UNCHANGED <<elem, pool_size, start_pos, grow_size, answers, pc, size,
                   grow, last, tail, freed>>

\* mutant: the next chunk keeps its back link
SetAsideOneWay ==
    /\ pc = "scan" /\ cur # Null /\ size > Room(cur) /\ Full(cur)
    /\ prev[cur] # Null
    /\ next' = [c \in Chunks |-> IF c = cur THEN full_head
                                 ELSE IF c = prev[cur] THEN next[cur] ELSE next[c]]
    /\ prev' = [prev EXCEPT ![cur] = Null]
    /\ full_head' = cur /\ cur' = next[cur]
    /\ UNCHANGED <<elem, pool_size, start_pos, grow_size, answers, pc, size,
                   grow, last, tail, freed>>

\* It is full: remove_smp takes it out, append_head_smp puts it in front of
\* those set aside before.
SetAside ==
    /\ pc = "scan" /\ cur # Null /\ size > Room(cur) /\ Full(cur)
    /\ prev[cur] # Null
    /\ next' = [c \in Chunks |-> IF c = cur THEN full_head
                                 ELSE IF c = prev[cur] THEN next[cur] ELSE next[c]]
    /\ prev' = [c \in Chunks |-> IF c = cur THEN Null
                                 ELSE IF c = next[cur] THEN prev[cur] ELSE prev[c]]
    /\ full_head' = cur /\ cur' = next[cur]
    /\ UNCHANGED <<elem, pool_size, start_pos, grow_size, answers, pc, size,
                   grow, last, tail, freed>>

NewChunk(n, before, after) ==
    /\ pool_size' = Append(pool_size, n)
    /\ next' = Append([next EXCEPT ![before] = Len(next) + 1], after)
    /\ prev' = Append([c \in Chunks |-> IF c = after THEN Len(next) + 1
                                        ELSE prev[c]], before)

GrowBy == IF grow = 0 THEN grow_size * 4 ELSE grow

ChunkForGrow(n, g) == g   \* mutant: whatever is asked for
ChunkFor(n, g) == IF n > g THEN (n \div g + 1) * g ELSE g

\* No chunk has room: a new one goes to the end of the list.
Grow ==
    /\ pc = "scan" /\ cur = Null
    /\ last # Null /\ next[last] = Null
    /\ NewChunk(ChunkFor(size, GrowBy), last, Null)
    /\ start_pos' = Append(start_pos, 0)
    /\ grow_size' = IF grow = 0 THEN grow_size * 4 ELSE grow_size
    /\ cur' = Len(next) + 1 /\ tail' = full_head /\ pc' = "fin"
    /\ UNCHANGED <<elem, answers, size, grow, last, full_head, freed>>

\* append_after_smp looks for the end of the chunks set aside only if others
\* follow the one it hangs them behind.
Joins == full_head # Null /\ next[cur] # Null

SeekTail ==
    /\ pc = "fin" /\ Joins /\ next[tail] # Null
    /\ tail' = next[tail]
    /\ UNCHANGED <<elem, chunks, answers, pc, size, grow, cur, last, full_head, freed>>

\* mutant: the chunks behind are not looked for
HangBehindLast ==
    /\ next' = [c \in Chunks |-> IF c = cur /\ full_head # Null THEN full_head ELSE next[c]]
    /\ prev' = [c \in Chunks |-> IF c = full_head THEN cur ELSE prev[c]]
HangBehind ==
    /\ next' = [c \in Chunks |-> IF c = cur /\ full_head # Null THEN full_head
                                 ELSE IF Joins /\ c = tail THEN next[cur] ELSE next[c]]
    /\ prev' = [c \in Chunks |-> IF c = full_head THEN cur
                                 ELSE IF Joins /\ c = next[cur] THEN tail ELSE prev[c]]

Finish ==
    /\ pc = "fin" /\ (Joins => next[tail] = Null)
    /\ HangBehind
    /\ Take(cur, size, start_pos)
    /\ pc' = "idle" /\ size' = 0 /\ grow' = 0 /\ cur' = Null
    /\ last' = Null /\ full_head' = Null /\ tail' = Null
    /\ UNCHANGED <<elem, pool_size, grow_size, freed>>

-----------------------------------------------------------------------------
(* smpoolMallocConstSize *)

\* The handler, or else the chunk behind it, has room.
FromFirstTwo ==
    /\ pc = "idle" /\ elem # 0 /\ Bounded(elem)
    /\ LET rest == next[handler]
           c == IF elem <= Room(handler) THEN handler ELSE rest
       IN  /\ c # Null /\ elem <= Room(c)
           /\ Take(c, elem, start_pos)
    /\ UNCHANGED <<elem, next, prev, pool_size, grow_size, pc, scanning, freed>>

\* mutant: the chunk behind the handler is not asked
GrowConstAtOnce ==
    /\ pc = "idle" /\ elem # 0 /\ Bounded(elem) /\ Len(next) < MaxChunks
    /\ elem > Room(handler)
    /\ grow_size' = Larger(elem * 4, grow_size * 4)
    /\ NewChunk(grow_size', handler, next[handler])
    /\ Take(Len(next) + 1, elem, Append(start_pos, 0))
    /\ UNCHANGED <<elem, pc, scanning, freed>>

\* Neither has: a new chunk goes between them.
GrowConst ==
    /\ pc = "idle" /\ elem # 0 /\ Bounded(elem) /\ Len(next) < MaxChunks
    /\ elem > Room(handler)
    /\ next[handler] # Null => elem > Room(next[handler])
    /\ grow_size' = Larger(elem * 4, grow_size * 4)
    /\ NewChunk(grow_size', handler, next[handler])
    /\ Take(Len(next) + 1, elem, Append(start_pos, 0))
    /\ UNCHANGED <<elem, pc, scanning, freed>>

-----------------------------------------------------------------------------
(* smpoolDelete *)

Delete ==
    /\ pc = "idle" /\ pc' = "free" /\ cur' = handler
    /\ UNCHANGED <<elem, chunks, answers, size, grow, last, full_head, tail, freed>>

Free ==
    /\ pc = "free"
    /\ IF cur = Null
       THEN pc' = "gone" /\ UNCHANGED <<cur, freed>>
       ELSE freed' = freed \cup {cur} /\ cur' = next[cur] /\ UNCHANGED pc
    /\ UNCHANGED <<elem, chunks, answers, size, grow, last, full_head, tail>>

Gone == pc = "gone" /\ UNCHANGED vars

Search == Fits \/ Stays \/ SetAside \/ Grow \/ SeekTail \/ Finish

Next ==
    \/ \E n \in Requests, g \in GrowSizes : Malloc(n, g)
    \/ Search
    \/ FromFirstTwo \/ GrowConst
    \/ Delete \/ Free \/ Gone

\* One thread runs a call to its end.
Spec == Init /\ [][Next]_vars /\ WF_vars(Search \/ Free)

-----------------------------------------------------------------------------
\* Every variable keeps its type (SMemPool).
TypeOK ==
    /\ elem \in {0} \cup ElemSizes
    /\ next \in Seq(Nat) /\ prev \in [Chunks -> {Null} \cup Chunks]
    /\ \A c \in Chunks : next[c] \in {Null} \cup Chunks
    /\ pool_size \in [Chunks -> Nat \ {0}] /\ start_pos \in [Chunks -> Nat]
    /\ \A c \in Chunks : start_pos[c] <= pool_size[c]
    /\ grow_size \in Nat \ {0}
    /\ pc \in {"idle", "scan", "fin", "free", "gone"}
    /\ size \in {0} \cup Requests /\ grow \in {0} \cup GrowSizes
    /\ {cur, last, full_head, tail} \subseteq {Null} \cup Chunks
    /\ used \subseteq Chunks \X Nat /\ block \subseteq Chunks \X Nat
    /\ freed \subseteq Chunks

\* No byte is handed out twice or lies outside its chunk (smpoolMalloc,
\* smpoolMallocConstSize), however the chunks have been moved around.
BlocksApart ==
    /\ block \cap used = {}
    /\ \A b \in block : b[2] < pool_size[b[1]]

\* The chunk that remove_smp takes out knows its predecessor ("t should not be
\* first"), although append_head_smp leaves the back links of the chunks set
\* aside before it empty.
UnlinksCleanly ==
    pc = "scan" /\ cur # Null /\ Full(cur)
        => prev[cur] # Null /\ next[prev[cur]] = cur

\* smpoolDelete gives every chunk back, and none twice: no request has lost a
\* chunk or closed the list to a ring.
FreedOnce ==
    /\ pc = "free" => cur \notin freed
    /\ pc = "gone" => freed = Chunks

\* A pool grows only if no chunk has room for the request: the chunks a search
\* does not look at (all but two of a MEM_CONST_SIZE pool, those behind the one
\* a MEM_COMM pool takes from) are never the ones with room.
GrowsOnlyWhenFull ==
    [][Len(next') > Len(next) =>
          \A c \in Chunks : Room(c) < IF elem = 0 THEN size ELSE elem]_vars

\* A request is answered and a deletion ends (the loops over the links).
CallsReturn == pc \in {"scan", "fin", "free"} ~> pc \in {"idle", "gone"}
=============================================================================
