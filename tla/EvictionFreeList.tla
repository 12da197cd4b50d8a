--------------------------- MODULE EvictionFreeList ---------------------------
(***************************************************************************)
(* The blocks of vLLM's prefix cache under the eviction policies that      *)
(* patches/eviction adds.  A block nobody uses is in the free list, a      *)
(* doubly linked list between two fake nodes, and keeps its content until  *)
(* it is taken again.  "lru" takes blocks from the front, as vLLM does;    *)
(* "tdf" and "cf" take those of the lowest score from anywhere.            *)
(*                                                                         *)
(* A request starts by touching the longest cached prefix of its prompt,   *)
(* gets new blocks for the rest, and enters them in the cache; it frees    *)
(* its blocks in reverse order.  That part is vLLM's.  A prompt is a       *)
(* sequence of blocks' contents, and a block's hash is the prefix it ends. *)
(* TDF's decay is one half per tick of the clock, which starts at 1.         *)
(***************************************************************************)
EXTENDS Integers, FiniteSetsExt, SequencesExt, Collections

CONSTANTS
  Blocks, Requests,
  Prompts,            \* the prompts, in full blocks
  MaxHits, MaxTime    \* bounds of the counters

Policies == {"lru", "tdf", "cf"}
FakeHead == "head"
FakeTail == "tail"
None == "none"

ASSUME EvictionAssumption ==
  /\ IsFiniteSet(Blocks) /\ Blocks \cap {FakeHead, FakeTail, None} = {}
  /\ IsFiniteSet(Requests)
  /\ \A p \in Prompts : p \in Seq(ToSet(p)) /\ p # <<>>
  /\ MaxHits \in Nat /\ MaxTime \in Nat

VARIABLES
  policy,         \* EVICTION_POLICY
  next, prev,     \* the links of the free list, one function each
  numFree,        \* num_free_blocks
  ref,            \* ref_cnt
  hash,           \* block_hash, <<>> for none
  cached,         \* cached_block_hash_to_block: the blocks of a prefix, oldest first
  hits, stamp, depth,  \* hit_count, last_alloc_time, prefix_depth
  table,          \* the blocks of each request
  task,           \* what is left to do for the request that starts
  now

list == <<next, prev, numFree>>
scores == <<hits, stamp, depth>>
vars == <<policy, list, ref, hash, cached, scores, table, task, now>>

NoTask == [prompt |-> <<>>]
Hashes == UNION {{SubSeq(p, 1, k) : k \in 1..Len(p)} : p \in Prompts}
Nodes == Blocks \cup {FakeHead, FakeTail}

(* The list s, linked.                                                     *)
NextIn(s) ==
  LET t == <<FakeHead>> \o s \o <<FakeTail>>
  IN  [b \in Nodes |-> IF \E k \in 1..Len(t) - 1 : t[k] = b
                         THEN t[(CHOOSE k \in 1..Len(t) - 1 : t[k] = b) + 1] ELSE None]
PrevIn(s) ==
  LET t == <<FakeHead>> \o s \o <<FakeTail>>
  IN  [b \in Nodes |-> IF \E k \in 2..Len(t) : t[k] = b
                         THEN t[(CHOOSE k \in 2..Len(t) : t[k] = b) - 1] ELSE None]

Init ==
  /\ policy \in Policies
  /\ \E s \in SetToSeqs(Blocks) : next = NextIn(s) /\ prev = PrevIn(s)
  /\ numFree = Cardinality(Blocks)
  /\ ref = [b \in Blocks |-> 0]
  /\ hash = [b \in Blocks |-> <<>>]
  /\ cached = [k \in Hashes |-> <<>>]
  /\ hits = [b \in Blocks |-> 0] /\ stamp = [b \in Blocks |-> 0] /\ depth = [b \in Blocks |-> 0]
  /\ table = [r \in Requests |-> <<>>]
  /\ task = NoTask /\ now = 1

-----------------------------------------------------------------------------
(* The free list.                                                          *)

(* The k-th node after `start`, None beyond the end.                       *)
Walk(link, start) ==
  LET at[k \in 0..Cardinality(Nodes)] ==
        IF k = 0 THEN start ELSE IF at[k - 1] = None THEN None ELSE link[at[k - 1]]
  IN  at

(* The scan of pop_scored_n: as long as there is a node after this one.    *)
Scan ==
  LET at == Walk(next, next[FakeHead])
      here(k) == at[k] # None /\ next[at[k]] # None
  IN  SubSeq([k \in 1..Cardinality(Nodes) |-> at[k - 1]], 1,
             Cardinality({j \in DOMAIN at : here(j)}))

(* One block is unlinked.  links: next and prev.                           *)
Unlink(links, b) ==
  LET p == links[2][b]
      n == links[1][b]
  IN  <<[links[1] EXCEPT ![p] = n, ![b] = None], [links[2] EXCEPT ![n] = p, ![b] = None]>>

(* Mutant: the neighbours are those from before the first block was taken. *)
UnlinkedAtOnce(s) ==
  LET taken == ToSet(s)
  IN  <<[b \in Nodes |-> IF b \in taken THEN None
                         ELSE IF next[b] \in taken THEN next[next[b]] ELSE next[b]],
        [b \in Nodes |-> IF b \in taken THEN None
                         ELSE IF prev[b] \in taken THEN prev[prev[b]] ELSE prev[b]]>>

(* One after the other.                                                    *)
Unlinked(s) ==
  LET after[k \in 0..Len(s)] ==
        IF k = 0 THEN <<next, prev>> ELSE Unlink(after[k - 1], s[k])
  IN  after[Len(s)]

TakeOut(s) ==
  LET links == Unlinked(s)
  IN  next' = links[1] /\ prev' = links[2] /\ numFree' = numFree - Len(s)

(* append_n.                                                               *)
PutBack(s) ==
  LET t == Scan \o s
  IN  next' = NextIn(t) /\ prev' = PrevIn(t) /\ numFree' = numFree + Len(s)

(* Whether b's score is below c's.                                         *)
Below(b, c) ==
  IF policy = "cf"
    THEN (hits[b] + 1) * (depth[c] + 1) < (hits[c] + 1) * (depth[b] + 1)
    ELSE (hits[b] + 1) * 2 ^ stamp[b] < (hits[c] + 1) * 2 ^ stamp[c]

(* The n blocks that go: the first ones, or those of the lowest score, and *)
(* of equal scores the first.                                              *)
Selected(n) ==
  LET candidates == Scan
      earlier(i, j) == \/ Below(candidates[i], candidates[j])
                       \/ ~Below(candidates[j], candidates[i]) /\ i < j
      places == DOMAIN candidates
      ranked == Ranked([j \in places |-> {i \in places : earlier(i, j)}])
  IN  [k \in 1..n |-> IF policy = "lru" THEN candidates[k] ELSE candidates[ranked[k]]]

-----------------------------------------------------------------------------
(* A request starts.                                                       *)

Free == {b \in Blocks : ref[b] = 0}

(* How many blocks of the prompt are cached; its last one is computed      *)
(* again in any case.                                                      *)
Hit(p) ==
  Max({k \in 0..Len(p) - 1 : \A j \in 1..k : cached[SubSeq(p, 1, j)] # <<>>})

(* touch, when there are blocks enough for the rest of the prompt and for  *)
(* `extra` ones that are not cached.                                       *)
Touch(r, p, extra) ==
  LET blocks == [k \in 1..Hit(p) |-> cached[SubSeq(p, 1, k)][1]]
      n == Len(p) - Hit(p) + extra
  IN  /\ task = NoTask /\ table[r] = <<>>
      /\ n + Len(Only(blocks, Free)) <= numFree
      /\ \A b \in ToSet(blocks) : hits[b] < MaxHits
      /\ TakeOut(Only(blocks, Free))
      /\ ref' = [b \in Blocks |-> IF b \in ToSet(blocks) THEN ref[b] + 1 ELSE ref[b]]
      /\ hits' = [b \in Blocks |-> IF b \in ToSet(blocks) THEN hits[b] + 1 ELSE hits[b]]
      /\ table' = [table EXCEPT ![r] = blocks]
      /\ task' = [prompt |-> p, request |-> r, new |-> n, hit |-> Hit(p)]
      /\ UNCHANGED <<policy, hash, cached, stamp, depth, now>>

(* Mutant: the hits of the evicted content are kept.                       *)
ResetKeepingHits(taken) ==
  /\ hits' = hits
  /\ stamp' = [b \in Blocks |-> IF b \in taken THEN 0 ELSE stamp[b]]
  /\ depth' = [b \in Blocks |-> IF b \in taken THEN 0 ELSE depth[b]]

(* _maybe_evict_cached_block.                                              *)
Reset(taken) ==
  /\ hits' = [b \in Blocks |-> IF b \in taken THEN 0 ELSE hits[b]]
  /\ stamp' = [b \in Blocks |-> IF b \in taken THEN 0 ELSE stamp[b]]
  /\ depth' = [b \in Blocks |-> IF b \in taken THEN 0 ELSE depth[b]]

(* get_new_blocks; content that was cached in a taken block is evicted.    *)
GetNewBlocks ==
  /\ task # NoTask /\ task.new > 0
  /\ LET s == Selected(task.new)
         evicted == {b \in ToSet(s) : hash[b] # <<>>}
     IN  /\ TakeOut(s)
         /\ ref' = [b \in Blocks |-> IF b \in ToSet(s) THEN ref[b] + 1 ELSE ref[b]]
         /\ cached' = [k \in Hashes |-> Only(cached[k], Blocks \ evicted)]
         /\ hash' = [b \in Blocks |-> IF b \in evicted THEN <<>> ELSE hash[b]]
         /\ Reset(evicted)
         /\ table' = [table EXCEPT ![task.request] = @ \o s]
  /\ task' = [task EXCEPT !.new = 0]
  /\ UNCHANGED <<policy, now>>

(* cache_full_blocks: the new full blocks enter the cache.                 *)
CacheFullBlocks ==
  /\ task # NoTask /\ task.new = 0
  /\ LET p == task.prompt
         place(b) == CHOOSE k \in task.hit + 1..Len(p) : table[task.request][k] = b
         entered == {table[task.request][k] : k \in task.hit + 1..Len(p)}
     IN  /\ hash' = [b \in Blocks |-> IF b \in entered THEN SubSeq(p, 1, place(b)) ELSE hash[b]]
         /\ stamp' = [b \in Blocks |-> IF b \in entered THEN now ELSE stamp[b]]
         /\ depth' = [b \in Blocks |-> IF b \in entered THEN place(b) - 1 ELSE depth[b]]
         /\ cached' = [k \in Hashes |->
              cached[k] \o SetToSeq({b \in entered : SubSeq(p, 1, place(b)) = k})]
  /\ task' = NoTask
  /\ UNCHANGED <<policy, list, ref, hits, table, now>>

(* The request ends: its blocks are freed, the last one first.             *)
FreeBlocks(r) ==
  /\ task = NoTask /\ table[r] # <<>>
  /\ ref' = [b \in Blocks |-> IF b \in ToSet(table[r]) THEN ref[b] - 1 ELSE ref[b]]
  /\ PutBack(Only(Reverse(table[r]), {b \in Blocks : ref[b] = 1}))
  /\ table' = [table EXCEPT ![r] = <<>>]
  /\ UNCHANGED <<policy, hash, cached, scores, task, now>>

(* The other policies never read the clock.                                *)
Tick ==
  /\ policy = "tdf" /\ task = NoTask /\ now < MaxTime /\ now' = now + 1
  /\ UNCHANGED <<policy, list, ref, hash, cached, scores, table, task>>

Next ==
  \/ \E r \in Requests, p \in Prompts, extra \in 0..1 : Touch(r, p, extra)
  \/ GetNewBlocks \/ CacheFullBlocks
  \/ \E r \in Requests : FreeBlocks(r)
  \/ Tick

Spec == Init /\ [][Next]_vars

-----------------------------------------------------------------------------
(* Properties.                                                             *)

(* Whatever was taken from the middle of it, the list read from the front  *)
(* and from the back holds the same blocks, each once: those that no       *)
(* request uses; num_free_blocks counts them.                              *)
ListIsPool ==
  LET unused == Free
      n == Cardinality(unused)
      forth == Walk(next, FakeHead)
      back == Walk(prev, FakeTail)
  IN  /\ numFree = n
      /\ {forth[k] : k \in 1..n} = unused
      /\ \A k \in 0..n + 1 : back[k] = forth[n + 1 - k]

(* Under lru and cf a prefix is not evicted before what continues it, so   *)
(* that no cached block is out of reach (kv_cache_utils.patch: "evicting a *)
(* shallow block invalidates all blocks chained after it").  Under tdf it  *)
(* may be.                                                                 *)
ChainsKeptFromTheRoot ==
  (policy # "tdf" /\ task = NoTask) =>
    \A k \in Hashes :
      cached[k] # <<>> /\ Len(k) > 1 => cached[SubSeq(k, 1, Len(k) - 1)] # <<>>
=============================================================================
