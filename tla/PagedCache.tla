----------------------------- MODULE PagedCache -----------------------------
(***************************************************************************)
(* The paged tier: PagedCacheManager (vllm_mlx/paged_cache.py) and the     *)
(* BlockAwarePrefixCache over it (vllm_mlx/prefix_cache.py).  KV states    *)
(* are cut into blocks that requests share by reference count; a block     *)
(* nobody references waits in the free queue, with its content, until it   *)
(* is handed out again.  PromptCache has the calls.                        *)
(*                                                                         *)
(* The chain hashes (block_hash, cached_block_hash_to_block) are left out: *)
(* nothing under src calls cache_full_blocks, which alone sets them, so    *)
(* _maybe_evict_cached_block never evicts.  What is used is hash_to_block, *)
(* whose hash is of the tokens of one block and not of those before it.    *)
(***************************************************************************)
EXTENDS Integers, Sequences, FiniteSets, SequencesExt, Functions

CONSTANTS
  Reqs,        \* requests
  Blocks,      \* the blocks but the null block
  BlockSize,   \* block_size
  Window       \* candidates popleft_lfu looks at

ASSUME PagedAssumption ==
  IsFiniteSet(Blocks) /\ BlockSize \in Nat \ {0} /\ Window \in Nat \ {0}

VARIABLES
  ref,       \* CacheBlock.ref_count
  fixed,     \* the blocks with is_pinned
  data,      \* CacheBlock.cache_data: rows
  filled,    \* CacheBlock.token_count
  alloc,     \* allocated_blocks, the null block left out
  queue,     \* free_block_queue, LRU first
  hashTo,    \* hash_to_block: the tokens of a block to its id
  pindex,    \* _prefix_index: tokens to block ids
  tables,    \* PagedCacheManager.request_tables
  entries    \* BlockAwarePrefixCache._request_tables

pagedVars == <<ref, fixed, data, filled, alloc, queue, hashTo, pindex, tables, entries>>

Table(ids, n) == [ids |-> ids, num |-> n]   \* BlockTable
HasTable(r)   == r \in DOMAIN tables

\* f with v at x
With(f, x, v) == [y \in DOMAIN f \cup {x} |-> IF y = x THEN v ELSE f[y]]

Occurrences(ids, b) == Cardinality({i \in DOMAIN ids : ids[i] = b})

\* PagedCacheManager.__init__ and clear(): new blocks, in any order alike.
PagedFresh(order) ==
  /\ ref' = [b \in Blocks |-> 0] /\ fixed' = {} /\ data' = [b \in Blocks |-> <<>>]
  /\ filled' = [b \in Blocks |-> 0] /\ alloc' = {} /\ queue' = order
  /\ hashTo' = <<>> /\ pindex' = <<>> /\ tables' = <<>> /\ entries' = {}

BlockOrder == SetToSeq(Blocks)

PagedInit ==
  /\ ref = [b \in Blocks |-> 0] /\ fixed = {} /\ data = [b \in Blocks |-> <<>>]
  /\ filled = [b \in Blocks |-> 0] /\ alloc = {} /\ queue = BlockOrder
  /\ hashTo = <<>> /\ pindex = <<>> /\ tables = <<>> /\ entries = {}

PagedClear == PagedFresh(BlockOrder)

\* find_cached_block: whatever block the hash maps to, if it is allocated.
CachedBlock(chunk) == IF chunk \in DOMAIN hashTo /\ hashTo[chunk] \in alloc
                      THEN {hashTo[chunk]} ELSE {}

Chunk(t, i) == SubSeq(t, (i - 1) * BlockSize + 1, i * BlockSize)

\* find_shared_prefix: the cached blocks of t up to the first that is not.
SharedPrefix(t) ==
  LET n == CHOOSE i \in 0..(Len(t) \div BlockSize) :
             /\ \A j \in 1..i : CachedBlock(Chunk(t, j)) # {}
             /\ i < Len(t) \div BlockSize => CachedBlock(Chunk(t, i + 1)) = {}
  IN [i \in 1..n |-> hashTo[Chunk(t, i)]]

\* _find_best_prefix_match: the longest indexed prefix of whole blocks, if any.
BestMatch(t) ==
  LET known == {p \in DOMAIN pindex : p # <<>> /\ Len(p) % BlockSize = 0 /\ IsPrefix(p, t)}
  IN {p \in known : \A q \in known : Len(q) <= Len(p)}

\* reconstruct_cache: the rows of the blocks one after the other; nothing if a
\* block has none.
Reconstructed(ids) ==
  IF \E i \in DOMAIN ids : data[ids[i]] = <<>> THEN <<>>
  ELSE FlattenSeq([i \in DOMAIN ids |-> data[ids[i]]])

\* The blocks of ids that are allocated, in their order (SelectSeq, as a function:
\* there are proofs about it).
Live(ids) ==
  LET live[n \in 0..Len(ids)] ==
        IF n = 0 THEN <<>>
        ELSE IF ids[n] \in alloc THEN Append(live[n - 1], ids[n]) ELSE live[n - 1]
  IN live[Len(ids)]

\* The token counts of the blocks of ids, summed up.
TokenCount(ids) ==
  LET sum[n \in 0..Len(ids)] == IF n = 0 THEN 0 ELSE sum[n - 1] + filled[ids[n]]
  IN sum[Len(ids)]

\* fetch_cache, and the reconstruction add_request asks for: which blocks the
\* request's table gets, and which tokens remain.  A table of no tokens is a miss.
PagedServes(t) ==
  LET shared == SharedPrefix(t)
      match  == BestMatch(t)
      hit(ids, n) ==
        LET live == Live(ids)
            kv   == Reconstructed(live)
        IN [found |-> TRUE, table |-> Table(live, TokenCount(live)), kv |-> kv,
            rest  |-> IF kv # <<>> THEN SubSeq(t, n + 1, Len(t)) ELSE t]
  IN IF shared # <<>> THEN hit(shared, Len(shared) * BlockSize)
     ELSE IF match # {} THEN LET p == CHOOSE q \in match : TRUE IN hit(pindex[p], Len(p))
     ELSE [found |-> FALSE, table |-> Table(<<>>, 0), kv |-> <<>>, rest |-> t]

\* increment_ref for every block of the list
Referenced(ids) == [b \in Blocks |-> ref[b] + Occurrences(ids, b)]

PagedFetch(r, served) ==
  /\ ref' = Referenced(served.table.ids)
  /\ tables' = IF served.found THEN With(tables, r, served.table) ELSE tables
  /\ UNCHANGED <<fixed, data, filled, alloc, queue, hashTo, pindex, entries>>

\* (mutant) the scan does not skip pinned blocks
AnyFree == {queue[i] : i \in 1..(IF Len(queue) < Window THEN Len(queue) ELSE Window)}

\* popleft_lfu: a block among the first Window that are not pinned (which one
\* depends on access counts that are not modelled).  None: it raises.
Candidates ==
  LET free == {i \in DOMAIN queue : queue[i] \notin fixed}
  IN {queue[i] : i \in {j \in free : Cardinality(free \cap 1..j) <= Window}}

\* (mutant) a token too many
NextTokensOver(r, t) ==
  SubSeq(t, tables[r].num + 1,
         IF tables[r].num + BlockSize < Len(t) THEN tables[r].num + BlockSize + 1 ELSE Len(t))

\* What store_cache stores next for r: the tokens of one block.
NextTokens(r, t) ==
  SubSeq(t, tables[r].num + 1,
         IF tables[r].num + BlockSize < Len(t) THEN tables[r].num + BlockSize ELSE Len(t))

Extended(r, b, n) == Table(Append(tables[r].ids, b), tables[r].num + n)

\* store_cache finds the table of r or makes one.
StoreTable(r) ==
  /\ tables' = IF HasTable(r) THEN tables ELSE With(tables, r, Table(<<>>, 0))
  /\ UNCHANGED <<ref, fixed, data, filled, alloc, queue, hashTo, pindex, entries>>

\* One turn of its loop: a full block that is cached already is shared ...
StoreShared(r, t) ==
  LET chunk == NextTokens(r, t)
  IN /\ Len(chunk) = BlockSize
     /\ \E b \in CachedBlock(chunk) :
          /\ ref' = [ref EXCEPT ![b] = @ + 1]
          /\ tables' = [tables EXCEPT ![r] = Extended(r, b, BlockSize)]
     /\ UNCHANGED <<fixed, data, filled, alloc, queue, hashTo, pindex, entries>>

NeedsBlock(r, t) ==
  /\ NextTokens(r, t) # <<>>
  /\ Len(NextTokens(r, t)) = BlockSize => CachedBlock(NextTokens(r, t)) = {}

\* ... and any other is allocated.  A block without rows of its own keeps what
\* the last owner left in it; a full one is registered under its hash.
StoreNew(r, t, kv) ==
  LET chunk == NextTokens(r, t)
      first == tables[r].num + 1
      slice == SubSeq(kv, first, IF first + Len(chunk) - 1 < Len(kv)
                                 THEN first + Len(chunk) - 1 ELSE Len(kv))
  IN /\ NeedsBlock(r, t)
     /\ \E b \in Candidates :
          /\ queue' = RemoveFirst(queue, b)
          /\ alloc' = alloc \cup {b}
          /\ ref' = [ref EXCEPT ![b] = 1]
          /\ filled' = [filled EXCEPT ![b] = Len(chunk)]
          /\ data' = [data EXCEPT ![b] = IF slice = <<>> THEN @ ELSE slice]
          /\ hashTo' = IF Len(chunk) = BlockSize THEN With(hashTo, chunk, b) ELSE hashTo
          /\ tables' = [tables EXCEPT ![r] = Extended(r, b, Len(chunk))]
     /\ UNCHANGED <<fixed, pindex, entries>>

\* The loop has stored everything, or the queue is empty: then
\* handle_memory_pressure(1) has nothing to evict and the loop breaks.
StoreStops(r, t) ==
  \/ NextTokens(r, t) = <<>>
  \/ NeedsBlock(r, t) /\ queue = <<>>

\* _update_prefix_index and the entry of the request: every prefix that ends a
\* block is indexed, the last block that ends it being the one that counts.
StoreDone(r, t) ==
  LET ids == tables[r].ids
      end(i)  == IF i * BlockSize < Len(t) THEN i * BlockSize ELSE Len(t)
      ends(p) == {i \in DOMAIN ids : SubSeq(t, 1, end(i)) = p}
      new     == {SubSeq(t, 1, end(i)) : i \in DOMAIN ids}
  IN /\ pindex' = [p \in DOMAIN pindex \cup new |->
                     IF p \in new THEN SubSeq(ids, 1, Max(ends(p))) ELSE pindex[p]]
     /\ entries' = entries \cup {r}
     /\ UNCHANGED <<ref, fixed, data, filled, alloc, queue, hashTo, tables>>

\* Every free block is pinned: popleft_lfu raises out of store_cache.
StoreRaises(r, t) == NeedsBlock(r, t) /\ queue # <<>> /\ Candidates = {}

\* (mutant) free_block frees a block that one request still references
FreedEarly(ids) == {b \in alloc \cap ToSet(ids) : ref[b] <= Occurrences(ids, b) + 1}

\* free_block for each of ids takes one from the count of its block, if that is
\* allocated, and frees the block when none is left.
Freed(ids) == {b \in alloc \cap ToSet(ids) : ref[b] <= Occurrences(ids, b)}

\* The blocks that are freed, in the order of their last places in ids.
LastPlace(ids, b) == Max({i \in DOMAIN ids : ids[i] = b})
FreeOrder(ids) == {s \in SetToSeqs(Freed(ids)) : \A i, j \in DOMAIN s :
                     i < j => LastPlace(ids, s[i]) < LastPlace(ids, s[j])}

\* release_cache: only of a request store_cache has made an entry for.
PagedRelease(r) ==
  LET ids == IF HasTable(r) THEN tables[r].ids ELSE <<>>
  IN /\ r \in entries
     /\ entries' = entries \ {r}
     /\ tables' = Restrict(tables, DOMAIN tables \ {r})
     /\ ref' = [b \in Blocks |-> IF b \in Freed(ids) THEN 0
                                 ELSE IF b \in alloc THEN ref[b] - Occurrences(ids, b)
                                 ELSE ref[b]]
     /\ alloc' = alloc \ Freed(ids)
     /\ \E s \in FreeOrder(ids) : queue' = queue \o s
     /\ UNCHANGED <<fixed, data, filled, hashTo, pindex>>

\* (mutant) the blocks shared are not counted
ForkUncounted(r, n) ==
  /\ r \in entries
  /\ tables' = With(tables, n, tables[r])
  /\ entries' = entries \cup {n}
  /\ UNCHANGED <<ref, fixed, data, filled, alloc, queue, hashTo, pindex>>

\* fork_cache: n shares the blocks of r.
PagedFork(r, n) ==
  /\ r \in entries
  /\ ref' = [b \in Blocks |-> IF b \in alloc THEN ref[b] + Occurrences(tables[r].ids, b)
                                             ELSE ref[b]]
  /\ tables' = With(tables, n, tables[r])
  /\ entries' = entries \cup {n}
  /\ UNCHANGED <<fixed, data, filled, alloc, queue, hashTo, pindex>>

\* get_cache_for_generation (get_blocks_for_generation, _cow_copy_block) at
\* position i of the table: a shared block is replaced by a copy, if there is a
\* free one to copy it to.
MustCopy(r, i) == tables[r].ids[i] \in alloc /\ ref[tables[r].ids[i]] > 1 /\ queue # <<>>

CopyBlock(r, i) ==
  LET old == tables[r].ids[i]
  IN /\ MustCopy(r, i)
     /\ \E b \in Candidates :
          /\ queue' = RemoveFirst(queue, b)
          /\ alloc' = alloc \cup {b}
          /\ ref' = [ref EXCEPT ![b] = 1, ![old] = @ - 1]
          /\ filled' = [filled EXCEPT ![b] = filled[old]]
          /\ data' = [data EXCEPT ![b] = data[old]]
          /\ tables' = [tables EXCEPT ![r].ids[i] = b]
     /\ UNCHANGED <<fixed, hashTo, pindex, entries>>

\* pin_prefix: the shared prefix, or if that pins nothing new the best match.
Pins(t) ==
  LET new(ids) == (ToSet(ids) \cap alloc) \ fixed
      shared   == new(SharedPrefix(t))
  IN IF shared # {} THEN shared
     ELSE UNION {new(pindex[p]) : p \in BestMatch(t)}

PagedPin(t) ==
  /\ Pins(t) # {}
  /\ fixed' = fixed \cup Pins(t)
  /\ UNCHANGED <<ref, data, filled, alloc, queue, hashTo, pindex, tables, entries>>

\* unpin_prefix: free blocks are unpinned too.
Unpins(t) == IF SharedPrefix(t) # <<>> THEN ToSet(SharedPrefix(t))
             ELSE UNION {ToSet(pindex[p]) : p \in BestMatch(t)}

PagedUnpin(t) ==
  /\ Unpins(t) \cap fixed # {}
  /\ fixed' = fixed \ Unpins(t)
  /\ UNCHANGED <<ref, data, filled, alloc, queue, hashTo, pindex, tables, entries>>
=============================================================================
