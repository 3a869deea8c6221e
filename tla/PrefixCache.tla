---------------------------- MODULE PrefixCache ----------------------------
(***************************************************************************)
(* PrefixCacheManager (vllm_mlx/prefix_cache.py): KV states in a trie      *)
(* keyed by the tokens they were computed from, with an LRU list, a cap on *)
(* entries and one on bytes.  The operations are called by the scheduler,  *)
(* on its worker: PromptCache has the calls.                               *)
(*                                                                         *)
(* A KV state is the sequence of its rows.  A row depends on every token   *)
(* before it, so it is written as the tokens it was computed from, its own *)
(* last; the bytes of a state are its rows.                                *)
(***************************************************************************)
EXTENDS Integers, Sequences, FiniteSets, SequencesExt, Functions

CONSTANTS
  MaxEntries,  \* max_size
  MaxBytes,    \* max_bytes, in rows
  Trimmable    \* _can_trim_cache: every layer can drop its last rows

ASSUME PrefixAssumption ==
  MaxEntries \in Nat /\ MaxBytes \in Nat /\ Trimmable \in BOOLEAN

\* The rows of a state computed from the tokens t and nothing else.
Rows(t) == [i \in 1..Len(t) |-> SubSeq(t, 1, i)]

\* The tokens the rows kv stand for, and what more tokens through the model add.
Context(kv)    == [i \in DOMAIN kv |-> Last(kv[i])]
FeedAll(kv, t) == kv \o [i \in DOMAIN t |-> Context(kv) \o SubSeq(t, 1, i)]
Feed(kv, x)    == FeedAll(kv, <<x>>)

\* cache.trim(n): drop the last n rows, or all there are.
Trim(kv, n) == SubSeq(kv, 1, Len(kv) - n)

NoKV == <<>>

VARIABLES
  nodes,   \* the trie: the token paths that have a dict
  kvOf,    \* the "cache" of the nodes that have one: CacheEntry.prompt_cache
  lru,     \* _lru, least recently used first
  pinned,  \* _pinned
  total    \* _total_bytes

trieVars == <<nodes, kvOf, lru, pinned, total>>

TrieInit == nodes = {} /\ kvOf = <<>> /\ lru = <<>> /\ pinned = {} /\ total = 0

\* clear()
TrieClear ==
  nodes' = {} /\ kvOf' = <<>> /\ lru' = <<>> /\ pinned' = {} /\ total' = 0

Entries == DOMAIN kvOf

\* The nodes on the way to t, t's included, the root left out.
PathOf(t) == Prefixes(t) \ {<<>>}

\* _search: how far the trie leads along t ...
Reached(t) == CHOOSE p \in Prefixes(t) :
  /\ p = <<>> \/ p \in nodes
  /\ \A q \in PathOf(t) \cap nodes : Len(q) <= Len(p)

\* ... and, past its end, an entry with none between (depth first, any branch).
Extensions(t) == {k \in Entries : IsStrictPrefix(t, k)}
NextBelow(t)  == {k \in Extensions(t) :
                    \A e \in Extensions(t) : ~IsStrictPrefix(e, k)}

\* The entry _search names: of the node it stopped at, of t, or below t.  An
\* entry further up than the node it stopped at is not looked for.
Found(t) ==
  IF Reached(t) # t THEN {Reached(t)} \cap Entries
  ELSE IF t \in Entries THEN {t}
  ELSE NextBelow(t)

\* fetch_cache: what it may return, and the entry it moves to the end of _lru.
\* A longer entry must be trimmed, and is not moved.
Hit(k, t) ==
  IF IsPrefix(k, t)
    THEN [kv |-> kvOf[k], rest |-> SubSeq(t, Len(k) + 1, Len(t)), used |-> {k} \ pinned]
    ELSE [kv |-> Trim(kvOf[k], Len(k) - Len(t)), rest |-> <<>>, used |-> {}]

TrieServes(t) ==
  LET hits == {Hit(k, t) : k \in {e \in Found(t) : IsPrefix(e, t) \/ Trimmable}}
  IN IF hits = {} THEN {[kv |-> NoKV, rest |-> t, used |-> {}]} ELSE hits

\* _touch_lru
Moved(s, k) == Append(RemoveFirst(s, k), k)

TrieTouch(used) ==
  /\ lru' = IF used = {} THEN lru ELSE Moved(lru, CHOOSE k \in used : TRUE)
  /\ UNCHANGED <<nodes, kvOf, pinned, total>>

\* (mutant) the dicts stay
DeleteLeavesPath(s, k) ==
  [kv |-> s.kv \ {k}, nodes |-> s.nodes, total |-> s.total - s.size[k], size |-> s.size]

\* _delete_cache: the entry goes, and bottom up every dict that is then empty.
Delete(s, k) ==
  LET kept == s.kv \ {k}
  IN [kv    |-> kept,
      nodes |-> s.nodes \ {p \in PathOf(k) :
                  /\ \A e \in kept : ~IsPrefix(p, e)
                  /\ \A q \in s.nodes \ PathOf(k) : ~IsPrefix(p, q)},
      total |-> IF s.size[k] < s.total THEN s.total - s.size[k] ELSE 0,
      size  |-> s.size]

OverCap(entries, bytes) == entries > MaxEntries \/ bytes > MaxBytes

\* store_cache keeps the state of a key that has one, and what is not pinned goes
\* to the end of _lru.
Stored(t, kv) == [k \in Entries \cup {t} |-> IF k \in Entries THEN kvOf[k] ELSE kv]
LruWith(t)    == IF t \in pinned THEN lru ELSE Moved(lru, t)

\* What the evictions of the first, of the first two, ... of _lru leave (a fold,
\* as a function: there are proofs about it).
Evictions(t, kv) ==
  LET stored == Stored(t, kv)
      before == [kv    |-> DOMAIN stored, nodes |-> nodes \cup PathOf(t),
                 size  |-> [k \in DOMAIN stored |-> Len(stored[k])],
                 total |-> IF t \in Entries THEN total ELSE total + Len(kv)]
      after[n \in 0..Len(LruWith(t))] ==
        IF n = 0 THEN before ELSE Delete(after[n - 1], LruWith(t)[n])
  IN after

\* store_cache, its eviction loop included: entries leave from the front of _lru
\* while a cap is exceeded.
TrieStore(t, kv) ==
  LET all   == LruWith(t)
      after == Evictions(t, kv)
      over(i) == OverCap(Len(all) - i + Cardinality(pinned), after[i].total)
      n == CHOOSE i \in 0..Len(all) :
             (i = Len(all) \/ ~over(i)) /\ \A j \in 0..(i - 1) : over(j)
  IN /\ kvOf'  = Restrict(Stored(t, kv), after[n].kv)
     /\ nodes' = after[n].nodes
     /\ total' = after[n].total
     /\ lru'   = SubSeq(all, n + 1, Len(all))
     /\ UNCHANGED pinned

\* pin_prefix
TriePin(t) ==
  /\ t \in Entries
  /\ t \in pinned \/ Cardinality(pinned) < MaxEntries
  /\ lru' = RemoveFirst(lru, t)
  /\ pinned' = pinned \cup {t}
  /\ UNCHANGED <<nodes, kvOf, total>>

\* unpin_prefix: the entry comes back at the end of _lru.
TrieUnpin(t) ==
  /\ t \in pinned
  /\ pinned' = pinned \ {t}
  /\ lru' = Moved(lru, t)
  /\ UNCHANGED <<nodes, kvOf, total>>
=============================================================================
