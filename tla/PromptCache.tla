---------------------------- MODULE PromptCache ----------------------------
(***************************************************************************)
(* How the scheduler (vllm_mlx/scheduler.py) uses its in-memory cache of   *)
(* KV states: the lookup in add_request, the insertion with what was found *)
(* in _schedule_waiting, the decoding, the store in _cleanup_finished, and *)
(* the recovery from a corrupted cache, which clears the tier and retries  *)
(* the running requests.  The configuration chooses the tier: the trie of  *)
(* PrefixCache, or the blocks of PagedCache.                               *)
(*                                                                         *)
(* All of it runs on the engine's worker; store_cache of the paged tier is *)
(* several steps only because it picks a block at each.  Where requests    *)
(* wait and how batches form is the module Scheduler's: here a request may *)
(* be inserted at any time.  An embedder may also call what the classes    *)
(* export and the scheduler does not use: release, fork, copy, pin, unpin. *)
(***************************************************************************)
EXTENDS PrefixCache, PagedCache

CONSTANTS
  Tiers,             \* what use_paged_cache may be: "trie", "paged"
  Prompt,            \* prompt_token_ids of each request
  Vocab,             \* tokens the model may sample
  Embedder,          \* the calls of an embedder are made
  RetryAfterOutput,  \* a fault may hit requests that have output
  NoReq,
  MaxOut,            \* bound on output tokens
  MaxFaults,         \* bound on faults
  MaxCalls           \* bound on the calls of an embedder

ASSUME PromptAssumption ==
  /\ Tiers \subseteq {"trie", "paged"} /\ NoReq \notin Reqs
  /\ Prompt \in [Reqs -> Seq(Nat) \ {<<>>}] /\ Vocab \subseteq Nat
  /\ Embedder \in BOOLEAN /\ RetryAfterOutput \in BOOLEAN
  /\ MaxOut \in Nat \ {0} /\ MaxFaults \in Nat /\ MaxCalls \in Nat

VARIABLES
  tier,    \* which of block_aware_cache and prefix_cache there is
  phase,   \* where each request is
  kv,      \* its prompt_cache, and once it runs its cache in the generator
  rest,    \* remaining_tokens
  out,     \* output_token_ids
  kept,    \* (history) how many of them it had when it was last rescheduled
  busy,    \* the call of the paged tier that is under way
  faults,  \* faults so far (bound)
  calls    \* calls of an embedder so far (bound)

flowVars == <<phase, kv, rest, out, kept, busy, faults, calls>>
vars == <<tier, trieVars, pagedVars, flowVars>>

Idle == [op |-> "idle", req |-> NoReq, at |-> 0]

Init ==
  /\ tier \in Tiers
  /\ TrieInit /\ PagedInit
  /\ phase = [r \in Reqs |-> "new"] /\ kv = [r \in Reqs |-> NoKV]
  /\ rest = [r \in Reqs |-> <<>>] /\ out = [r \in Reqs |-> <<>>]
  /\ kept = [r \in Reqs |-> 0]
  /\ busy = Idle /\ faults = 0 /\ calls = 0

Goes(r, from, to) == busy = Idle /\ phase[r] = from /\ phase' = [phase EXCEPT ![r] = to]

\* add_request: the lookup of the tier there is.
Add(r) ==
  /\ Goes(r, "new", "waiting")
  /\ \/ /\ tier = "trie"
        /\ \E s \in TrieServes(Prompt[r]) :
             kv' = [kv EXCEPT ![r] = s.kv] /\ rest' = [rest EXCEPT ![r] = s.rest]
             /\ TrieTouch(s.used)
        /\ UNCHANGED pagedVars
     \/ /\ tier = "paged"
        /\ LET s == PagedServes(Prompt[r])
           IN kv' = [kv EXCEPT ![r] = s.kv] /\ rest' = [rest EXCEPT ![r] = s.rest]
              /\ PagedFetch(r, s)
        /\ UNCHANGED trieVars
  /\ UNCHANGED <<tier, out, kept, busy, faults, calls>>

\* (mutant) the last prompt token is fed on top of its own row
UntrimmedStart(r) ==
  IF rest[r] = <<>> THEN FeedAll(kv[r], <<Last(Prompt[r])>>) ELSE FeedAll(kv[r], rest[r])

\* What _schedule_waiting makes of the cache: with nothing left to process the
\* last prompt token is fed again, after its row was trimmed if it could be.
Start(r) ==
  IF rest[r] = <<>>
    THEN FeedAll(IF Trimmable THEN Trim(kv[r], 1) ELSE kv[r], <<Last(Prompt[r])>>)
    ELSE FeedAll(kv[r], rest[r])

\* The insertion, and the prefill it starts; one that fails with a cache is
\* repeated with the whole prompt and none.
Insert(r) ==
  /\ Goes(r, "waiting", "running")
  /\ \/ kv' = [kv EXCEPT ![r] = Start(r)] /\ UNCHANGED <<rest, faults>>
     \/ /\ kv[r] # NoKV /\ faults < MaxFaults
        /\ kv' = [kv EXCEPT ![r] = Rows(Prompt[r])]
        /\ rest' = [rest EXCEPT ![r] = Prompt[r]]
        /\ faults' = faults + 1
  /\ UNCHANGED <<tier, trieVars, pagedVars, out, kept, busy, calls>>

Sampled(r, x) ==
  /\ Len(out[r]) < MaxOut
  /\ out' = [out EXCEPT ![r] = Append(@, x)]
  /\ kv' = [kv EXCEPT ![r] = Feed(@, x)]

\* A token that is not the last.
Decode(r, x) ==
  /\ busy = Idle /\ phase[r] = "running" /\ Sampled(r, x)
  /\ UNCHANGED <<tier, trieVars, pagedVars, phase, rest, kept, busy, faults, calls>>

\* (mutant) the key leaves out the last token
FullWithoutLast(r) == Prompt[r] \o Front(out[r])

\* full_token_sequence
Full(r) == Prompt[r] \o out[r]

\* The last token: _cleanup_finished stores the KV state under the whole
\* sequence; or the response carries none, or it cannot be extracted.
Finish(r, x) ==
  /\ Goes(r, "running", "done") /\ Sampled(r, x)
  /\ \/ /\ tier = "trie" /\ TrieStore(Full(r)', kv'[r])
        /\ UNCHANGED <<pagedVars, busy>>
     \/ /\ tier = "paged" /\ StoreTable(r)
        /\ busy' = [op |-> "store", req |-> r, at |-> 0]
        /\ UNCHANGED trieVars
     \/ UNCHANGED <<trieVars, pagedVars, busy>>
  /\ UNCHANGED <<tier, rest, kept, faults, calls>>

\* An abort: the tier hears nothing of it.
Abort(r) ==
  /\ busy = Idle /\ phase[r] \in {"waiting", "running"}
  /\ phase' = [phase EXCEPT ![r] = "gone"]
  /\ UNCHANGED <<tier, trieVars, pagedVars, kv, rest, out, kept, busy, faults, calls>>

\* step() finds the generator's cache corrupted: _recover_from_cache_error
\* clears the tier, _reschedule_running_requests keeps output_token_ids.
Recover ==
  LET hit == {r \in Reqs : phase[r] = "running"}
  IN /\ busy = Idle /\ faults < MaxFaults /\ hit # {}
     /\ RetryAfterOutput \/ \A r \in hit : out[r] = <<>>
     /\ faults' = faults + 1
     /\ TrieClear /\ PagedClear
     /\ phase' = [r \in Reqs |-> IF r \in hit THEN "waiting" ELSE phase[r]]
     /\ kv'    = [r \in Reqs |-> IF r \in hit THEN NoKV ELSE kv[r]]
     /\ rest'  = [r \in Reqs |-> IF r \in hit THEN Prompt[r] ELSE rest[r]]
     /\ kept'  = [r \in Reqs |-> IF r \in hit THEN Len(out[r]) ELSE kept[r]]
     /\ UNCHANGED <<tier, out, busy, calls>>

\* The steps of store_cache of the paged tier, for the request that finished; it
\* has a token at least that its table does not cover.
PagedStore ==
  LET r == busy.req
  IN /\ busy.op = "store"
     /\ \/ (StoreShared(r, Full(r)) \/ StoreNew(r, Full(r), kv[r])) /\ UNCHANGED busy
        \/ StoreStops(r, Full(r)) /\ StoreDone(r, Full(r)) /\ busy' = Idle
        \/ StoreRaises(r, Full(r)) /\ busy' = Idle /\ UNCHANGED pagedVars
     /\ UNCHANGED <<tier, trieVars, phase, kv, rest, out, kept, faults, calls>>

\* The calls of an embedder.
Calls ==
  /\ Embedder /\ busy = Idle /\ calls < MaxCalls /\ calls' = calls + 1
  /\ UNCHANGED <<tier, kv, rest, out, kept, faults>>

Release(r) ==
  /\ Calls /\ tier = "paged" /\ PagedRelease(r)
  /\ UNCHANGED <<trieVars, phase, busy>>

\* n is a request of the embedder's own, which the scheduler never sees.
Fork(r, n) ==
  /\ Calls /\ tier = "paged" /\ phase[n] = "new" /\ PagedFork(r, n)
  /\ phase' = [phase EXCEPT ![n] = "forked"]
  /\ UNCHANGED <<trieVars, busy>>

CopyOnWrite(r) ==
  /\ Calls /\ tier = "paged" /\ r \in entries /\ tables[r].ids # <<>>
  /\ busy' = [op |-> "copy", req |-> r, at |-> 1]
  /\ UNCHANGED <<trieVars, pagedVars, phase>>

\* Each block in turn; popleft_lfu raises out of the loop if all are pinned.
PagedCopy ==
  LET r == busy.req
      next == IF busy.at < Len(tables[r].ids) THEN [busy EXCEPT !.at = @ + 1] ELSE Idle
  IN /\ busy.op = "copy"
     /\ \/ CopyBlock(r, busy.at) /\ busy' = next
        \/ ~MustCopy(r, busy.at) /\ busy' = next /\ UNCHANGED pagedVars
        \/ MustCopy(r, busy.at) /\ Candidates = {} /\ busy' = Idle /\ UNCHANGED pagedVars
     /\ UNCHANGED <<tier, trieVars, phase, kv, rest, out, kept, faults, calls>>

Pin(t) ==
  /\ Calls /\ UNCHANGED <<phase, busy>>
  /\ \/ tier = "trie" /\ TriePin(t) /\ UNCHANGED pagedVars
     \/ tier = "paged" /\ PagedPin(t) /\ UNCHANGED trieVars

Unpin(t) ==
  /\ Calls /\ UNCHANGED <<phase, busy>>
  /\ \/ tier = "trie" /\ TrieUnpin(t) /\ UNCHANGED pagedVars
     \/ tier = "paged" /\ PagedUnpin(t) /\ UNCHANGED trieVars

Texts == {Prompt[r] : r \in Reqs} \cup {Full(r) : r \in {q \in Reqs : phase[q] = "done"}}

Next ==
  \/ \E r \in Reqs : \/ Add(r) \/ Insert(r) \/ Abort(r)
                     \/ \E x \in Vocab : Decode(r, x) \/ Finish(r, x)
                     \/ Release(r) \/ CopyOnWrite(r)
                     \/ \E n \in Reqs : Fork(r, n)
  \/ Recover \/ PagedStore \/ PagedCopy
  \/ \E t \in Texts : Pin(t) \/ Unpin(t)

Spec == Init /\ [][Next]_vars

-----------------------------------------------------------------------------
Phases == {"new", "waiting", "running", "done", "gone", "forked"}
IsKV(s) == \A i \in DOMAIN s : s[i] \in Seq(Nat) \ {<<>>}

\* Every variable has its type.
TypeOK ==
  /\ tier \in Tiers /\ phase \in [Reqs -> Phases]
  /\ busy.op \in {"idle", "store", "copy"} /\ busy.req \in Reqs \cup {NoReq}
  /\ \A r \in Reqs : IsKV(kv[r]) /\ kept[r] <= Len(out[r])
  /\ nodes \subseteq Seq(Nat) \ {<<>>} /\ pinned \subseteq Entries /\ total \in Nat
  /\ \A k \in Entries : IsKV(kvOf[k])
  /\ ref \in [Blocks -> Nat] /\ filled \in [Blocks -> 0..BlockSize]
  /\ fixed \subseteq Blocks /\ alloc \subseteq Blocks /\ ToSet(queue) \subseteq Blocks
  /\ \A c \in DOMAIN hashTo : Len(c) = BlockSize /\ hashTo[c] \in Blocks
  /\ \A b \in Blocks : IsKV(data[b])
  /\ entries \subseteq DOMAIN tables /\ DOMAIN tables \subseteq Reqs

\* The LRU list and the pinned set share out the entries of the trie, none is
\* listed twice, and evictions keep them within max_size.
EntriesShared ==
  /\ ToSet(lru) \cup pinned = Entries /\ ToSet(lru) \cap pinned = {}
  /\ Len(lru) = Cardinality(ToSet(lru))
  /\ Cardinality(Entries) <= MaxEntries

\* The rows of all entries, each at its place in its entry.
Held(f) == UNION {{k} \X DOMAIN f[k] : k \in DOMAIN f}

\* The trie, the LRU list, the pinned set and the byte counter say the same,
\* after evictions, pins, and clears: besides the above, the dicts are those on
\* the way to an entry, the counter is the bytes of the entries, and the cap on
\* bytes is not exceeded either, however many entries were pinned.
TrieAccounts ==
  /\ EntriesShared
  /\ nodes = UNION {PathOf(k) : k \in Entries}
  /\ total = Cardinality(Held(kvOf))
  /\ total <= MaxBytes

\* The generator decodes a request on the rows of its own prompt, and of what
\* it has sampled since it was last started, and on no others.
OwnRows ==
  \A r \in Reqs : phase[r] = "running" =>
    kv[r] = Rows(Prompt[r] \o SubSeq(out[r], kept[r] + 1, Len(out[r])))

\* (with the trie; what the paged tier does is another run's question)
TrieOwnRows == tier = "trie" => OwnRows

\* prefix_cache.py: "The cache stores KV states keyed by token sequences".
KeyedByTokens == \A k \in Entries : kvOf[k] = Rows(k)

\* The places of the tables a block is in.
Places(r, b) == {r} \X {i \in DOMAIN tables[r].ids : tables[r].ids[i] = b}
Uses(b)      == UNION {Places(r, b) : r \in DOMAIN tables}

\* The blocks are shared out between the free queue and allocated_blocks, and
\* a block is referenced as often as the tables say, also when a store or a
\* copy broke off, blocks were dropped one by one, or the tier was cleared.
PagedAccounts ==
  /\ Len(queue) = Cardinality(ToSet(queue)) /\ ToSet(queue) = Blocks \ alloc
  /\ alloc = {b \in Blocks : ref[b] > 0}
  /\ \A b \in Blocks : ref[b] = Cardinality(Uses(b))

\* No step changes a block under a request that keeps it in its table.
SharedIsStable ==
  [][\A r \in DOMAIN tables \cap DOMAIN tables' :
       \A b \in ToSet(tables[r].ids) \cap ToSet(tables'[r].ids) : data'[b] = data[b]]_vars

\* A pinned prefix keeps its content until it is unpinned or the tier cleared:
\* the blocks of the paged tier, the entries of the trie.
PinnedStays ==
  [][/\ \A b \in fixed \cap fixed' : data'[b] = data[b]
     /\ \A k \in pinned \cap pinned' : k \in Entries' /\ kvOf'[k] = kvOf[k]]_vars
=============================================================================
