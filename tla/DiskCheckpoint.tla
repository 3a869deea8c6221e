--------------------------- MODULE DiskCheckpoint ---------------------------
(***************************************************************************)
(* Disk KV checkpoints (vllm_mlx/runtime/disk_kv_checkpoint.py) and the    *)
(* two scheduler methods that use them: _disk_persist_boundary, which      *)
(* writes the KV state of a token sequence, and _maybe_disk_restore, which *)
(* looks one up for a new prompt.                                          *)
(*                                                                         *)
(* One process runs several engines, one per model, each on a worker       *)
(* thread of its own.  They share the directory, the index, the reference  *)
(* counts and _DISK_LOCK.  A process may be killed between any two steps;  *)
(* the next one finds the files and nothing else.                          *)
(*                                                                         *)
(* A checkpoint is three files: the body, the tokens blob and the sidecar, *)
(* bound by the save_uuid of their write.  Its directory is the hash of    *)
(* model and tokens, so <<model, tokens>> is its path.  A delta's body     *)
(* holds only the rows after those of its base.                            *)
(***************************************************************************)
EXTENDS Integers, Sequences, FiniteSets, SequencesExt

CONSTANTS
  Models,        \* one engine each
  Prompts,       \* Prompts[m]: the token sequences that requests to m may have
  Keyframe,      \* delta_keyframe_interval(); 0: DELTA_CHECKPOINTS_ENABLED is off
  Quantized,     \* attention layers are QuantizedKVCache (kv_cache_quantization)
  Cap, LowWater, \* the disk cap and its low-water mark, in checkpoints
  NoOne,         \* the lock is free
  MaxWrites,     \* bound on checkpoint writes
  MaxFaults      \* bound on crashes, failed file writes and damaged blobs

ASSUME DiskAssumption ==
  /\ NoOne \notin Models
  /\ Prompts \in [Models -> SUBSET (Seq(Nat) \ {<<>>})]
  /\ Quantized \in BOOLEAN /\ Keyframe \in Nat
  /\ Cap \in Nat /\ LowWater \in 1..Cap
  /\ MaxWrites \in Nat /\ MaxFaults \in Nat

Keys  == UNION {Prompts[m] : m \in Models}
Paths == {<<m, k>> : m \in Models, k \in Keys}
Uuids == 0..MaxWrites            \* 0: no such file
Damaged == MaxWrites + 1         \* a tokens blob whose header fits no write

\* The model and the token sequence of a path, and its token_offset.
ModelOf(p) == p[1]
KeyOf(p)   == p[2]
Offset(p)  == Len(p[2])

NoPath == <<>>
NoBody == [uuid |-> 0, from |-> 0]
NoSide == [uuid |-> 0, base |-> NoPath, baseUuid |-> 0, depth |-> 0]
NoRef  == [model |-> NoOne, uuid |-> 0]
NoHit  == [key |-> <<>>, ref |-> NoRef]
Miss   == [query |-> <<>>, tokens |-> <<>>, rows |-> <<>>]

VARIABLES
  body,      \* the .safetensors files: uuid of the write, first row less one
  tokens,    \* the .tokens.bin files: uuid of the write
  side,      \* the .json files: uuid, base path and uuid (deltas), chain_depth
  order,     \* the bodies, oldest mtime first
  index,     \* DiskCheckpointIndex._by_key
  edge,      \* _child_base_edge; _persistent_refcount counts its values
  built,     \* _disk_restore_index_built
  lock,      \* holder of _DISK_LOCK across steps
  pc,        \* where the worker of each engine stands
  key,       \* the sequence it writes, or the prompt it looks up
  plan,      \* the sidecar it is going to write
  saved,     \* tokens_persisted
  todo,      \* what its eviction pass has not visited
  hit,       \* the candidate of its lookup
  chain,     \* the links of the candidate, base first; pinned while it reads
  tries,     \* iterations left to its lookup
  served,    \* what its last lookup handed to the request
  ever,      \* (history) the paths whose body was ever renamed into place
  boot,      \* (history) minted when the process started
  minted,    \* uuids so far (bound)
  faults     \* faults so far (bound)

diskVars   == <<body, tokens, side, order>>
memVars    == <<index, edge, built, lock>>
writerVars == <<plan, saved, todo>>
readerVars == <<hit, chain, tries, served>>
histVars   == <<ever, boot>>
vars == <<diskVars, memVars, writerVars, readerVars, histVars, pc, key, minted, faults>>

Resident(p) == body[p] # NoBody
Residents   == {p \in Paths : Resident(p)}

Init ==
  /\ body = [p \in Paths |-> NoBody] /\ tokens = [p \in Paths |-> 0]
  /\ side = [p \in Paths |-> NoSide] /\ order = <<>>
  /\ index = [k \in Keys |-> NoRef] /\ edge = [p \in Paths |-> NoPath]
  /\ built = [m \in Models |-> FALSE] /\ lock = NoOne
  /\ pc = [m \in Models |-> "idle"] /\ key = [m \in Models |-> <<>>]
  /\ plan = [m \in Models |-> NoSide] /\ saved = [m \in Models |-> FALSE]
  /\ todo = [m \in Models |-> <<>>]
  /\ hit = [m \in Models |-> NoHit] /\ chain = [m \in Models |-> <<>>]
  /\ tries = [m \in Models |-> 0] /\ served = [m \in Models |-> Miss]
  /\ ever = {} /\ boot = 0 /\ minted = 0 /\ faults = 0

Goto(m, l) == pc' = [pc EXCEPT ![m] = l]

\* (mutant) A body written or restored again is listed twice.
TouchedTwice(p) == Append(order, p)

Touched(p)    == Append(RemoveFirst(order, p), p)

-----------------------------------------------------------------------------
(* Writing a checkpoint.                                                    *)

Indexed(k) == index[k] # NoRef

Longest(S) == CHOOSE k \in S : \A j \in S : Len(j) <= Len(k)

\* _is_protected: the base of a delta, or a link of a chain somebody reads.
Links(m)     == {chain[m][i].path : i \in DOMAIN chain[m]}
Pinned(p)    == \E m \in Models : pc[m] = "read" /\ p \in Links(m)
HasDelta(p)  == \E q \in Paths : edge[q] = p
\* (mutant) Readers of a chain do not protect it.
ProtectedIfBase(p) == HasDelta(p)
Protected(p) == HasDelta(p) \/ Pinned(p)

\* _parent_resident.
ParentResident(base, uuid) ==
  Resident(base) /\ tokens[base] # 0 /\ side[base].uuid = uuid

\* The delta planning of _disk_persist_boundary: the longest indexed strict
\* prefix is the base, unless the chain has reached its keyframe.
PlanFor(k, uuid) ==
  LET parents == {j \in Keys : Indexed(j) /\ IsStrictPrefix(j, k)}
      j    == Longest(parents)
      base == <<index[j].model, j>>
  IN IF /\ Keyframe > 0 /\ parents # {}
        /\ side[base] # NoSide /\ side[base].depth + 1 < Keyframe
     THEN [uuid |-> uuid, base |-> base, baseUuid |-> index[j].uuid,
           depth |-> side[base].depth + 1]
     ELSE [NoSide EXCEPT !.uuid = uuid]

\* _disk_persist_boundary, up to its call of write_checkpoint: a path whose
\* body exists is taken for written.  The index need not have been built: with
\* restoring off, or after a hit in memory, add_request looks nothing up.
Persist(m, k) ==
  /\ pc[m] = "idle" /\ k \in Prompts[m]
  /\ ~Resident(<<m, k>>)
  /\ minted < MaxWrites
  /\ minted' = minted + 1
  /\ key' = [key EXCEPT ![m] = k]
  /\ plan' = [plan EXCEPT ![m] = PlanFor(k, minted + 1)]
  /\ saved' = [saved EXCEPT ![m] = FALSE]
  /\ Goto(m, "body")
  /\ UNCHANGED <<diskVars, memVars, readerVars, todo, histVars, faults>>

\* write_checkpoint takes the lock, looks again at the parent and renames the
\* body into place; if that fails nothing is left of the write.
WriteBody(m) ==
  LET p == <<m, key[m]>>
      delta == plan[m].base # NoPath /\ ParentResident(plan[m].base, plan[m].baseUuid)
  IN /\ pc[m] = "body" /\ lock = NoOne
     /\ body' = [body EXCEPT ![p] =
          [uuid |-> plan[m].uuid, from |-> IF delta THEN Offset(plan[m].base) ELSE 0]]
     /\ plan' = [plan EXCEPT ![m] = IF delta THEN plan[m] ELSE [NoSide EXCEPT !.uuid = plan[m].uuid]]
     /\ order' = Touched(p)
     /\ ever' = ever \cup {p}
     /\ lock' = m
     /\ Goto(m, "tokens")
     /\ UNCHANGED <<tokens, side, index, edge, built, saved, todo, readerVars, boot, key, minted, faults>>

\* The body is written again under a temporary name, and that fails.
BodyFails(m) ==
  /\ pc[m] = "body" /\ lock = NoOne /\ faults < MaxFaults
  /\ faults' = faults + 1
  /\ Goto(m, "idle")
  /\ UNCHANGED <<diskVars, memVars, writerVars, readerVars, key, histVars, minted>>

\* The tokens blob, by a temporary file and a rename; a failure is not fatal.
WriteTokens(m) ==
  /\ pc[m] = "tokens"
  /\ tokens' = [tokens EXCEPT ![<<m, key[m]>>] = plan[m].uuid]
  /\ saved' = [saved EXCEPT ![m] = TRUE]
  /\ Goto(m, "side")
  /\ UNCHANGED <<body, side, order, memVars, readerVars, plan, todo, key, histVars, minted, faults>>

TokensFail(m) ==
  /\ pc[m] = "tokens" /\ faults < MaxFaults
  /\ faults' = faults + 1
  /\ Goto(m, "side")
  /\ UNCHANGED <<diskVars, memVars, writerVars, readerVars, key, histVars, minted>>

\* The sidecar comes last; a failure leaves the body, and whatever sidecar
\* was at this path before.
WriteSide(m) ==
  /\ pc[m] = "side"
  /\ side' = [side EXCEPT ![<<m, key[m]>>] = plan[m]]
  /\ Goto(m, "commit")
  /\ UNCHANGED <<body, tokens, order, memVars, writerVars, readerVars, key, histVars, minted, faults>>

SideFails(m) ==
  /\ pc[m] = "side" /\ faults < MaxFaults
  /\ faults' = faults + 1
  /\ Goto(m, "commit")
  /\ UNCHANGED <<diskVars, memVars, writerVars, readerVars, key, histVars, minted>>

\* (mutant) Newest first.
NewestFirst == Reverse(order)

\* The paths of a listing that are in S, in its order.
Only(paths, S) ==
  LET only[n \in 0..Len(paths)] ==
        IF n = 0 THEN <<>>
        ELSE IF paths[n] \in S THEN Append(only[n - 1], paths[n]) ELSE only[n - 1]
  IN only[Len(paths)]

\* Unmatchable checkpoints first, each class oldest first.
EvictionOrder ==
  LET blank == {p \in Paths : tokens[p] = 0}
  IN Only(order, blank) \o Only(order, Paths \ blank)

\* (mutant) Off by one.
OverCapByTwo == Cardinality(Residents) > Cap + 1
OverCap == Cardinality(Residents) > Cap

\* The end of write_checkpoint: register the delta with its base, index the
\* tokens, and begin enforce_disk_cap if the cap is exceeded.
Commit(m) ==
  /\ pc[m] = "commit"
  /\ edge' = [edge EXCEPT ![<<m, key[m]>>] = IF plan[m].base # NoPath THEN plan[m].base ELSE @]
  /\ index' = [index EXCEPT ![key[m]] = IF saved[m] THEN [model |-> m, uuid |-> plan[m].uuid] ELSE @]
  /\ IF OverCap
     THEN /\ todo' = [todo EXCEPT ![m] = EvictionOrder]
          /\ Goto(m, "evict") /\ UNCHANGED lock
     ELSE /\ Goto(m, "idle") /\ lock' = NoOne /\ UNCHANGED todo
  /\ UNCHANGED <<diskVars, built, plan, saved, readerVars, key, histVars, minted, faults>>

PassOver(m) == todo[m] = <<>> \/ Cardinality(Residents) <= LowWater

EndPass(m) ==
  /\ pc[m] = "evict" /\ PassOver(m)
  /\ lock' = NoOne
  /\ todo' = [todo EXCEPT ![m] = <<>>]
  /\ Goto(m, "idle")
  /\ UNCHANGED <<diskVars, index, edge, built, plan, saved, readerVars, key, histVars, minted, faults>>

Skip(m) ==
  /\ pc[m] = "evict" /\ ~PassOver(m) /\ Protected(Head(todo[m]))
  /\ todo' = [todo EXCEPT ![m] = Tail(@)]
  /\ UNCHANGED <<diskVars, memVars, plan, saved, readerVars, pc, key, histVars, minted, faults>>

\* The body goes first, and with it the reference to its base; the sidecar
\* and the blob follow.  The index is not told.
Unlink(m) ==
  LET p == Head(todo[m])
  IN /\ pc[m] = "evict" /\ ~PassOver(m) /\ ~Protected(p)
     /\ body' = [body EXCEPT ![p] = NoBody]
     /\ order' = RemoveFirst(order, p)
     /\ edge' = [edge EXCEPT ![p] = NoPath]
     /\ Goto(m, "unlink")
     /\ UNCHANGED <<tokens, side, index, built, lock, writerVars, readerVars, key, histVars, minted, faults>>

UnlinkSide(m) ==
  /\ pc[m] = "unlink"
  /\ side' = [side EXCEPT ![Head(todo[m])] = NoSide]
  /\ Goto(m, "unlink tokens")
  /\ UNCHANGED <<body, tokens, order, memVars, writerVars, readerVars, key, histVars, minted, faults>>

UnlinkTokens(m) ==
  /\ pc[m] = "unlink tokens"
  /\ tokens' = [tokens EXCEPT ![Head(todo[m])] = 0]
  /\ todo' = [todo EXCEPT ![m] = Tail(@)]
  /\ Goto(m, "evict")
  /\ UNCHANGED <<body, side, order, memVars, plan, saved, readerVars, key, histVars, minted, faults>>

-----------------------------------------------------------------------------
(* Looking one up.                                                          *)

\* _read_checkpoint_tokens accepts the blob: there is a sidecar, and the blob
\* is of the same write.
Readable(p) == side[p] # NoSide /\ tokens[p] = side[p].uuid

\* (mutant) The edges of the last process are not read again.
NotRebuilt == [p \in Paths |-> NoPath]

\* rebuild_refcounts: the edges that the sidecars on disk record.
Rebuilt ==
  [p \in Paths |-> IF Resident(p) THEN side[p].base ELSE NoPath]

\* build_from_root: of the checkpoints of one key the newest is kept, and an
\* older entry where the scan finds none.
Scanned ==
  [k \in Keys |->
     LET found == {i \in DOMAIN order : KeyOf(order[i]) = k /\ Readable(order[i])}
         p     == order[Max(found)]
     IN IF found = {} THEN index[k]
        ELSE [model |-> ModelOf(p), uuid |-> side[p].uuid]]

\* _maybe_disk_restore of a request that missed in memory; the first one of a
\* scheduler builds the index (build_content_index).
Lookup(m, q) ==
  /\ pc[m] = "idle" /\ q \in Prompts[m]
  /\ IF built[m] THEN UNCHANGED <<index, edge, built>>
     ELSE /\ lock = NoOne
          /\ index' = Scanned /\ edge' = Rebuilt
          /\ built' = [built EXCEPT ![m] = TRUE]
  /\ key' = [key EXCEPT ![m] = q]
  /\ served' = [served EXCEPT ![m] = Miss]
  /\ tries' = [tries EXCEPT ![m] = Cardinality({k \in Keys : index'[k] # NoRef}) + 1]
  /\ Goto(m, "resolve")
  /\ UNCHANGED <<diskVars, lock, writerVars, hit, chain, histVars, minted, faults>>

Candidates(m) == {k \in Keys : Indexed(k) /\ IsPrefix(k, key[m])}

GiveUp(m) ==
  /\ pc[m] = "resolve" /\ (tries[m] = 0 \/ Candidates(m) = {})
  /\ Goto(m, "idle")
  /\ hit' = [hit EXCEPT ![m] = NoHit]
  /\ UNCHANGED <<diskVars, memVars, writerVars, chain, tries, served, key, histVars, minted, faults>>

\* The longest indexed prefix of the prompt, read under the index lock.
Resolve(m) ==
  LET k == Longest(Candidates(m))
  IN /\ pc[m] = "resolve" /\ tries[m] > 0 /\ Candidates(m) # {}
     /\ hit' = [hit EXCEPT ![m] = [key |-> k, ref |-> index[k]]]
     /\ tries' = [tries EXCEPT ![m] = @ - 1]
     /\ Goto(m, "verify")
     /\ UNCHANGED <<diskVars, memVars, writerVars, chain, served, key, histVars, minted, faults>>

HitPath(m) == <<hit[m].ref.model, hit[m].key>>

Forget(m) == index' = [index EXCEPT ![hit[m].key] = NoRef]

\* (mutant) A transient failure is tried again in place.
RetryInPlace(m) == UNCHANGED vars

\* _soft_evict: out of the index, whatever it holds now, and on to the next.
SoftEvict(m) ==
  /\ Forget(m)
  /\ chain' = [chain EXCEPT ![m] = <<>>]
  /\ Goto(m, "resolve")
  /\ UNCHANGED <<diskVars, edge, built, lock, writerVars, hit, tries, served, key, histVars, minted, faults>>

\* _verify_tokens_blob: the blob is missing, is that of the indexed write, or
\* is wrong.
Verify(m) ==
  /\ pc[m] = "verify" /\ lock = NoOne
  /\ \/ tokens[HitPath(m)] = 0 /\ SoftEvict(m)
     \/ /\ tokens[HitPath(m)] # 0
        /\ Goto(m, IF tokens[HitPath(m)] = hit[m].ref.uuid THEN "load" ELSE "quarantine")
        /\ UNCHANGED <<diskVars, memVars, writerVars, readerVars, key, histVars, minted, faults>>

\* _quarantine takes the entry out of the index, drops the delta's edge, and
\* renames the three files aside: each of them under a lock of its own.
Quarantine(m) ==
  /\ pc[m] = "quarantine"
  /\ Forget(m)
  /\ Goto(m, "unregister")
  /\ UNCHANGED <<diskVars, edge, built, lock, writerVars, readerVars, key, histVars, minted, faults>>

Unregister(m) ==
  /\ pc[m] = "unregister" /\ lock = NoOne
  /\ edge' = [edge EXCEPT ![HitPath(m)] = NoPath]
  /\ Goto(m, "aside")
  /\ UNCHANGED <<diskVars, index, built, lock, writerVars, readerVars, key, histVars, minted, faults>>

SetAside(m) ==
  LET p == HitPath(m)
  IN /\ pc[m] = "aside" /\ lock = NoOne
     /\ body' = [body EXCEPT ![p] = NoBody]
     /\ side' = [side EXCEPT ![p] = NoSide]
     /\ tokens' = [tokens EXCEPT ![p] = 0]
     /\ order' = RemoveFirst(order, p)
     /\ Goto(m, "resolve")
     /\ UNCHANGED <<memVars, writerVars, readerVars, key, histVars, minted, faults>>

\* The rows a body holds, and those of several bodies one after the other.
BodyRows(p) == [i \in 1..(Offset(p) - body[p].from) |-> <<ModelOf(p), body[p].from + i>>]
\* (mutant) The chain is not reversed.
AssembledLeafFirst(links) ==
  FlattenSeq([i \in 1..Len(links) |-> BodyRows(links[Len(links) + 1 - i].path)])
Assembled(links) == FlattenSeq([i \in 1..Len(links) |-> BodyRows(links[i].path)])

\* _cache_offset_matches.  A bf16 layer derives its offset from its rows; a
\* chain of quantized layers is given the offset of the leaf.
Fits(m, rows) == Len(rows) = Len(hit[m].key) \/ (Quantized /\ chain[m] # <<>>)

\* The rows the model will read: as many as the offset says.
Read(m, rows) == SubSeq(rows, 1, IF Len(rows) < Len(hit[m].key) THEN Len(rows) ELSE Len(hit[m].key))

\* (mutant) Any model's checkpoint will do.
AnyModel(m) == TRUE

\* Check (a2) of _maybe_disk_restore: the model_name the sidecar records.
OwnModel(m) == hit[m].ref.model = m

\* The end of the lookup: the loaded rows are refused when their number is
\* wrong, and by _maybe_disk_restore when the checkpoint is another model's;
\* else the request gets them.
Finish(m, rows) ==
  IF ~Fits(m, rows) THEN SoftEvict(m)
  ELSE /\ IF OwnModel(m)
          THEN /\ served' = [served EXCEPT ![m] =
                    [query |-> key[m], tokens |-> hit[m].key, rows |-> Read(m, rows)]]
               /\ Goto(m, "touch") /\ UNCHANGED hit
          ELSE Goto(m, "idle") /\ hit' = [hit EXCEPT ![m] = NoHit] /\ UNCHANGED served
       /\ chain' = [chain EXCEPT ![m] = <<>>]
       /\ UNCHANGED <<diskVars, memVars, writerVars, tries, key, histVars, minted, faults>>

\* The new mtime of a body that was restored: os.utime, without the lock, so
\* that other engines may have written since it was read, or evicted it.
Touch(m) ==
  /\ pc[m] = "touch"
  /\ order' = IF Resident(HitPath(m)) THEN Touched(HitPath(m)) ELSE order
  /\ hit' = [hit EXCEPT ![m] = NoHit]
  /\ Goto(m, "idle")
  /\ UNCHANGED <<body, tokens, side, memVars, writerVars, chain, tries, served, key, histVars, minted, faults>>

\* What the sidecar says at this moment decides how the checkpoint is read: a
\* delta by its chain, unless the feature is off.
IsDelta(m) == side[HitPath(m)].base # NoPath

LoadFull(m) ==
  /\ pc[m] = "load"
  /\ IF IsDelta(m) THEN Keyframe = 0 /\ SoftEvict(m)
     ELSE /\ Goto(m, "full")
          /\ UNCHANGED <<diskVars, memVars, writerVars, readerVars, key, histVars, minted, faults>>

\* load_checkpoint: body and sidecar must be of one write.
ReadFull(m) ==
  LET p == HitPath(m)
  IN /\ pc[m] = "full" /\ lock = NoOne
     /\ IF side[p] # NoSide /\ body[p].uuid = side[p].uuid
        THEN Finish(m, BodyRows(p))
        ELSE SoftEvict(m)

\* load_checkpoint_chain: _resolve_chain reads sidecar and blob of one link
\* after the other, from the leaf to the root; only the blobs under the lock.
LoadChain(m) ==
  /\ pc[m] = "load" /\ IsDelta(m) /\ Keyframe > 0
  /\ Goto(m, "link")
  /\ chain' = [chain EXCEPT ![m] = <<[path |-> HitPath(m), side |-> NoSide]>>]
  /\ UNCHANGED <<diskVars, memVars, writerVars, hit, tries, served, key, histVars, minted, faults>>

ReadSide(m) ==
  LET p == Head(chain[m]).path   \* the link read next
  IN /\ pc[m] = "link"
     /\ IF side[p] = NoSide THEN SoftEvict(m)
        ELSE /\ chain' = [chain EXCEPT ![m][1].side = side[p]]
             /\ Goto(m, "blob")
             /\ UNCHANGED <<diskVars, memVars, writerVars, hit, tries, served, key, histVars, minted, faults>>

\* The chain is kept base first, as the bodies are joined.
WithBase(links, path) == <<[path |-> path, side |-> NoSide]>> \o links

\* The link was written by the write its child names.
IsPinned(links) == Len(links) = 1 \/ links[1].side.uuid = links[2].side.baseUuid

\* A link is good if its blob is readable, and on to its base if it is a delta.
ReadLink(m) ==
  LET link == Head(chain[m])
  IN /\ pc[m] = "blob" /\ lock = NoOne
     /\ IF ~Readable(link.path) \/ ~IsPinned(chain[m]) THEN SoftEvict(m)
        ELSE /\ IF link.side.base = NoPath
                THEN Goto(m, "pin") /\ UNCHANGED chain
                ELSE /\ chain' = [chain EXCEPT ![m] = WithBase(@, link.side.base)]
                     /\ Goto(m, "link")
             /\ UNCHANGED <<diskVars, memVars, writerVars, hit, tries, served, key, histVars, minted, faults>>

\* The transient reference counts of all links, if their bodies still exist.
Pin(m) ==
  /\ pc[m] = "pin" /\ lock = NoOne
  /\ IF Links(m) \subseteq Residents
     THEN /\ Goto(m, "read")
          /\ UNCHANGED <<diskVars, memVars, writerVars, readerVars, key, histVars, minted, faults>>
     ELSE SoftEvict(m)

\* The bodies are read without the lock; then the counts are dropped.
ReadChain(m) ==
  /\ pc[m] = "read"
  /\ IF Links(m) \subseteq Residents
     THEN Finish(m, Assembled(chain[m]))
     ELSE SoftEvict(m)

-----------------------------------------------------------------------------
\* The process is killed and started again.  Temporary files do not count.
Crash ==
  /\ faults < MaxFaults
  /\ faults' = faults + 1
  /\ index' = [k \in Keys |-> NoRef] /\ edge' = [p \in Paths |-> NoPath]
  /\ built' = [m \in Models |-> FALSE] /\ lock' = NoOne
  /\ pc' = [m \in Models |-> "idle"] /\ key' = [m \in Models |-> <<>>]
  /\ plan' = [m \in Models |-> NoSide] /\ saved' = [m \in Models |-> FALSE]
  /\ todo' = [m \in Models |-> <<>>]
  /\ hit' = [m \in Models |-> NoHit] /\ chain' = [m \in Models |-> <<>>]
  /\ tries' = [m \in Models |-> 0] /\ served' = [m \in Models |-> Miss]
  /\ boot' = minted
  /\ UNCHANGED <<diskVars, ever, minted>>

\* A tokens blob is damaged on disk.
Damage(p) ==
  /\ faults < MaxFaults /\ tokens[p] \in 1..MaxWrites
  /\ faults' = faults + 1
  /\ tokens' = [tokens EXCEPT ![p] = Damaged]
  /\ UNCHANGED <<body, side, order, memVars, writerVars, readerVars, pc, key, histVars, minted>>

\* One step of the engine of m in an operation it has begun.
Writer(m) ==
  \/ WriteBody(m) \/ BodyFails(m) \/ WriteTokens(m) \/ TokensFail(m)
  \/ WriteSide(m) \/ SideFails(m) \/ Commit(m)
  \/ EndPass(m) \/ Skip(m) \/ Unlink(m) \/ UnlinkSide(m) \/ UnlinkTokens(m)

Reader(m) ==
  \/ GiveUp(m) \/ Resolve(m) \/ Verify(m) \/ Quarantine(m) \/ Unregister(m) \/ SetAside(m)
  \/ LoadFull(m) \/ ReadFull(m) \/ Touch(m)
  \/ LoadChain(m) \/ ReadSide(m) \/ ReadLink(m) \/ Pin(m) \/ ReadChain(m)

Next ==
  \/ \E m \in Models : Writer(m) \/ Reader(m) \/ \E k \in Keys : Persist(m, k) \/ Lookup(m, k)
  \/ Crash
  \/ \E p \in Paths : Damage(p)

Fairness == \A m \in Models : WF_vars(Writer(m) \/ Reader(m))

Spec == Init /\ [][Next]_vars /\ Fairness

-----------------------------------------------------------------------------
TypeOK ==
  /\ body \in [Paths -> [uuid : Uuids, from : Nat]]
  /\ tokens \in [Paths -> Uuids \cup {Damaged}]
  /\ side \in [Paths -> [uuid : Uuids, base : Paths \cup {NoPath}, baseUuid : Uuids, depth : Nat]]
  /\ order \in Seq(Paths) /\ ToSet(order) = Residents /\ Len(order) = Cardinality(Residents)
  /\ index \in [Keys -> [model : Models \cup {NoOne}, uuid : Uuids]]
  /\ edge \in [Paths -> Paths \cup {NoPath}]
  /\ built \in [Models -> BOOLEAN] /\ lock \in Models \cup {NoOne}

Store == INSTANCE CheckpointStore WITH
           Models <- Models, Prompts <- Keys, Nothing <- Miss,
           stored <- ever, answer <- served

\* Seen from outside, the files, the index and the chains are a store that may
\* lose what it was given and never makes anything up.
StoreSpec == Store!Spec

\* The delta at path q is committed and would need p to be read.
Extends(q, p) ==
  p # NoPath /\ Resident(q) /\ side[q].uuid = body[q].uuid /\ side[q].base = p

\* Deltas whose edges are in memory: those this process wrote, and all of them
\* once one of its engines has built the index.
Known(q) == side[q].uuid > boot \/ \E m \in Models : built[m]

\* Deltas that are between losing their edge and being renamed aside.
Discarded(q) == \E m \in Models : pc[m] = "aside" /\ q = HitPath(m)

\* Eviction never takes the base of a delta, as the sidecars on disk tell it,
\* away: the counts in memory agree with the disk, after a restart too, from the
\* first lookup on.
BaseOutlivesDelta ==
  [][\A m \in Models : pc[m] = "evict" /\ pc'[m] = "unlink" =>
       \A q \in Paths : Extends(q, Head(todo[m])) => ~Known(q) \/ Discarded(q)]_vars

\* Nobody takes a body away that is being read: between the resolution of a
\* chain and the end of its reading other engines write and evict.
ReaderKeepsChain ==
  \A m \in Models : pc[m] = "read" => Links(m) \subseteq Residents

\* The disk stays within its cap: every pass finds a checkpoint it may take,
\* and only what a fault left behind comes on top.
WithinCap == lock = NoOne => Cardinality(Residents) <= Cap + faults

\* "The checkpoint just written (newest) ... survive[s] while shallow
\* sub-prefixes are reclaimed" (write_checkpoint): a pass takes it only if it is
\* not the newest any more, another engine having restored a checkpoint since.
NewestSurvives ==
  [][\A m \in Models :
       pc[m] = "evict" /\ pc'[m] = "unlink" /\ Head(todo[m]) = <<m, key[m]>> /\ saved[m] =>
         Last(order) # <<m, key[m]>>]_vars

\* Every write and every lookup ends: the candidates of a lookup become fewer.
OperationsEnd == \A m \in Models : (pc[m] # "idle") ~> (pc[m] = "idle")
=============================================================================
