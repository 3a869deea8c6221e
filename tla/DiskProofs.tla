----------------------------- MODULE DiskProofs -----------------------------
(***************************************************************************)
(* Proofs about DiskCheckpoint, for every number of engines, every set of  *)
(* prompts, every cap, every number of faults and every interleaving of    *)
(* the engines' workers.                                                   *)
(***************************************************************************)
EXTENDS DiskCheckpoint, SequenceLemmas

\* Where a worker holds the lock, writes, reads its candidate, and has one.
Locked  == {"tokens", "side", "commit", "evict", "unlink", "unlink tokens"}
Writing == {"body", "tokens", "side", "commit"}
Reading == {"verify", "quarantine", "load", "full", "link", "blob", "pin", "read"}
Chosen  == Reading \cup {"unregister", "aside", "touch"}
Labels  == {"idle", "body", "resolve"} \cup Locked \cup Chosen

Bodies == [uuid : Uuids, from : Nat]
Sides  == [uuid : Uuids, base : Paths \cup {NoPath}, baseUuid : Uuids, depth : Nat]
Refs   == [model : Models \cup {NoOne}, uuid : Uuids]

DiskTypes ==
  /\ body \in [Paths -> Bodies] /\ tokens \in [Paths -> Uuids \cup {Damaged}]
  /\ side \in [Paths -> Sides] /\ edge \in [Paths -> Paths \cup {NoPath}]
  /\ index \in [Keys -> Refs]
  /\ built \in [Models -> BOOLEAN] /\ lock \in Models \cup {NoOne}
  /\ pc \in [Models -> Labels] /\ key \in [Models -> Keys \cup {<<>>}]
  /\ plan \in [Models -> Sides] /\ saved \in [Models -> BOOLEAN]
  /\ hit \in [Models -> [key : Keys \cup {<<>>}, ref : Refs]]
  /\ minted \in 0..MaxWrites

\* The directory lists every body once.
Listed == order \in Seq(Paths) /\ IsInjective(order) /\ ToSet(order) = Residents

\* What a worker knows where it stands, and who holds the lock.
Phase(m) ==
  /\ pc[m] \in Locked <=> lock = m
  /\ pc[m] \in Writing => key[m] \in Prompts[m] /\ plan[m].uuid \in 1..minted
  /\ pc[m] \in Chosen \cup {"resolve"} => key[m] \in Prompts[m]
  /\ pc[m] \in Chosen => hit[m].key \in Keys /\ hit[m].ref.model \in Models
  /\ pc[m] = "touch" => hit[m].ref.model = m

Phases ==
  /\ \A k \in Keys : Indexed(k) => index[k].model \in Models
  /\ \A m \in Models : Phase(m)

\* The uuids of files: 0 is that of no file, and none is of a write to come.
Stamped ==
  \A p \in Paths :
    /\ Resident(p) => body[p].uuid # 0
    /\ side[p] # NoSide => side[p].uuid # 0
    /\ side[p].uuid <= minted

\* A write goes to a path that has no body yet, and its uuid is new there: its
\* sidecar is that of the body from the moment it is written, and not before.
NewAt(m, p) ==
  /\ pc[m] = "body" => ~Resident(p)
  /\ pc[m] \in {"body", "tokens", "side"} => side[p].uuid # plan[m].uuid
  /\ pc[m] \in {"tokens", "side", "commit"} => body[p].uuid = plan[m].uuid
  /\ pc[m] = "commit" => side[p] = plan[m] \/ side[p].uuid # plan[m].uuid

Fresh == \A m \in Models : NewAt(m, <<m, key[m]>>)

\* The deltas whose bases the counts in memory must protect: those on disk that
\* this process knows of, but for the one that is being registered and those
\* that are being set aside.
Protects(q) ==
  /\ Resident(q) /\ side[q].uuid = body[q].uuid /\ side[q].base # NoPath
  /\ Known(q) /\ ~Discarded(q)
  /\ \A m \in Models : pc[m] = "commit" => q # <<m, key[m]>>

CountedAt(q) == Protects(q) => edge[q] = side[q].base

Counted == \A q \in Paths : CountedAt(q)

DiskInv == DiskTypes /\ Listed /\ Phases /\ Stamped /\ Fresh /\ Counted

-----------------------------------------------------------------------------
(* Keys and paths.                                                          *)

LEMMA KeyFacts ==
  /\ \A m \in Models : Prompts[m] \subseteq Keys
  /\ Keys \subseteq Seq(Nat) \ {<<>>}
  /\ \A m \in Models, k \in Keys :
       <<m, k>> \in Paths /\ ModelOf(<<m, k>>) = m /\ KeyOf(<<m, k>>) = k
  /\ \A p \in Paths :
       ModelOf(p) \in Models /\ KeyOf(p) \in Keys /\ p = <<ModelOf(p), KeyOf(p)>>
  /\ MaxWrites \in Nat /\ NoOne \notin Models
BY DiskAssumption DEF Keys, Paths, ModelOf, KeyOf

LEMMA LongestIn ==
  ASSUME NEW S \in SUBSET Keys, S # {}, NEW k \in Keys, \A j \in S : IsPrefix(j, k)
  PROVE  Longest(S) \in S /\ \A j \in S : Len(j) <= Len(Longest(S))
<1>1. \A j \in S : Len(j) \in 1..Len(k)
  BY KeyFacts DEF IsPrefix
<1>2. Len(k) \in Nat
  BY KeyFacts
<1> DEFINE T == {Len(j) : j \in S}
<1>3. T \in SUBSET (1..Len(k)) /\ T # {}
  BY <1>1
<1>4. PICK j \in S : Len(j) = Max(T)
  BY <1>2, <1>3, MaxInSet
<1>5. \A i \in S : Len(i) <= Len(j)
  <2> SUFFICES ASSUME NEW i \in S PROVE Len(i) <= Len(j)
    OBVIOUS
  <2>1. Len(i) \in T
    OBVIOUS
  <2> QED  BY <2>1, <1>2, <1>3, <1>4, MaxInSet
<1> QED  BY <1>5, Zenon DEF Longest

\* The base of a delta is the path of an indexed strict prefix.
LEMMA PlanType ==
  ASSUME DiskTypes, Phases, NEW k \in Keys, NEW u \in Uuids
  PROVE  /\ PlanFor(k, u) \in Sides /\ PlanFor(k, u).uuid = u
         /\ PlanFor(k, u).base # NoPath =>
              \E j \in Keys : /\ Indexed(j) /\ IsStrictPrefix(j, k)
                              /\ PlanFor(k, u).base = <<index[j].model, j>>
<1> DEFINE parents == {j \in Keys : Indexed(j) /\ IsStrictPrefix(j, k)}
           j    == Longest(parents)
           base == <<index[j].model, j>>
           delta == [uuid |-> u, base |-> base, baseUuid |-> index[j].uuid, depth |-> side[base].depth + 1]
<1>1. CASE parents # {} /\ PlanFor(k, u) = delta
  <2>1. j \in parents
    BY <1>1, LongestIn, Zenon DEF IsStrictPrefix
  <2>2. base \in Paths /\ index[j] \in Refs
    BY <2>1, KeyFacts DEF Phases, Phase, DiskTypes
  <2>3. index[j].uuid \in Uuids /\ side[base].depth + 1 \in Nat
    BY <2>2 DEF DiskTypes, Refs, Sides
  <2>4. delta \in Sides
    BY <2>2, <2>3 DEF Sides
  <2>5. delta.uuid = u /\ delta.base = base
    OBVIOUS
  <2> HIDE DEF delta, base, j
  <2> QED  BY <1>1, <2>1, <2>4, <2>5 DEF base
<1>2. CASE PlanFor(k, u) = [NoSide EXCEPT !.uuid = u]
  <2>1. [NoSide EXCEPT !.uuid = u] = [uuid |-> u, base |-> NoPath, baseUuid |-> 0, depth |-> 0]
    BY DEF NoSide
  <2> QED  BY <1>2, <2>1, KeyFacts DEF Sides, Uuids
<1>3. \/ parents # {} /\ PlanFor(k, u) = delta
      \/ PlanFor(k, u) = [NoSide EXCEPT !.uuid = u]
  BY Zenon DEF PlanFor
<1> QED  BY <1>1, <1>2, <1>3

\* The longest indexed prefix of a prompt is one of the candidates.
LEMMA ResolvesToCandidate ==
  ASSUME NEW m \in Models, key[m] \in Keys, Candidates(m) # {}
  PROVE  /\ Longest(Candidates(m)) \in Keys /\ Indexed(Longest(Candidates(m)))
         /\ IsPrefix(Longest(Candidates(m)), key[m])
<1>1. Candidates(m) \in SUBSET Keys /\ \A j \in Candidates(m) : IsPrefix(j, key[m])
  BY DEF Candidates
<1>2. Longest(Candidates(m)) \in Candidates(m)
  BY <1>1, LongestIn, Zenon
<1> QED  BY <1>2 DEF Candidates

-----------------------------------------------------------------------------
(* The steps of a reader, by what they change.                              *)

\* From one place to the next, with the chain that was read so far.
Moves(m) ==
  /\ pc[m] \in Reading
  /\ \E l \in Reading : Goto(m, l)
  /\ UNCHANGED <<diskVars, memVars, writerVars, hit, tries, served, key, histVars, minted, faults>>

\* The entry of the candidate is taken out of the index.
Forgets(m) ==
  /\ pc[m] \in Reading
  /\ Forget(m)
  /\ Goto(m, "resolve") \/ Goto(m, "unregister")
  /\ UNCHANGED <<diskVars, edge, built, lock, writerVars, hit, tries, served, key, histVars, minted, faults>>

\* The end of the lookup: the rows go to the request, or are another model's.
Serves(m) ==
  /\ pc[m] \in Reading
  /\ \/ OwnModel(m) /\ Goto(m, "touch") /\ UNCHANGED hit
     \/ Goto(m, "idle") /\ hit' = [hit EXCEPT ![m] = NoHit]
  /\ UNCHANGED <<diskVars, memVars, writerVars, tries, key, histVars, minted, faults>>

LEMMA FinishKinds ==
  ASSUME NEW m \in Models, NEW rows, pc[m] \in Reading, Finish(m, rows)
  PROVE  SoftEvict(m) \/ Serves(m)
<1>1. CASE Fits(m, rows)
  <2>1. /\ \/ OwnModel(m) /\ Goto(m, "touch") /\ UNCHANGED hit
           \/ Goto(m, "idle") /\ hit' = [hit EXCEPT ![m] = NoHit]
    BY <1>1, Zenon DEF Finish
  <2>2. UNCHANGED <<diskVars, memVars, writerVars, tries, key, histVars, minted, faults>>
    BY <1>1, Zenon DEF Finish
  <2> QED  BY <2>1, <2>2, Zenon DEF Serves
<1>2. CASE ~Fits(m, rows)
  BY <1>2, Zenon DEF Finish
<1> QED  BY <1>1, <1>2

LEMMA ReaderKinds ==
  ASSUME NEW m \in Models, Reader(m)
  PROVE  \/ GiveUp(m) \/ Resolve(m) \/ Unregister(m) \/ SetAside(m) \/ Touch(m)
         \/ Forgets(m) \/ Moves(m) \/ Serves(m)
<1> USE DEF Reading
<1>0. SoftEvict(m) /\ pc[m] \in Reading => Forgets(m)
  BY DEF SoftEvict, Forgets
<1>1. CASE GiveUp(m) \/ Resolve(m) \/ Unregister(m) \/ SetAside(m) \/ Touch(m)
  BY <1>1
<1>2. CASE Verify(m)
  <2>1. CASE SoftEvict(m)
    BY <1>0, <1>2, <2>1 DEF Verify
  <2>2. CASE ~SoftEvict(m)
    BY <1>2, <2>2 DEF Verify, Moves, readerVars
  <2> QED  BY <2>1, <2>2
<1>3. CASE Quarantine(m)
  BY <1>3 DEF Quarantine, Forgets, readerVars
<1>4. CASE LoadFull(m)
  BY <1>0, <1>4 DEF LoadFull, Moves, readerVars
<1>5. CASE ReadFull(m)
  <2>1. pc[m] \in Reading /\ (Finish(m, BodyRows(HitPath(m))) \/ SoftEvict(m))
    BY <1>5 DEF ReadFull
  <2> QED  BY <1>0, <2>1, FinishKinds
<1>6. CASE LoadChain(m)
  BY <1>6 DEF LoadChain, Moves
<1>7. CASE ReadSide(m)
  BY <1>0, <1>7 DEF ReadSide, Moves
<1>8. CASE ReadLink(m)
  BY <1>0, <1>8 DEF ReadLink, Moves
<1>9. CASE Pin(m)
  BY <1>0, <1>9 DEF Pin, Moves, readerVars
<1>10. CASE ReadChain(m)
  <2>1. pc[m] \in Reading /\ (Finish(m, Assembled(chain[m])) \/ SoftEvict(m))
    BY <1>10 DEF ReadChain
  <2> QED  BY <1>0, <2>1, FinishKinds
<1> QED  BY <1>1, <1>2, <1>3, <1>4, <1>5, <1>6, <1>7, <1>8, <1>9, <1>10 DEF Reader

\* A lookup that goes on with a candidate had it before, but for Resolve.
LEMMA StillChosen ==
  ASSUME NEW m \in Models, Reader(m), ~Resolve(m), pc \in [Models -> Labels], pc'[m] \in Chosen
  PROVE  pc[m] \in Chosen /\ hit' = hit
BY ReaderKinds DEF GiveUp, Unregister, SetAside, Touch, Forgets, Moves, Serves, Goto, Chosen, Reading, readerVars

-----------------------------------------------------------------------------
(* The types.                                                               *)

LEMMA RecordFacts ==
  /\ NoBody \in Bodies /\ NoSide \in Sides /\ NoRef \in Refs
  /\ NoHit \in [key : Keys \cup {<<>>}, ref : Refs]
  /\ 0 \in Uuids /\ 0 \in 0..MaxWrites
BY KeyFacts DEF NoBody, NoSide, NoRef, NoHit, Bodies, Sides, Refs, Uuids

LEMMA TypesStart == Init => DiskTypes
<1> SUFFICES ASSUME Init PROVE DiskTypes
  OBVIOUS
<1>1. "idle" \in Labels
  BY DEF Labels
<1> QED  BY <1>1, RecordFacts DEF Init, DiskTypes

\* What a rebuild of the index and of the counts writes into them.
LEMMA RebuildTypes ==
  ASSUME DiskTypes, Phases, Listed
  PROVE  /\ Scanned \in [Keys -> Refs] /\ Rebuilt \in [Paths -> Paths \cup {NoPath}]
         /\ \A k \in Keys : Scanned[k] # NoRef => Scanned[k].model \in Models
<1>1. Rebuilt \in [Paths -> Paths \cup {NoPath}]
  BY DEF DiskTypes, Rebuilt, Sides
<1>2. ASSUME NEW k \in Keys
      PROVE  Scanned[k] \in Refs /\ (Scanned[k] # NoRef => Scanned[k].model \in Models)
  <2> DEFINE found == {i \in DOMAIN order : KeyOf(order[i]) = k /\ Readable(order[i])}
             p == order[Max(found)]
             ref == [model |-> ModelOf(p), uuid |-> side[p].uuid]
  <2>1. CASE found = {}
    <3>1. Scanned[k] = index[k]
      BY <2>1, Zenon DEF Scanned
    <3> QED  BY <3>1 DEF DiskTypes, Phases, Phase, Indexed
  <2>2. CASE found # {}
    <3>1. DOMAIN order = 1..Len(order) /\ Len(order) \in Nat
      BY DEF Listed
    <3>2. found \in SUBSET (1..Len(order))
      BY <3>1
    <3>3. Max(found) \in found
      BY <2>2, <3>1, <3>2, MaxInSet, Zenon
    <3>4. p \in Paths
      BY <3>1, <3>3 DEF Listed
    <3>5. Scanned[k] = ref
      BY <2>2, Zenon DEF Scanned
    <3>6. ref \in Refs /\ ref.model \in Models
      BY <3>4, KeyFacts DEF DiskTypes, Refs, Sides
    <3> QED  BY <3>5, <3>6
  <2> QED  BY <2>1, <2>2
<1>3. Scanned = [k \in Keys |-> Scanned[k]]
  BY DEF Scanned
<1> QED  BY <1>1, <1>2, <1>3

LEMMA TypesPersist ==
  ASSUME DiskTypes, Phases, NEW m \in Models, NEW k \in Keys, Persist(m, k)
  PROVE  DiskTypes'
<1>1. minted + 1 \in 0..MaxWrites /\ minted' = minted + 1 /\ minted + 1 \in Uuids
  BY KeyFacts DEF Persist, DiskTypes, Uuids
<1>2. PlanFor(k, minted + 1) \in Sides
  BY <1>1, PlanType
<1>3. /\ pc' \in [Models -> Labels] /\ key' \in [Models -> Keys \cup {<<>>}]
      /\ plan' \in [Models -> Sides] /\ saved' \in [Models -> BOOLEAN]
  BY <1>2 DEF Persist, Goto, DiskTypes, Labels
<1> QED  BY <1>1, <1>3 DEF Persist, DiskTypes, diskVars, memVars, readerVars

LEMMA TypesWriter ==
  ASSUME DiskTypes, Phases, NEW m \in Models, Writer(m)
  PROVE  DiskTypes'
<1> USE DEF Goto, DiskTypes, Labels, Locked, diskVars, memVars, writerVars, readerVars, histVars
<1> HIDE DEF DiskTypes
<1>1. CASE WriteBody(m)
  <2> DEFINE p == <<m, key[m]>>
             delta == plan[m].base # NoPath /\ ParentResident(plan[m].base, plan[m].baseUuid)
             b == [uuid |-> plan[m].uuid, from |-> IF delta THEN Offset(plan[m].base) ELSE 0]
             full == [NoSide EXCEPT !.uuid = plan[m].uuid]
  <2>1. plan[m] \in Sides /\ plan[m].uuid \in Uuids
    BY DEF DiskTypes, Sides
  <2>2. delta => Offset(plan[m].base) \in Nat
    <3>1. delta => plan[m].base \in Paths
      BY <2>1 DEF Sides
    <3>2. \A q \in Paths : q[2] \in Seq(Nat)
      BY KeyFacts DEF KeyOf
    <3> QED  BY <3>1, <3>2 DEF Offset
  <2>3. b \in Bodies
    BY <2>1, <2>2 DEF Bodies
  <2>4. full \in Sides
    <3>1. full = [uuid |-> plan[m].uuid, base |-> NoPath, baseUuid |-> 0, depth |-> 0]
      BY DEF NoSide
    <3> QED  BY <2>1, <3>1, RecordFacts DEF Sides
  <2>5. body' = [body EXCEPT ![p] = b] /\ plan' = [plan EXCEPT ![m] = IF delta THEN plan[m] ELSE full]
    BY <1>1, Zenon DEF WriteBody
  <2> HIDE DEF b, full, delta
  <2>6. body' \in [Paths -> Bodies] /\ plan' \in [Models -> Sides]
    BY <2>1, <2>3, <2>4, <2>5 DEF DiskTypes
  <2> QED  BY <1>1, <2>6 DEF WriteBody, DiskTypes
<1>2. CASE BodyFails(m)
  BY <1>2 DEF BodyFails, DiskTypes
<1>3. CASE WriteTokens(m)
  <2>1. plan[m].uuid \in Uuids
    BY DEF DiskTypes, Sides
  <2> QED  BY <1>3, <2>1 DEF WriteTokens, DiskTypes
<1>4. CASE TokensFail(m) \/ SideFails(m)
  BY <1>4 DEF TokensFail, SideFails, DiskTypes
<1>5. CASE WriteSide(m)
  BY <1>5 DEF WriteSide, DiskTypes
<1>6. CASE Commit(m)
  <2>1. plan[m].uuid \in Uuids /\ plan[m].base \in Paths \cup {NoPath}
    BY DEF DiskTypes, Sides
  <2>2. [model |-> m, uuid |-> plan[m].uuid] \in Refs
    BY <2>1 DEF Refs
  <2>3. index' \in [Keys -> Refs]
    BY <1>6, <2>2 DEF Commit, DiskTypes
  <2>4. edge' \in [Paths -> Paths \cup {NoPath}]
    BY <1>6, <2>1 DEF Commit, DiskTypes
  <2>5. pc' \in [Models -> Labels] /\ lock' \in Models \cup {NoOne}
    <3>1. CASE OverCap
      BY <1>6, <3>1 DEF Commit, DiskTypes
    <3>2. CASE ~OverCap
      BY <1>6, <3>2 DEF Commit, DiskTypes
    <3> QED  BY <3>1, <3>2
  <2> QED  BY <1>6, <2>3, <2>4, <2>5 DEF Commit, DiskTypes
<1>7. CASE EndPass(m) \/ Skip(m)
  BY <1>7 DEF EndPass, Skip, DiskTypes
<1>8. CASE Unlink(m)
  BY <1>8, RecordFacts DEF Unlink, DiskTypes
<1>9. CASE UnlinkSide(m)
  BY <1>9, RecordFacts DEF UnlinkSide, DiskTypes
<1>10. CASE UnlinkTokens(m)
  BY <1>10, RecordFacts DEF UnlinkTokens, DiskTypes
<1> QED  BY <1>1, <1>2, <1>3, <1>4, <1>5, <1>6, <1>7, <1>8, <1>9, <1>10 DEF Writer

LEMMA TypesReader ==
  ASSUME DiskTypes, Phases, NEW m \in Models, Reader(m)
  PROVE  DiskTypes'
<1> USE DEF Goto, Labels, Chosen, Reading, diskVars, memVars, writerVars, readerVars, histVars
<1>1. CASE GiveUp(m)
  BY <1>1, RecordFacts DEF GiveUp, DiskTypes
<1>2. CASE Resolve(m)
  <2> DEFINE k == Longest(Candidates(m))
             h == [key |-> k, ref |-> index[k]]
  <2>1. k \in Keys
    <3>1. key[m] \in Keys /\ Candidates(m) # {}
      BY <1>2, KeyFacts DEF Resolve, Phases, Phase
    <3> QED  BY <3>1, ResolvesToCandidate
  <2>2. h \in [key : Keys \cup {<<>>}, ref : Refs]
    BY <2>1 DEF DiskTypes
  <2>3. hit' = [hit EXCEPT ![m] = h]
    BY <1>2, Zenon DEF Resolve
  <2> HIDE DEF h
  <2> QED  BY <1>2, <2>2, <2>3 DEF Resolve, DiskTypes
<1>3. CASE Unregister(m)
  BY <1>3, RecordFacts DEF Unregister, DiskTypes
<1>4. CASE SetAside(m)
  BY <1>4, RecordFacts DEF SetAside, DiskTypes
<1>5. CASE Touch(m)
  BY <1>5, RecordFacts DEF Touch, DiskTypes
<1>6. CASE Forgets(m)
  BY <1>6, RecordFacts DEF Forgets, Forget, DiskTypes
<1>7. CASE Moves(m)
  BY <1>7 DEF Moves, DiskTypes
<1>8. CASE Serves(m)
  BY <1>8, RecordFacts DEF Serves, DiskTypes
<1> QED  BY <1>1, <1>2, <1>3, <1>4, <1>5, <1>6, <1>7, <1>8, ReaderKinds

LEMMA TypesStep ==
  ASSUME DiskTypes, Phases, Listed, [Next]_vars
  PROVE  DiskTypes'
<1> USE DEF diskVars, memVars, writerVars, readerVars, histVars
<1>1. ASSUME NEW m \in Models, NEW k \in Keys, Lookup(m, k)
      PROVE  DiskTypes'
  <2>1. index' \in [Keys -> Refs] /\ edge' \in [Paths -> Paths \cup {NoPath}] /\ built' \in [Models -> BOOLEAN]
    BY <1>1, RebuildTypes DEF Lookup, DiskTypes
  <2>2. pc' \in [Models -> Labels] /\ key' \in [Models -> Keys \cup {<<>>}]
    BY <1>1 DEF Lookup, Goto, Labels, DiskTypes
  <2> QED  BY <1>1, <2>1, <2>2 DEF Lookup, DiskTypes
<1>2. CASE Crash
  <2>1. "idle" \in Labels
    BY DEF Labels
  <2> QED  BY <1>2, <2>1, RecordFacts DEF Crash, DiskTypes
<1>3. ASSUME NEW p \in Paths, Damage(p)
      PROVE  DiskTypes'
  BY <1>3 DEF Damage, DiskTypes
<1>4. CASE UNCHANGED vars
  BY <1>4 DEF vars, DiskTypes
<1> QED  BY <1>1, <1>2, <1>3, <1>4, TypesPersist, TypesWriter, TypesReader DEF Next

-----------------------------------------------------------------------------
(* The directory listing.                                                   *)

LEMMA TouchedListed ==
  ASSUME Listed, NEW p \in Paths
  PROVE  /\ Touched(p) \in Seq(Paths) /\ IsInjective(Touched(p))
         /\ ToSet(Touched(p)) = Residents \cup {p}
<1> DEFINE s == RemoveFirst(order, p)
<1>1. s \in Seq(Paths) /\ ToSet(s) = Residents \ {p} /\ IsInjective(s)
  BY ToSetRemoveFirst DEF Listed
<1> HIDE DEF s
<1>2. /\ Append(s, p) \in Seq(Paths) /\ ToSet(Append(s, p)) = ToSet(s) \cup {p}
      /\ IsInjective(Append(s, p))
  BY <1>1, ToSetAppend
<1> QED  BY <1>1, <1>2 DEF Touched, s

LEMMA RemovedListed ==
  ASSUME Listed, NEW p
  PROVE  /\ RemoveFirst(order, p) \in Seq(Paths) /\ IsInjective(RemoveFirst(order, p))
         /\ ToSet(RemoveFirst(order, p)) = Residents \ {p}
BY ToSetRemoveFirst DEF Listed

\* Bodies are renamed into place, taken away, and left alone.
LEMMA BodySteps ==
  ASSUME DiskTypes, Phases, [Next]_vars
  PROVE  \/ \E m \in Models :
              /\ WriteBody(m) /\ <<m, key[m]>> \in Paths
              /\ order' = Touched(<<m, key[m]>>) /\ Residents' = Residents \cup {<<m, key[m]>>}
         \/ \E p : order' = RemoveFirst(order, p) /\ Residents' = Residents \ {p}
         \/ /\ Residents' = Residents
            /\ order' = order \/ \E p \in Residents : order' = Touched(p)
<1> DEFINE Removes == \E p : order' = RemoveFirst(order, p) /\ Residents' = Residents \ {p}
           Keeps == /\ Residents' = Residents
                    /\ order' = order \/ \E p \in Residents : order' = Touched(p)
<1>1. ASSUME body' = body, order' = order  PROVE Keeps
  BY <1>1 DEF Residents, Resident
<1>2. ASSUME NEW m \in Models, WriteBody(m)
      PROVE  /\ <<m, key[m]>> \in Paths /\ order' = Touched(<<m, key[m]>>)
             /\ Residents' = Residents \cup {<<m, key[m]>>}
  <2> DEFINE p == <<m, key[m]>>
  <2>1. p \in Paths /\ plan[m].uuid \in 1..minted
    BY <1>2, KeyFacts DEF WriteBody, Phases, Phase, Writing
  <2>2. \E f : body' = [body EXCEPT ![p] = [uuid |-> plan[m].uuid, from |-> f]]
    BY <1>2, Zenon DEF WriteBody
  <2>3. PICK f : body' = [body EXCEPT ![p] = [uuid |-> plan[m].uuid, from |-> f]]
    BY <2>2
  <2>4. [uuid |-> plan[m].uuid, from |-> f] # NoBody
    BY <2>1 DEF NoBody, DiskTypes
  <2>5. Residents' = Residents \cup {p}
    BY <2>1, <2>3, <2>4 DEF Residents, Resident, DiskTypes
  <2>6. order' = Touched(p)
    BY <1>2 DEF WriteBody
  <2> QED  BY <2>1, <2>5, <2>6
<1>3. ASSUME NEW p, body' = [body EXCEPT ![p] = NoBody]
      PROVE  Residents' = Residents \ {p}
  BY <1>3 DEF Residents, Resident, DiskTypes
<1>4. ASSUME NEW m \in Models, Unlink(m)  PROVE Removes
  <2>1. /\ body' = [body EXCEPT ![Head(todo[m])] = NoBody]
        /\ order' = RemoveFirst(order, Head(todo[m]))
    BY <1>4 DEF Unlink
  <2> QED  BY <2>1, <1>3
<1>5. ASSUME NEW m \in Models, SetAside(m)  PROVE Removes
  <2>1. /\ body' = [body EXCEPT ![HitPath(m)] = NoBody]
        /\ order' = RemoveFirst(order, HitPath(m))
    BY <1>5 DEF SetAside
  <2> QED  BY <2>1, <1>3
<1>6. ASSUME NEW m \in Models, Writer(m), ~WriteBody(m), ~Unlink(m)  PROVE Keeps
  <2>1. body' = body /\ order' = order
    BY <1>6 DEF Writer, BodyFails, WriteTokens, TokensFail, WriteSide, SideFails, Commit, EndPass,
                Skip, UnlinkSide, UnlinkTokens, diskVars
  <2> QED  BY <2>1, <1>1
<1>7. ASSUME NEW m \in Models, Reader(m), ~SetAside(m)  PROVE Keeps
  <2>1. CASE GiveUp(m) \/ Resolve(m) \/ Unregister(m) \/ Forgets(m) \/ Moves(m) \/ Serves(m)
    <3>1. body' = body /\ order' = order
      BY <2>1 DEF GiveUp, Resolve, Unregister, Forgets, Moves, Serves, diskVars
    <3> QED  BY <3>1, <1>1
  <2>2. CASE Touch(m)
    <3>1. HitPath(m) \in Paths
      BY <2>2, KeyFacts DEF Touch, Phases, Phase, HitPath, Chosen
    <3>2. body' = body /\ (order' = order \/ (Resident(HitPath(m)) /\ order' = Touched(HitPath(m))))
      BY <2>2, Zenon DEF Touch
    <3>3. Residents' = Residents
      BY <3>2 DEF Residents, Resident
    <3>4. Resident(HitPath(m)) => HitPath(m) \in Residents
      BY <3>1 DEF Residents
    <3> QED  BY <3>2, <3>3, <3>4
  <2> QED  BY <2>1, <2>2, <1>7, ReaderKinds
<1>8. CASE \/ \E m \in Models, k \in Keys : Persist(m, k) \/ Lookup(m, k)
           \/ Crash \/ (\E p \in Paths : Damage(p)) \/ UNCHANGED vars
  <2>1. body' = body /\ order' = order
    BY <1>8 DEF Persist, Lookup, Crash, Damage, vars, diskVars
  <2> QED  BY <2>1, <1>1
<1> HIDE DEF Removes, Keeps
<1>9. \/ \E m \in Models : WriteBody(m) \/ Unlink(m) \/ SetAside(m)
      \/ \E m \in Models : Writer(m) /\ ~WriteBody(m) /\ ~Unlink(m)
      \/ \E m \in Models : Reader(m) /\ ~SetAside(m)
      \/ \E m \in Models, k \in Keys : Persist(m, k) \/ Lookup(m, k)
      \/ Crash \/ (\E p \in Paths : Damage(p)) \/ UNCHANGED vars
  BY Zenon DEF Next
<1> QED  BY <1>2, <1>4, <1>5, <1>6, <1>7, <1>8, <1>9 DEF Removes, Keeps

LEMMA ListedStep ==
  ASSUME DiskTypes, Phases, Listed, [Next]_vars
  PROVE  Listed'
<1>1. ASSUME NEW p \in Paths, order' = Touched(p), Residents' = Residents \cup {p}  PROVE Listed'
  BY <1>1, TouchedListed DEF Listed
<1>2. ASSUME NEW p, order' = RemoveFirst(order, p), Residents' = Residents \ {p}  PROVE Listed'
  BY <1>2, RemovedListed DEF Listed
<1>3. ASSUME Residents' = Residents, order' = order  PROVE Listed'
  BY <1>3 DEF Listed
<1>4. ASSUME Residents' = Residents, NEW p \in Residents, order' = Touched(p)  PROVE Listed'
  <2>1. p \in Paths /\ Residents \cup {p} = Residents
    BY DEF Residents
  <2> QED  BY <1>1, <1>4, <2>1
<1> QED  BY <1>1, <1>2, <1>3, <1>4, BodySteps

-----------------------------------------------------------------------------
(* Where the workers stand.                                                 *)

\* A step of the worker of m leaves the others where they are.
LEMMA OthersStay ==
  ASSUME DiskTypes, Phases, DiskTypes', NEW m \in Models, NEW n \in Models \ {m},
         pc'[n] = pc[n], key'[n] = key[n], plan'[n] = plan[n], hit'[n] = hit[n],
         minted <= minted',
         lock' = lock \/ (lock \in {m, NoOne} /\ lock' \in {m, NoOne})
  PROVE  Phase(n)'
<1>1. NoOne \notin Models /\ minted \in Nat /\ minted' \in Nat
  BY KeyFacts DEF DiskTypes
<1>2. \A u \in 1..minted : u \in 1..minted'
  BY <1>1
<1>3. Phase(n)
  BY DEF Phases
<1>4. pc'[n] \in Locked <=> lock' = n
  BY <1>1, <1>3 DEF Phase
<1>5. pc'[n] \in Writing => plan'[n].uuid \in 1..minted'
  BY <1>2, <1>3 DEF Phase
<1> QED  BY <1>3, <1>4, <1>5 DEF Phase

\* The writer's own place.
LEMMA PhaseOfWriter ==
  ASSUME DiskTypes, Phases, NEW m \in Models, Writer(m)
  PROVE  Phase(m)'
<1> USE DEF Goto, Writing, Chosen, Reading, Locked, diskVars, memVars, writerVars, readerVars, histVars
<1>1. Phase(m) /\ NoOne \notin Models
  BY KeyFacts DEF Phases
<1>2. CASE WriteBody(m)
  <2>1. plan'[m].uuid = plan[m].uuid
    <3>1. plan[m].uuid = [NoSide EXCEPT !.uuid = plan[m].uuid].uuid
      BY DEF NoSide
    <3> QED  BY <1>2, <3>1 DEF WriteBody, DiskTypes
  <2>2. UNCHANGED <<key, hit, minted>> /\ lock' = m
    BY <1>2 DEF WriteBody
  <2>3. pc[m] = "body" /\ pc'[m] = "tokens"
    BY <1>2 DEF WriteBody, DiskTypes
  <2> QED  BY <1>1, <2>1, <2>2, <2>3 DEF Phase
<1>3. CASE BodyFails(m)
  BY <1>1, <1>3 DEF BodyFails, Phase, DiskTypes
<1>4. CASE WriteTokens(m) \/ TokensFail(m)
  <2>1. UNCHANGED <<key, plan, hit, minted, lock>> /\ pc[m] = "tokens" /\ pc'[m] = "side"
    BY <1>4 DEF WriteTokens, TokensFail, DiskTypes
  <2> QED  BY <1>1, <2>1 DEF Phase
<1>5. CASE WriteSide(m) \/ SideFails(m)
  <2>1. UNCHANGED <<key, plan, hit, minted, lock>> /\ pc[m] = "side" /\ pc'[m] = "commit"
    BY <1>5 DEF WriteSide, SideFails, DiskTypes
  <2> QED  BY <1>1, <2>1 DEF Phase
<1>6. CASE Commit(m)
  <2>1. UNCHANGED <<key, plan, hit, minted>> /\ pc[m] = "commit"
    BY <1>6 DEF Commit
  <2>2. (pc'[m] = "evict" /\ lock' = lock) \/ (pc'[m] = "idle" /\ lock' = NoOne)
    BY <1>6 DEF Commit, DiskTypes
  <2> QED  BY <1>1, <2>1, <2>2 DEF Phase
<1>7. CASE EndPass(m)
  BY <1>1, <1>7 DEF EndPass, Phase, DiskTypes
<1>8. CASE Skip(m)
  BY <1>1, <1>8 DEF Skip, Phase
<1>9. CASE Unlink(m) \/ UnlinkSide(m) \/ UnlinkTokens(m)
  <2>1. /\ UNCHANGED <<key, plan, hit, minted, lock>>
        /\ pc[m] \in {"evict", "unlink", "unlink tokens"}
        /\ pc'[m] \in {"evict", "unlink", "unlink tokens"}
    BY <1>9 DEF Unlink, UnlinkSide, UnlinkTokens, DiskTypes
  <2> QED  BY <1>1, <2>1 DEF Phase
<1> QED  BY <1>2, <1>3, <1>4, <1>5, <1>6, <1>7, <1>8, <1>9 DEF Writer

\* What the steps of a writer leave alone.
LEMMA WriterFrame ==
  ASSUME DiskTypes, Phases, NEW m \in Models, Writer(m)
  PROVE  /\ UNCHANGED <<built, key, hit, minted>>
         /\ \A n \in Models \ {m} : pc'[n] = pc[n] /\ plan'[n] = plan[n]
         /\ lock' = lock \/ (lock \in {m, NoOne} /\ lock' \in {m, NoOne})
<1> USE DEF Goto, diskVars, memVars, writerVars, readerVars, histVars
<1>1. CASE WriteBody(m)
  BY <1>1 DEF WriteBody, DiskTypes
<1>2. CASE BodyFails(m) \/ WriteTokens(m) \/ TokensFail(m) \/ WriteSide(m) \/ SideFails(m)
  BY <1>2 DEF BodyFails, WriteTokens, TokensFail, WriteSide, SideFails, DiskTypes
<1>3. CASE Commit(m) \/ EndPass(m)
  <2>1. lock = m
    BY <1>3 DEF Commit, EndPass, Phases, Phase, Locked
  <2>2. /\ UNCHANGED <<key, plan, hit, minted>> /\ lock' \in {lock, NoOne}
        /\ \A n \in Models \ {m} : pc'[n] = pc[n]
    BY <1>3 DEF Commit, EndPass, DiskTypes
  <2>3. UNCHANGED built
    BY <1>3 DEF Commit, EndPass
  <2> QED  BY <2>1, <2>2, <2>3
<1>4. CASE Skip(m) \/ Unlink(m) \/ UnlinkSide(m) \/ UnlinkTokens(m)
  BY <1>4 DEF Skip, Unlink, UnlinkSide, UnlinkTokens, DiskTypes
<1> QED  BY <1>1, <1>2, <1>3, <1>4 DEF Writer

LEMMA PhasesWriter ==
  ASSUME DiskTypes, Phases, NEW m \in Models, Writer(m)
  PROVE  Phases'
<1>1. ASSUME NEW n \in Models  PROVE Phase(n)'
  <2>1. CASE n = m
    BY <2>1, PhaseOfWriter
  <2>2. CASE n # m
    <3>1. DiskTypes' /\ minted' = minted /\ minted \in Int
      BY TypesWriter, WriterFrame DEF DiskTypes
    <3> QED  BY <2>2, <3>1, WriterFrame, OthersStay
  <2> QED  BY <2>1, <2>2
<1>2. \A k \in Keys : index'[k] # NoRef => index'[k].model \in Models
  <2>1. CASE Commit(m)
    BY <2>1 DEF Commit, Phases, Indexed, DiskTypes
  <2>2. CASE ~Commit(m)
    <3>1. index' = index
      BY <2>2 DEF Writer, WriteBody, BodyFails, WriteTokens, TokensFail, WriteSide, SideFails, EndPass,
                  Skip, Unlink, UnlinkSide, UnlinkTokens, memVars
    <3> QED  BY <3>1 DEF Phases, Indexed
  <2> QED  BY <2>1, <2>2
<1> QED  BY <1>1, <1>2 DEF Phases, Indexed

LEMMA PhasesReader ==
  ASSUME DiskTypes, Phases, NEW m \in Models, Reader(m)
  PROVE  Phases'
<1> USE DEF Goto, Writing, Chosen, Reading, Locked, diskVars, memVars, writerVars, readerVars, histVars
<1>1. CASE GiveUp(m)
  BY <1>1 DEF GiveUp, Phases, Phase, Indexed, DiskTypes
<1>2. CASE Resolve(m)
  <2> DEFINE k == Longest(Candidates(m))
             h == [key |-> k, ref |-> index[k]]
  <2>1. k \in Keys /\ Indexed(k)
    <3>1. key[m] \in Keys /\ Candidates(m) # {}
      BY <1>2, KeyFacts DEF Resolve, Phases, Phase
    <3> QED  BY <3>1, ResolvesToCandidate
  <2>2. h.key \in Keys /\ h.ref.model \in Models
    BY <2>1 DEF Phases
  <2>3. hit' = [hit EXCEPT ![m] = h]
    BY <1>2, Zenon DEF Resolve
  <2>4. /\ UNCHANGED <<index, built, key, plan, minted, lock>>
        /\ pc[m] = "resolve" /\ pc' = [pc EXCEPT ![m] = "verify"]
    BY <1>2 DEF Resolve
  <2> HIDE DEF h
  <2> QED  BY <2>2, <2>3, <2>4 DEF Phases, Phase, Indexed, DiskTypes
<1>3. CASE Unregister(m) \/ SetAside(m)
  <2>1. /\ UNCHANGED <<index, key, plan, hit, minted, lock>>
        /\ (pc[m] = "unregister" /\ pc' = [pc EXCEPT ![m] = "aside"])
           \/ (pc[m] = "aside" /\ pc' = [pc EXCEPT ![m] = "resolve"])
    BY <1>3 DEF Unregister, SetAside
  <2> QED  BY <2>1 DEF Phases, Phase, Indexed, DiskTypes
<1>4. CASE Touch(m)
  BY <1>4 DEF Touch, Phases, Phase, Indexed, DiskTypes
<1>5. CASE Forgets(m)
  <2>1. /\ index' = [index EXCEPT ![hit[m].key] = NoRef]
        /\ UNCHANGED <<key, plan, hit, minted, lock>> /\ pc[m] \in Chosen
        /\ pc' = [pc EXCEPT ![m] = "resolve"] \/ pc' = [pc EXCEPT ![m] = "unregister"]
    BY <1>5 DEF Forgets, Forget
  <2>2. \A k \in Keys : index'[k] # NoRef => index'[k].model \in Models
    BY <2>1 DEF Phases, Phase, Indexed, DiskTypes
  <2>3. ASSUME NEW n \in Models  PROVE Phase(n)'
    <3>1. /\ Phase(n) /\ UNCHANGED <<key, plan, hit, minted, lock>>
          /\ pc'[n] = pc[n] \/ (pc[n] \in Chosen /\ pc'[n] \in {"resolve", "unregister"})
      BY <2>1 DEF Phases, DiskTypes
    <3> QED  BY <3>1 DEF Phase
  <2> QED  BY <2>2, <2>3 DEF Phases, Indexed
<1>6. CASE Moves(m)
  BY <1>6, ZenonT(30) DEF Moves, Phases, Phase, Indexed, DiskTypes
<1>7. CASE Serves(m)
  <2>1. CASE OwnModel(m) /\ Goto(m, "touch") /\ UNCHANGED hit
    BY <1>7, <2>1 DEF Serves, OwnModel, Phases, Phase, Indexed, DiskTypes
  <2>2. CASE Goto(m, "idle") /\ hit' = [hit EXCEPT ![m] = NoHit]
    BY <1>7, <2>2 DEF Serves, Phases, Phase, Indexed, DiskTypes
  <2> QED  BY <1>7, <2>1, <2>2 DEF Serves
<1> QED  BY <1>1, <1>2, <1>3, <1>4, <1>5, <1>6, <1>7, ReaderKinds

LEMMA PhasesStep ==
  ASSUME DiskTypes, Phases, Listed, [Next]_vars
  PROVE  Phases'
<1> USE DEF Goto, Writing, Chosen, Reading, Locked, diskVars, memVars, writerVars, readerVars, histVars
<1>1. ASSUME NEW m \in Models, NEW k \in Keys, Persist(m, k)
      PROVE  Phases'
  <2>1. minted + 1 \in Uuids /\ minted \in Nat /\ minted' = minted + 1
    BY <1>1, KeyFacts DEF Persist, DiskTypes, Uuids
  <2>2. PlanFor(k, minted + 1).uuid = minted + 1
    BY <2>1, PlanType
  <2>3. /\ UNCHANGED <<index, hit, lock>> /\ pc[m] = "idle" /\ k \in Prompts[m]
        /\ key' = [key EXCEPT ![m] = k] /\ plan' = [plan EXCEPT ![m] = PlanFor(k, minted + 1)]
        /\ pc' = [pc EXCEPT ![m] = "body"]
    BY <1>1 DEF Persist
  <2>4. plan'[m].uuid \in 1..minted'
    BY <2>1, <2>2, <2>3 DEF DiskTypes
  <2>5. \A u \in 1..minted : u \in 1..minted'
    BY <2>1
  <2> QED  BY <2>3, <2>4, <2>5 DEF Phases, Phase, Indexed, DiskTypes
<1>2. ASSUME NEW m \in Models, NEW k \in Keys, Lookup(m, k)
      PROVE  Phases'
  <2>1. /\ UNCHANGED <<plan, hit, lock, minted>> /\ pc[m] = "idle" /\ k \in Prompts[m]
        /\ key' = [key EXCEPT ![m] = k] /\ pc' = [pc EXCEPT ![m] = "resolve"]
    BY <1>2 DEF Lookup
  <2>2. \A j \in Keys : index'[j] # NoRef => index'[j].model \in Models
    BY <1>2, RebuildTypes DEF Lookup, Phases, Phase, Indexed
  <2> QED  BY <2>1, <2>2 DEF Phases, Phase, Indexed, DiskTypes
<1>3. CASE Crash
  BY <1>3, KeyFacts DEF Crash, Phases, Phase, Indexed
<1>4. CASE (\E p \in Paths : Damage(p)) \/ UNCHANGED vars
  <2>1. UNCHANGED <<index, lock, pc, key, plan, hit, minted>>
    BY <1>4 DEF Damage, vars
  <2> QED  BY <2>1 DEF Phases, Phase, Indexed
<1> QED  BY <1>1, <1>2, <1>3, <1>4, PhasesWriter, PhasesReader DEF Next

-----------------------------------------------------------------------------
(* The uuids of the files, and the counts.                                  *)

\* The steps that change a sidecar, and how.
LEMMA SideSteps ==
  ASSUME DiskTypes, Phases, [Next]_vars
  PROVE  \/ side' = side
         \/ \E m \in Models : WriteSide(m) /\ side' = [side EXCEPT ![<<m, key[m]>>] = plan[m]]
         \/ \E m \in Models : UnlinkSide(m) /\ side' = [side EXCEPT ![Head(todo[m])] = NoSide]
         \/ \E m \in Models : SetAside(m) /\ side' = [side EXCEPT ![HitPath(m)] = NoSide]
<1> USE DEF diskVars
<1>1. ASSUME NEW m \in Models, Writer(m), ~WriteSide(m), ~UnlinkSide(m)  PROVE side' = side
  BY <1>1 DEF Writer, WriteBody, BodyFails, WriteTokens, TokensFail, SideFails, Commit, EndPass,
              Skip, Unlink, UnlinkTokens
<1>2. ASSUME NEW m \in Models, Reader(m), ~SetAside(m)  PROVE side' = side
  <2>1. GiveUp(m) \/ Resolve(m) \/ Unregister(m) \/ Touch(m) \/ Forgets(m) \/ Moves(m) \/ Serves(m)
    BY <1>2, ReaderKinds
  <2> QED  BY <2>1 DEF GiveUp, Resolve, Unregister, Touch, Forgets, Moves, Serves
<1>3. CASE \/ \E m \in Models, k \in Keys : Persist(m, k) \/ Lookup(m, k)
           \/ Crash \/ (\E p \in Paths : Damage(p)) \/ UNCHANGED vars
  BY <1>3 DEF Persist, Lookup, Crash, Damage, vars
<1>4. \A m \in Models : WriteSide(m) => side' = [side EXCEPT ![<<m, key[m]>>] = plan[m]]
  BY DEF WriteSide
<1>5. \A m \in Models : UnlinkSide(m) => side' = [side EXCEPT ![Head(todo[m])] = NoSide]
  BY DEF UnlinkSide
<1>6. \A m \in Models : SetAside(m) => side' = [side EXCEPT ![HitPath(m)] = NoSide]
  BY DEF SetAside
<1> QED  BY <1>1, <1>2, <1>3, <1>4, <1>5, <1>6 DEF Next

\* The steps that change a body, and how.
LEMMA BodyChanges ==
  ASSUME DiskTypes, Phases, [Next]_vars
  PROVE  \/ body' = body
         \/ \E m \in Models, f \in Nat :
              WriteBody(m) /\ body' = [body EXCEPT ![<<m, key[m]>>] = [uuid |-> plan[m].uuid, from |-> f]]
         \/ \E m \in Models : Unlink(m) /\ body' = [body EXCEPT ![Head(todo[m])] = NoBody]
         \/ \E m \in Models : SetAside(m) /\ body' = [body EXCEPT ![HitPath(m)] = NoBody]
<1> USE DEF diskVars
<1>1. ASSUME NEW m \in Models, Writer(m), ~WriteBody(m), ~Unlink(m)  PROVE body' = body
  BY <1>1 DEF Writer, WriteSide, BodyFails, WriteTokens, TokensFail, SideFails, Commit, EndPass,
              Skip, UnlinkSide, UnlinkTokens
<1>2. ASSUME NEW m \in Models, Reader(m), ~SetAside(m)  PROVE body' = body
  <2>1. GiveUp(m) \/ Resolve(m) \/ Unregister(m) \/ Touch(m) \/ Forgets(m) \/ Moves(m) \/ Serves(m)
    BY <1>2, ReaderKinds
  <2> QED  BY <2>1 DEF GiveUp, Resolve, Unregister, Touch, Forgets, Moves, Serves
<1>3. CASE \/ \E m \in Models, k \in Keys : Persist(m, k) \/ Lookup(m, k)
           \/ Crash \/ (\E p \in Paths : Damage(p)) \/ UNCHANGED vars
  BY <1>3 DEF Persist, Lookup, Crash, Damage, vars
<1>4. ASSUME NEW m \in Models, WriteBody(m)
      PROVE  \E f \in Nat : body' = [body EXCEPT ![<<m, key[m]>>] = [uuid |-> plan[m].uuid, from |-> f]]
  <2> DEFINE p == <<m, key[m]>>
  <2>1. p \in Paths
    BY <1>4, KeyFacts DEF WriteBody, Phases, Phase, Writing
  <2>2. \E f : body' = [body EXCEPT ![p] = [uuid |-> plan[m].uuid, from |-> f]]
    BY <1>4, Zenon DEF WriteBody
  <2>3. PICK f : body' = [body EXCEPT ![p] = [uuid |-> plan[m].uuid, from |-> f]]
    BY <2>2
  <2>4. DiskTypes'
    BY <1>4, TypesWriter DEF Writer
  <2>5. body'[p] \in Bodies /\ body'[p] = [uuid |-> plan[m].uuid, from |-> f]
    BY <2>1, <2>3, <2>4 DEF DiskTypes
  <2>6. f \in Nat
    BY <2>5 DEF Bodies
  <2> QED  BY <2>3, <2>6
<1>5. \A m \in Models : Unlink(m) => body' = [body EXCEPT ![Head(todo[m])] = NoBody]
  BY DEF Unlink
<1>6. \A m \in Models : SetAside(m) => body' = [body EXCEPT ![HitPath(m)] = NoBody]
  BY DEF SetAside
<1> QED  BY <1>1, <1>2, <1>3, <1>4, <1>5, <1>6 DEF Next

\* minted counts up, and only at the start of a write.
LEMMA MintedSteps ==
  ASSUME DiskTypes, [Next]_vars
  PROVE  \/ minted' = minted
         \/ \E m \in Models, k \in Keys : Persist(m, k) /\ minted' = minted + 1
<1>1. ASSUME NEW m \in Models, Writer(m)  PROVE minted' = minted
  BY <1>1 DEF Writer, WriteBody, WriteSide, BodyFails, WriteTokens, TokensFail, SideFails, Commit,
              EndPass, Skip, Unlink, UnlinkSide, UnlinkTokens
<1>2. ASSUME NEW m \in Models, Reader(m)  PROVE minted' = minted
  BY <1>2, ReaderKinds DEF GiveUp, Resolve, Unregister, SetAside, Touch, Forgets, Moves, Serves
<1>3. CASE \/ \E m \in Models, k \in Keys : Lookup(m, k)
           \/ Crash \/ (\E p \in Paths : Damage(p)) \/ UNCHANGED vars
  BY <1>3 DEF Lookup, Crash, Damage, vars
<1>4. ASSUME NEW m \in Models, NEW k \in Keys, Persist(m, k)  PROVE minted' = minted + 1
  BY <1>4 DEF Persist
<1> QED  BY <1>1, <1>2, <1>3, <1>4 DEF Next

LEMMA StampedStep ==
  ASSUME DiskTypes, Phases, Stamped, [Next]_vars
  PROVE  Stamped'
<1>1. minted \in Nat /\ minted' \in Nat /\ minted <= minted'
  BY MintedSteps, KeyFacts DEF DiskTypes
<1>2. ASSUME NEW p \in Paths, body'[p] # NoBody  PROVE body'[p].uuid # 0
  <2>1. CASE body' = body
    BY <1>2, <2>1 DEF Stamped, Resident
  <2>2. ASSUME NEW m \in Models, NEW f \in Nat, WriteBody(m),
               body' = [body EXCEPT ![<<m, key[m]>>] = [uuid |-> plan[m].uuid, from |-> f]]
        PROVE  body'[p].uuid # 0
    <3>1. plan[m].uuid # 0
      BY <2>2 DEF WriteBody, Phases, Phase, Writing
    <3> QED  BY <1>2, <2>2, <3>1 DEF Stamped, Resident, DiskTypes
  <2>3. ASSUME NEW q, body' = [body EXCEPT ![q] = NoBody]  PROVE body'[p].uuid # 0
    BY <1>2, <2>3 DEF Stamped, Resident, DiskTypes
  <2> QED  BY <2>1, <2>2, <2>3, BodyChanges
<1>3. ASSUME NEW p \in Paths
      PROVE  (side'[p] # NoSide => side'[p].uuid # 0) /\ side'[p].uuid <= minted'
  <2>0. side[p].uuid \in Int /\ side[p].uuid <= minted
    BY DEF Stamped, DiskTypes, Sides, Uuids
  <2>1. CASE side' = side
    BY <2>0, <1>1, <2>1 DEF Stamped
  <2>2. ASSUME NEW m \in Models, WriteSide(m), side' = [side EXCEPT ![<<m, key[m]>>] = plan[m]]
        PROVE  (side'[p] # NoSide => side'[p].uuid # 0) /\ side'[p].uuid <= minted'
    <3>1. plan[m].uuid \in 1..minted
      BY <2>2 DEF WriteSide, Phases, Phase, Writing
    <3>2. side'[p] = side[p] \/ side'[p] = plan[m]
      BY <2>2 DEF DiskTypes
    <3> QED  BY <2>0, <3>1, <3>2, <1>1 DEF Stamped
  <2>3. ASSUME NEW q, side' = [side EXCEPT ![q] = NoSide]
        PROVE  (side'[p] # NoSide => side'[p].uuid # 0) /\ side'[p].uuid <= minted'
    <3>1. side'[p] = side[p] \/ side'[p] = NoSide
      BY <2>3 DEF DiskTypes
    <3>2. NoSide.uuid = 0
      BY DEF NoSide
    <3> QED  BY <2>0, <3>1, <3>2, <1>1 DEF Stamped
  <2> QED  BY <2>1, <2>2, <2>3, SideSteps
<1> QED  BY <1>2, <1>3 DEF Stamped, Resident

LEMMA WritesAt ==
  ASSUME DiskInv, NEW n \in Models
  PROVE  pc[n] \in Writing => <<n, key[n]>> \in Paths /\ plan[n].uuid # 0
<1>1. Phase(n)
  BY DEF DiskInv, Phases
<1> QED  BY <1>1, KeyFacts DEF Phase, DiskInv, DiskTypes

LEMMA FreshWriter ==
  ASSUME DiskInv, NEW m \in Models, Writer(m), NEW n \in Models
  PROVE  NewAt(n, <<n, key[n]>>)'
<1> DEFINE p == <<n, key[n]>>
           q == <<m, key[m]>>
<1>1. NewAt(n, p) /\ Phase(n) /\ Phase(m) /\ key' = key /\ NoOne \notin Models
  BY WriterFrame, KeyFacts DEF DiskInv, Fresh, Phases
<1>2. n # m => p # q /\ pc'[n] = pc[n] /\ plan'[n] = plan[n]
  BY WriterFrame DEF DiskInv
<1>3. pc[n] \in Writing => p \in Paths /\ plan[n].uuid # 0
  BY WritesAt
<1>4. n # m /\ pc[m] \in Locked => pc[n] \notin Locked
  BY <1>1 DEF Phase
<1>5. NoSide.uuid = 0 /\ DiskTypes
  BY DEF NoSide, DiskInv
<1> USE DEF Goto, Locked, Writing, diskVars, memVars, writerVars, readerVars, histVars
<1>6. CASE WriteBody(m)
  <2>1. lock = NoOne /\ pc[m] = "body" /\ pc'[m] = "tokens" /\ side' = side
    BY <1>5, <1>6 DEF WriteBody, DiskTypes
  <2>2. pc[n] \notin Locked
    BY <2>1, <1>1 DEF Phase
  <2>3. plan'[m].uuid = plan[m].uuid
    <3>1. plan[m].uuid = [NoSide EXCEPT !.uuid = plan[m].uuid].uuid
      BY DEF NoSide
    <3> QED  BY <1>5, <1>6, <3>1 DEF WriteBody, DiskTypes
  <2>4. \E f : body' = [body EXCEPT ![q] = [uuid |-> plan[m].uuid, from |-> f]]
    BY <1>6, Zenon DEF WriteBody
  <2>5. CASE n = m
    <3>1. body'[p].uuid = plan[m].uuid
      BY <2>1, <2>4, <2>5, <1>3, <1>5 DEF DiskTypes
    <3> QED  BY <2>1, <2>3, <2>5, <3>1, <1>1 DEF NewAt
  <2>6. CASE n # m
    <3>1. body'[p] = body[p] \/ p \notin Paths
      BY <2>4, <2>6, <1>2, <1>5 DEF DiskTypes
    <3> QED  BY <2>1, <2>2, <2>6, <3>1, <1>1, <1>2, <1>3 DEF NewAt, Resident
  <2> QED  BY <2>5, <2>6
<1>7. CASE BodyFails(m) \/ WriteTokens(m) \/ TokensFail(m) \/ SideFails(m) \/ EndPass(m) \/ Skip(m) \/ UnlinkTokens(m)
  <2>1. UNCHANGED <<body, side, plan>>
    BY <1>7 DEF BodyFails, WriteTokens, TokensFail, SideFails, EndPass, Skip, UnlinkTokens
  <2>2. \/ pc'[m] = pc[m] \/ pc'[m] \in {"idle", "evict"} \/ (pc[m] = "tokens" /\ pc'[m] = "side")
        \/ (pc[m] = "side" /\ pc'[m] = "commit")
    BY <1>5, <1>7 DEF BodyFails, WriteTokens, TokensFail, SideFails, EndPass, Skip, UnlinkTokens, DiskTypes
  <2> QED  BY <2>1, <2>2, <1>1, <1>2 DEF NewAt, Resident
<1>8. CASE WriteSide(m)
  <2>1. /\ pc[m] = "side" /\ pc'[m] = "commit" /\ UNCHANGED <<body, plan>>
        /\ side' = [side EXCEPT ![q] = plan[m]]
    BY <1>5, <1>8 DEF WriteSide, DiskTypes
  <2>2. CASE n = m
    BY <2>1, <2>2, <1>1, <1>3, <1>5 DEF NewAt, DiskTypes
  <2>3. CASE n # m
    <3>1. side'[p] = side[p] \/ p \notin Paths
      BY <2>1, <2>3, <1>2, <1>5 DEF DiskTypes
    <3> QED  BY <2>1, <2>3, <3>1, <1>1, <1>2, <1>3 DEF NewAt, Resident
  <2> QED  BY <2>2, <2>3
<1>9. CASE Commit(m)
  <2>1. pc[m] = "commit" /\ pc'[m] \in {"evict", "idle"} /\ UNCHANGED <<body, side, plan>>
    BY <1>5, <1>9 DEF Commit, DiskTypes
  <2> QED  BY <2>1, <1>1, <1>2 DEF NewAt, Resident
<1>10. CASE Unlink(m) \/ UnlinkSide(m)
  <2>1. pc[m] \in {"evict", "unlink"} /\ pc'[m] \in {"unlink", "unlink tokens"} /\ plan' = plan
    BY <1>5, <1>10 DEF Unlink, UnlinkSide, DiskTypes
  <2>2. CASE n = m
    BY <2>1, <2>2 DEF NewAt
  <2>3. CASE n # m
    <3>1. pc[n] \notin Locked
      BY <2>1, <2>3, <1>4
    <3>2. pc[n] = "body" => body'[p] \in {body[p], NoBody} /\ side'[p] \in {side[p], NoSide}
      BY <1>3, <1>5, <1>10 DEF Unlink, UnlinkSide, DiskTypes
    <3> QED  BY <2>1, <2>3, <3>1, <3>2, <1>1, <1>2, <1>3, <1>5 DEF NewAt, Resident
  <2> QED  BY <2>2, <2>3
<1> QED  BY <1>6, <1>7, <1>8, <1>9, <1>10 DEF Writer

LEMMA FreshStep ==
  ASSUME DiskInv, [Next]_vars
  PROVE  Fresh'
<1> USE DEF Goto, Locked, Writing, Chosen, Reading, diskVars, memVars, writerVars, readerVars, histVars
<1>0. DiskTypes /\ NoSide.uuid = 0 /\ NoOne \notin Models
  BY KeyFacts DEF NoSide, DiskInv
<1>1. ASSUME NEW m \in Models, Writer(m)  PROVE Fresh'
  BY <1>1, FreshWriter DEF Fresh
<1>2. ASSUME NEW m \in Models, Reader(m), NEW n \in Models  PROVE NewAt(n, <<n, key[n]>>)'
  <2> DEFINE p == <<n, key[n]>>
  <2>1. NewAt(n, p) /\ Phase(n) /\ Phase(m)
    BY DEF DiskInv, Fresh, Phases
  <2>2. pc[n] \in Writing => p \in Paths /\ plan[n].uuid # 0
    BY WritesAt
  <2>3. CASE SetAside(m)
    <3>1. /\ lock = NoOne /\ pc' = [pc EXCEPT ![m] = "resolve"] /\ UNCHANGED <<key, plan>>
          /\ body' = [body EXCEPT ![HitPath(m)] = NoBody]
          /\ side' = [side EXCEPT ![HitPath(m)] = NoSide]
      BY <2>3 DEF SetAside
    <3>2. pc[n] \notin Locked
      BY <3>1, <2>1, <1>0 DEF Phase
    <3>3. pc[n] = "body" => body'[p] \in {body[p], NoBody} /\ side'[p] \in {side[p], NoSide}
      BY <2>2, <3>1, <1>0 DEF DiskTypes
    <3>4. pc'[n] \in {pc[n], "resolve"}
      BY <3>1, <1>0 DEF DiskTypes
    <3> QED  BY <3>1, <3>2, <3>3, <3>4, <2>1, <2>2, <1>0 DEF NewAt, Resident
  <2>4. CASE ~SetAside(m)
    <3>1. UNCHANGED <<body, side, key, plan>> /\ (pc'[n] = pc[n] \/ pc'[n] \notin Writing)
      BY <1>0, <1>2, <2>4, ReaderKinds DEF GiveUp, Resolve, Unregister, Touch, Forgets, Moves, Serves, DiskTypes
    <3> QED  BY <2>1, <3>1 DEF NewAt, Resident
  <2> QED  BY <2>3, <2>4
<1>3. ASSUME NEW m \in Models, NEW k \in Keys, Persist(m, k), NEW n \in Models
      PROVE  NewAt(n, <<n, key[n]>>)'
  <2>1. /\ UNCHANGED <<body, side>> /\ k \in Prompts[m] /\ ~Resident(<<m, k>>)
        /\ key' = [key EXCEPT ![m] = k] /\ plan' = [plan EXCEPT ![m] = PlanFor(k, minted + 1)]
        /\ pc' = [pc EXCEPT ![m] = "body"]
    BY <1>3 DEF Persist
  <2>2. NewAt(n, <<n, key[n]>>)
    BY DEF DiskInv, Fresh
  <2>3. CASE n = m
    <3>1. key'[m] = k /\ plan'[m] = PlanFor(k, minted + 1) /\ pc'[m] = "body" /\ <<m, k>> \in Paths
      BY <2>1, <1>0, KeyFacts DEF DiskTypes
    <3>2. minted \in Nat /\ minted + 1 \in Uuids
      BY <1>3, <1>0, KeyFacts DEF Persist, DiskTypes, Uuids
    <3>3. plan'[m].uuid = minted + 1
      BY <3>1, <3>2, PlanType DEF DiskInv
    <3>4. side[<<m, k>>].uuid # minted + 1
      <4>1. side[<<m, k>>].uuid \in Int /\ side[<<m, k>>].uuid <= minted
        BY <3>1, <1>0 DEF DiskTypes, Sides, Uuids, DiskInv, Stamped
      <4> QED  BY <4>1, <3>2
    <3> QED  BY <2>1, <2>3, <3>1, <3>3, <3>4 DEF NewAt, Resident
  <2>4. CASE n # m
    <3>1. key'[n] = key[n] /\ plan'[n] = plan[n] /\ pc'[n] = pc[n]
      BY <2>1, <2>4, <1>0 DEF DiskTypes
    <3> QED  BY <2>1, <2>2, <3>1 DEF NewAt, Resident
  <2> QED  BY <2>3, <2>4
<1>4. ASSUME NEW m \in Models, NEW k \in Keys, Lookup(m, k), NEW n \in Models
      PROVE  NewAt(n, <<n, key[n]>>)'
  <2>1. /\ UNCHANGED <<body, side, plan>> /\ key' = [key EXCEPT ![m] = k] /\ pc' = [pc EXCEPT ![m] = "resolve"]
    BY <1>4 DEF Lookup
  <2>2. NewAt(n, <<n, key[n]>>) /\ Phase(n)
    BY DEF DiskInv, Fresh, Phases
  <2>3. (key'[n] = key[n] /\ pc'[n] = pc[n]) \/ pc'[n] = "resolve"
    BY <2>1, <1>0 DEF DiskTypes
  <2>4. CASE pc'[n] = "resolve"
    BY <2>4 DEF NewAt
  <2>5. CASE key'[n] = key[n] /\ pc'[n] = pc[n]
    BY <2>1, <2>2, <2>5 DEF NewAt, Resident
  <2> QED  BY <2>3, <2>4, <2>5
<1>5. CASE Crash
  BY <1>5 DEF Crash, Fresh, NewAt
<1>6. CASE (\E p \in Paths : Damage(p)) \/ UNCHANGED vars
  <2>1. UNCHANGED <<body, side, pc, key, plan>>
    BY <1>6 DEF Damage, vars
  <2> QED  BY <2>1 DEF DiskInv, Fresh, NewAt, Resident
<1> QED  BY <1>1, <1>2, <1>3, <1>4, <1>5, <1>6 DEF Next, Fresh

\* The delta being registered is the lock holder's.
LEMMA OneCommits ==
  ASSUME Phases, NEW m \in Models, pc[m] \in Locked, NEW n \in Models, pc[n] = "commit"
  PROVE  n = m
BY DEF Phases, Phase, Locked

\* A path that lost its edge stays marked until its files are renamed aside.
LEMMA DiscardedStays ==
  ASSUME DiskTypes, Phases, Next, ~Crash, NEW q, Discarded(q),
         \A m \in Models : SetAside(m) => q # HitPath(m)
  PROVE  Discarded(q)'
<1>1. PICK n \in Models : pc[n] = "aside" /\ q = HitPath(n)
  BY DEF Discarded
<1>2. SUFFICES pc'[n] = "aside" /\ hit'[n] = hit[n]
  BY <1>1 DEF Discarded, HitPath
<1>3. ASSUME NEW m \in Models, Writer(m)  PROVE pc'[n] = "aside" /\ hit'[n] = hit[n]
  <2>1. m # n
    BY <1>1, <1>3 DEF Writer, WriteBody, BodyFails, WriteTokens, TokensFail, WriteSide, SideFails, Commit,
                      EndPass, Skip, Unlink, UnlinkSide, UnlinkTokens
  <2> QED  BY <1>1, <1>3, <2>1, WriterFrame
<1>4. ASSUME NEW m \in Models, Reader(m)  PROVE pc'[n] = "aside" /\ hit'[n] = hit[n]
  <2>1. m # n
    BY <1>1, <1>4 DEF Reader, GiveUp, Resolve, Verify, Quarantine, Unregister, LoadFull, ReadFull, Touch,
                      LoadChain, ReadSide, ReadLink, Pin, ReadChain
  <2> QED  BY <1>1, <1>4, <2>1, ReaderKinds
           DEF GiveUp, Resolve, Unregister, SetAside, Touch, Forgets, Moves, Serves, Goto, DiskTypes, readerVars
<1>5. ASSUME NEW m \in Models, NEW k \in Keys, Persist(m, k) \/ Lookup(m, k)
      PROVE  pc'[n] = "aside" /\ hit'[n] = hit[n]
  BY <1>1, <1>5 DEF Persist, Lookup, Goto, DiskTypes, readerVars
<1>6. ASSUME NEW p \in Paths, Damage(p)  PROVE pc'[n] = "aside" /\ hit'[n] = hit[n]
  BY <1>1, <1>6 DEF Damage, readerVars
<1> QED  BY <1>3, <1>4, <1>5, <1>6 DEF Next

\* The steps of a writer neither start a process nor read the edges.
LEMMA WriterKnows ==
  ASSUME NEW m \in Models, Writer(m)
  PROVE  boot' = boot /\ built' = built /\ (edge' = edge \/ Commit(m) \/ Unlink(m))
BY DEF Writer, WriteBody, BodyFails, WriteTokens, TokensFail, WriteSide, SideFails, Commit, EndPass, Skip,
       Unlink, UnlinkSide, UnlinkTokens, memVars, histVars

LEMMA CountedWriter ==
  ASSUME DiskInv, NEW m \in Models, Writer(m), ~Crash, NEW q \in Paths
  PROVE  CountedAt(q)'
<1> DEFINE p == <<m, key[m]>>
<1>0. DiskTypes /\ Phases /\ NoSide.uuid = 0 /\ NoSide.base = NoPath /\ NoBody.uuid = 0 /\ NoOne \notin Models
  BY KeyFacts DEF NoSide, NoBody, DiskInv
<1>1. Phase(m) /\ NewAt(m, p) /\ CountedAt(q)
  BY DEF DiskInv, Phases, Fresh, Counted
<1>2. /\ key' = key /\ \A n \in Models : n # m => pc'[n] = pc[n]
      /\ boot' = boot /\ built' = built
  BY WriterFrame, WriterKnows DEF DiskInv
<1>3. Resident(q) => body[q].uuid # 0
  BY DEF DiskInv, Stamped
<1>4. ~Discarded(q)' => ~Discarded(q)
  <2>1. \A n \in Models : ~SetAside(n)
    <3> SUFFICES ASSUME NEW n \in Models, SetAside(n) PROVE FALSE
      OBVIOUS
    <3>1. n # m
      BY DEF SetAside, Writer, WriteBody, BodyFails, WriteTokens, TokensFail, WriteSide, SideFails, Commit,
             EndPass, Skip, Unlink, UnlinkSide, UnlinkTokens
    <3> QED  BY <1>0, <1>2, <3>1 DEF SetAside, Goto, DiskTypes
  <2> QED  BY <1>0, <2>1, DiscardedStays DEF Next
<1>5. /\ side'[q] = side[q] => (Known(q)' <=> Known(q))
      /\ \A n \in Models \ {m} : pc[n] = "commit" => pc'[n] = "commit"
  BY <1>2 DEF Known
<1> USE DEF Goto, diskVars, memVars, writerVars, readerVars, histVars
<1>6. CASE WriteBody(m)
  <2>1. lock = NoOne /\ pc[m] = "body" /\ UNCHANGED <<side, edge>>
    BY <1>6 DEF WriteBody
  <2>2. \A n \in Models : pc[n] # "commit"
    BY <2>1, <1>0 DEF DiskInv, Phases, Phase, Locked
  <2>3. \E f : body' = [body EXCEPT ![p] = [uuid |-> plan[m].uuid, from |-> f]]
    BY <1>6, Zenon DEF WriteBody
  <2>4. CASE q = p
    <3>1. body'[q].uuid = plan[m].uuid /\ side'[q].uuid # plan[m].uuid
      BY <2>1, <2>3, <2>4, <1>0, <1>1 DEF NewAt, DiskTypes
    <3> QED  BY <3>1 DEF CountedAt, Protects
  <2>5. CASE q # p
    <3>1. body'[q] = body[q]
      BY <2>3, <2>5, <1>0 DEF DiskTypes
    <3> QED  BY <2>1, <2>2, <3>1, <1>1, <1>4, <1>5 DEF CountedAt, Protects, Resident
  <2> QED  BY <2>4, <2>5
<1>7. CASE BodyFails(m) \/ WriteTokens(m) \/ TokensFail(m) \/ SideFails(m) \/ EndPass(m) \/ Skip(m) \/ UnlinkTokens(m)
  <2>1. UNCHANGED <<body, side, edge>> /\ pc[m] # "commit"
    BY <1>7 DEF BodyFails, WriteTokens, TokensFail, SideFails, EndPass, Skip, UnlinkTokens
  <2> QED  BY <2>1, <1>1, <1>2, <1>4, <1>5 DEF CountedAt, Protects, Resident
<1>8. CASE WriteSide(m)
  <2>1. /\ pc[m] = "side" /\ pc'[m] = "commit" /\ UNCHANGED <<body, edge>>
        /\ side' = [side EXCEPT ![p] = plan[m]]
    BY <1>0, <1>8 DEF WriteSide, DiskTypes
  <2>2. q # p => side'[q] = side[q]
    BY <2>1, <1>0 DEF DiskTypes
  <2> QED  BY <2>1, <2>2, <1>1, <1>2, <1>4, <1>5 DEF CountedAt, Protects, Resident
<1>9. CASE Commit(m)
  <2>1. /\ pc[m] = "commit" /\ pc'[m] \in {"evict", "idle"} /\ UNCHANGED <<body, side>>
        /\ edge' = [edge EXCEPT ![p] = IF plan[m].base # NoPath THEN plan[m].base ELSE @]
    BY <1>0, <1>9 DEF Commit, DiskTypes
  <2>2. \A n \in Models : pc[n] = "commit" => n = m
    BY <2>1, <1>0, OneCommits DEF Locked
  <2>3. CASE q = p
    <3>1. /\ body[q].uuid = plan[m].uuid
          /\ side[q] = plan[m] \/ side[q].uuid # plan[m].uuid
      BY <2>1, <2>3, <1>1 DEF NewAt
    <3>2. plan[m].base # NoPath => edge'[q] = plan[m].base
      BY <2>1, <2>3, <1>0 DEF DiskTypes
    <3> QED  BY <2>1, <3>1, <3>2 DEF CountedAt, Protects
  <2>4. CASE q # p
    <3>1. edge'[q] = edge[q] /\ \A n \in Models : pc[n] = "commit" => q # <<n, key[n]>>
      BY <2>1, <2>2, <2>4, <1>0 DEF DiskTypes
    <3> QED  BY <2>1, <3>1, <1>1, <1>4, <1>5 DEF CountedAt, Protects, Resident
  <2> QED  BY <2>3, <2>4
<1>10. CASE Unlink(m)
  <2> DEFINE h == Head(todo[m])
  <2>1. /\ pc[m] = "evict" /\ side' = side
        /\ body' = [body EXCEPT ![h] = NoBody] /\ edge' = [edge EXCEPT ![h] = NoPath]
    BY <1>10 DEF Unlink
  <2>2. CASE q = h
    BY <2>1, <2>2, <1>0 DEF CountedAt, Protects, Resident, DiskTypes
  <2>3. CASE q # h
    <3>1. body'[q] = body[q] /\ edge'[q] = edge[q]
      BY <2>1, <2>3, <1>0 DEF DiskTypes
    <3> QED  BY <2>1, <3>1, <1>1, <1>2, <1>4, <1>5 DEF CountedAt, Protects, Resident
  <2> QED  BY <2>2, <2>3
<1>11. CASE UnlinkSide(m)
  <2>1. pc[m] = "unlink" /\ UNCHANGED <<body, edge>> /\ side' = [side EXCEPT ![Head(todo[m])] = NoSide]
    BY <1>11 DEF UnlinkSide
  <2>2. side'[q] = side[q] \/ side'[q] = NoSide
    BY <2>1, <1>0 DEF DiskTypes
  <2> QED  BY <2>1, <2>2, <1>0, <1>1, <1>2, <1>4, <1>5 DEF CountedAt, Protects, Resident
<1> QED  BY <1>6, <1>7, <1>8, <1>9, <1>10, <1>11 DEF Writer

\* A reader drops the edge of a checkpoint it quarantines, and marks it.
LEMMA CountedReader ==
  ASSUME DiskInv, NEW m \in Models, Reader(m), ~Crash, NEW q \in Paths
  PROVE  CountedAt(q)'
<1> USE DEF Goto, Chosen, Reading, diskVars, memVars, writerVars, readerVars, histVars
<1>0. DiskTypes /\ Phases /\ CountedAt(q)
  BY DEF DiskInv, Counted
<1>1. UNCHANGED <<boot, built, key>> /\ \A n \in Models : pc[n] = "commit" => pc'[n] = "commit"
  BY <1>0, ReaderKinds DEF GiveUp, Resolve, Unregister, SetAside, Touch, Forgets, Moves, Serves, DiskTypes
<1>2. CASE SetAside(m)
  <2> DEFINE h == HitPath(m)
  <2>1. /\ body' = [body EXCEPT ![h] = NoBody] /\ side' = [side EXCEPT ![h] = NoSide] /\ edge' = edge
    BY <1>2 DEF SetAside
  <2>2. CASE q = h
    BY <2>1, <2>2, <1>0 DEF CountedAt, Protects, Resident, DiskTypes
  <2>3. CASE q # h
    <3>1. body'[q] = body[q] /\ side'[q] = side[q]
      BY <2>1, <2>3, <1>0 DEF DiskTypes
    <3>2. ASSUME NEW n \in Models, SetAside(n)  PROVE n = m
      BY <1>0, <1>2, <3>2 DEF SetAside, DiskTypes
    <3>3. ~Discarded(q)' => ~Discarded(q)
      BY <1>0, <2>3, <3>2, DiscardedStays DEF Next
    <3> QED  BY <2>1, <3>1, <3>3, <1>0, <1>1 DEF CountedAt, Protects, Resident, Known
  <2> QED  BY <2>2, <2>3
<1>3. CASE ~SetAside(m)
  <2>1. UNCHANGED <<body, side>>
    BY <1>3, ReaderKinds DEF GiveUp, Resolve, Unregister, Touch, Forgets, Moves, Serves
  <2>2. ~Discarded(q)' => ~Discarded(q)
    <3>1. \A n \in Models : ~SetAside(n)
      <4> SUFFICES ASSUME NEW n \in Models, SetAside(n) PROVE FALSE
        OBVIOUS
      <4>1. n # m
        BY <1>3
      <4>2. pc'[n] = "resolve" /\ pc[n] = "aside"
        BY <1>0 DEF SetAside, DiskTypes
      <4>3. pc'[n] = pc[n]
        BY <1>0, <4>1, ReaderKinds
        DEF GiveUp, Resolve, Unregister, SetAside, Touch, Forgets, Moves, Serves, DiskTypes
      <4> QED  BY <4>2, <4>3
    <3> QED  BY <1>0, <3>1, DiscardedStays DEF Next
  <2>3. CASE Unregister(m) /\ q = HitPath(m)
    <3>1. pc'[m] = "aside" /\ hit' = hit
      BY <1>0, <2>3 DEF Unregister, DiskTypes
    <3>2. Discarded(q)'
      BY <2>3, <3>1 DEF Discarded, HitPath
    <3> QED  BY <3>2 DEF CountedAt, Protects
  <2>4. CASE ~(Unregister(m) /\ q = HitPath(m))
    <3>1. edge'[q] = edge[q]
      BY <1>0, <1>3, <2>4, ReaderKinds
      DEF GiveUp, Resolve, Unregister, Touch, Forgets, Moves, Serves, DiskTypes
    <3> QED  BY <2>1, <2>2, <3>1, <1>0, <1>1 DEF CountedAt, Protects, Resident, Known
  <2> QED  BY <2>3, <2>4
<1> QED  BY <1>2, <1>3

LEMMA CountedStep ==
  ASSUME DiskInv, [Next]_vars
  PROVE  Counted'
<1> USE DEF Goto, diskVars, memVars, writerVars, readerVars, histVars
<1>0. DiskTypes /\ Phases /\ \A q \in Paths : CountedAt(q)
  BY DEF DiskInv, Counted
<1> SUFFICES ASSUME NEW q \in Paths PROVE CountedAt(q)'
  BY DEF Counted
<1>1. CASE (\E m \in Models : Writer(m)) /\ ~Crash
  BY <1>1, CountedWriter
<1>2. CASE (\E m \in Models : Reader(m)) /\ ~Crash
  BY <1>2, CountedReader
<1>3. ASSUME NEW m \in Models, NEW k \in Keys, Persist(m, k) \/ Lookup(m, k)
      PROVE  /\ UNCHANGED <<body, side, boot>> /\ (~Discarded(q)' => ~Discarded(q))
             /\ \A n \in Models : pc[n] = "commit" => pc'[n] = "commit" /\ key'[n] = key[n]
  <2>1. /\ UNCHANGED <<body, side, boot>> /\ pc[m] = "idle" /\ hit' = hit
        /\ key' = [key EXCEPT ![m] = k] /\ \E l : pc' = [pc EXCEPT ![m] = l]
    BY <1>3 DEF Persist, Lookup
  <2>2. \A n \in Models : n # m => pc'[n] = pc[n] /\ key'[n] = key[n]
    BY <2>1, <1>0 DEF DiskTypes
  <2>3. Discarded(q) => Discarded(q)'
    BY <2>1, <2>2 DEF Discarded, HitPath
  <2> QED  BY <2>1, <2>2, <2>3
<1>4. ASSUME NEW m \in Models, NEW k \in Keys, Persist(m, k)  PROVE CountedAt(q)'
  <2>1. UNCHANGED <<edge, built>>
    BY <1>4 DEF Persist
  <2> QED  BY <1>0, <1>3, <1>4, <2>1 DEF CountedAt, Protects, Resident, Known
<1>5. ASSUME NEW m \in Models, NEW k \in Keys, Lookup(m, k)  PROVE CountedAt(q)'
  <2>1. CASE built[m]
    <3>1. UNCHANGED <<edge, built>>
      BY <1>5, <2>1 DEF Lookup
    <3> QED  BY <1>0, <1>3, <1>5, <3>1 DEF CountedAt, Protects, Resident, Known
  <2>2. CASE ~built[m]
    <3>1. edge' = Rebuilt
      BY <1>5, <2>2 DEF Lookup
    <3>2. Resident(q) => edge'[q] = side[q].base
      BY <3>1 DEF Rebuilt
    <3> QED  BY <1>3, <1>5, <3>2 DEF CountedAt, Protects, Resident
  <2> QED  BY <2>1, <2>2
<1>6. CASE Crash
  <2>1. boot' = minted /\ side' = side /\ \A m \in Models : ~built'[m]
    BY <1>6 DEF Crash
  <2>2. side[q].uuid \in Int /\ minted \in Int /\ side[q].uuid <= minted
    BY <1>0 DEF DiskInv, Stamped, DiskTypes, Sides, Uuids
  <2>3. ~Known(q)'
    BY <2>1, <2>2 DEF Known
  <2> QED  BY <2>3 DEF CountedAt, Protects
<1>7. CASE (\E p \in Paths : Damage(p)) \/ UNCHANGED vars
  <2>1. UNCHANGED <<body, side, edge, built, boot, pc, key, hit>>
    BY <1>7 DEF Damage, vars
  <2> QED  BY <1>0, <2>1 DEF CountedAt, Protects, Resident, Known, Discarded, HitPath
<1> QED  BY <1>1, <1>2, <1>4, <1>5, <1>6, <1>7 DEF Next

-----------------------------------------------------------------------------
(* The invariant, and what follows from it.                                 *)

LEMMA DiskStarts == Init => DiskInv
<1> SUFFICES ASSUME Init PROVE DiskInv
  OBVIOUS
<1>1. DiskTypes
  BY TypesStart
<1>2. Residents = {}
  BY DEF Init, Residents, Resident
<1>3. Listed
  BY <1>2 DEF Init, Listed, IsInjective, ToSet
<1>4. Phases
  BY KeyFacts DEF Init, Phases, Phase, Indexed, Locked, Writing, Chosen, Reading
<1>5. Stamped
  BY DEF Init, Stamped, Resident, NoSide
<1>6. Fresh /\ Counted
  BY DEF Init, Fresh, NewAt, Counted, CountedAt, Protects, Resident
<1> QED  BY <1>1, <1>3, <1>4, <1>5, <1>6 DEF DiskInv

LEMMA DiskStep == DiskInv /\ [Next]_vars => DiskInv'
BY TypesStep, ListedStep, PhasesStep, StampedStep, FreshStep, CountedStep DEF DiskInv

\* DiskInv is an invariant: the files, the listing, the index and the counts
\* agree with one another wherever the workers stand and whatever has failed.
THEOREM DiskInvariant == Spec => []DiskInv
<1>1. Init => DiskInv
  BY DiskStarts
<1>2. DiskInv /\ [Next]_vars => DiskInv'
  BY DiskStep
<1> QED  BY <1>1, <1>2, PTL DEF Spec

\* The type invariant; the directory lists every body once, so a body that is
\* written or restored again moves and is not counted twice against the cap.
THEOREM DiskTypesHold == Spec => []TypeOK
<1>1. DiskInv => TypeOK
  <2> SUFFICES ASSUME DiskInv PROVE TypeOK
    OBVIOUS
  <2>1. Len(order) = Cardinality(Residents)
    BY InjectiveCard DEF DiskInv, Listed
  <2> QED  BY <2>1 DEF DiskInv, DiskTypes, Listed, TypeOK, Bodies, Sides, Refs
<1> QED  BY <1>1, DiskInvariant, PTL

\* Bodies are only unlinked by the worker that evicts.
LEMMA WhoUnlinks ==
  ASSUME DiskTypes, Phases, Next, NEW m \in Models, pc[m] = "evict", pc'[m] = "unlink"
  PROVE  Unlink(m)
<1>1. ~Reader(m)
  BY DEF Reader, GiveUp, Resolve, Verify, Quarantine, Unregister, SetAside, LoadFull, ReadFull, Touch,
         LoadChain, ReadSide, ReadLink, Pin, ReadChain
<1>2. \A n \in Models : n # m => ~Reader(n) /\ ~Writer(n)
  <2>1. ASSUME NEW n \in Models, n # m, Writer(n)  PROVE FALSE
    BY <2>1, WriterFrame
  <2>2. ASSUME NEW n \in Models, n # m, Reader(n)  PROVE FALSE
    BY <2>2, ReaderKinds DEF GiveUp, Resolve, Unregister, SetAside, Touch, Forgets, Moves, Serves, Goto, DiskTypes
  <2> QED  BY <2>1, <2>2
<1>3. \A n \in Models, k \in Keys : ~Persist(n, k) /\ ~Lookup(n, k)
  BY DEF Persist, Lookup, Goto, DiskTypes
<1>4. ~Crash /\ \A p \in Paths : ~Damage(p)
  BY DEF Crash, Damage
<1>5. Writer(m)
  BY <1>1, <1>2, <1>3, <1>4 DEF Next
<1> QED  BY <1>5 DEF Writer, WriteBody, BodyFails, WriteTokens, TokensFail, WriteSide, SideFails,
           Commit, EndPass, Skip, UnlinkSide, UnlinkTokens, Goto, DiskTypes

\* Eviction takes no body away that a delta on disk is built on, once the edges
\* of the delta are known and unless it is itself on its way out: for every
\* chain, every order of crashes and failed writes, and every number of engines,
\* _is_protected asks counts that agree with the sidecars.
THEOREM BasesOutliveDeltas == Spec => BaseOutlivesDelta
<1> DEFINE A == \A m \in Models : pc[m] = "evict" /\ pc'[m] = "unlink" =>
                  \A q \in Paths : Extends(q, Head(todo[m])) => ~Known(q) \/ Discarded(q)
<1>1. ASSUME DiskInv, [Next]_vars  PROVE [A]_vars
  <2> SUFFICES ASSUME NEW m \in Models, pc[m] = "evict", pc'[m] = "unlink", Next,
                      NEW q \in Paths, Extends(q, Head(todo[m])), Known(q), ~Discarded(q)
               PROVE  FALSE
    BY <1>1 DEF vars
  <2>1. \A n \in Models : pc[n] # "commit"
    BY OneCommits, <1>1 DEF DiskInv, Locked
  <2>2. Protects(q)
    BY <2>1 DEF Protects, Extends
  <2>3. edge[q] = Head(todo[m])
    BY <2>2, <1>1 DEF DiskInv, Counted, CountedAt, Extends
  <2>4. Unlink(m)
    BY <1>1, WhoUnlinks DEF DiskInv
  <2> QED  BY <2>3, <2>4 DEF Unlink, Protected, HasDelta
<1>2. [][A]_vars => BaseOutlivesDelta
  BY PTL DEF BaseOutlivesDelta
<1> QED  BY <1>1, <1>2, DiskInvariant, PTL DEF Spec

-----------------------------------------------------------------------------
(* The store of CheckpointStore, step by step.                              *)

\* The paths that were ever written.
LEMMA EverSteps ==
  ASSUME [Next]_vars
  PROVE  /\ \A m \in Models : WriteBody(m) => ever' = ever \cup {<<m, key[m]>>}
         /\ (~ \E m \in Models : WriteBody(m)) => ever' = ever
<1> USE DEF diskVars, memVars, writerVars, readerVars, histVars
<1>1. \A m \in Models : WriteBody(m) => ever' = ever \cup {<<m, key[m]>>}
  BY DEF WriteBody
<1>2. ASSUME ~ \E m \in Models : WriteBody(m)  PROVE ever' = ever
  <2>1. ASSUME NEW m \in Models, Writer(m)  PROVE ever' = ever
    BY <1>2, <2>1 DEF Writer, WriteSide, BodyFails, WriteTokens, TokensFail, SideFails, Commit, EndPass,
                      Skip, Unlink, UnlinkSide, UnlinkTokens
  <2>2. ASSUME NEW m \in Models, Reader(m)  PROVE ever' = ever
    BY <2>2, ReaderKinds DEF GiveUp, Resolve, Unregister, SetAside, Touch, Forgets, Moves, Serves
  <2>3. CASE \/ \E m \in Models, k \in Keys : Persist(m, k) \/ Lookup(m, k)
             \/ Crash \/ (\E p \in Paths : Damage(p)) \/ UNCHANGED vars
    BY <2>3 DEF Persist, Lookup, Crash, Damage, vars
  <2> QED  BY <2>1, <2>2, <2>3 DEF Next
<1> QED  BY <1>1, <1>2

\* A body is one of before, or that of a write; what has a body was written.
LEMMA ResidentEver ==
  ASSUME DiskTypes, Phases, \A p \in Paths : Resident(p) => p \in ever, [Next]_vars
  PROVE  \A p \in Paths : Resident(p)' => p \in ever'
<1> SUFFICES ASSUME NEW p \in Paths, body'[p] # NoBody  PROVE p \in ever'
  BY DEF Resident
<1>1. ever \subseteq ever'
  BY EverSteps
<1>2. CASE body'[p] = body[p]
  BY <1>1, <1>2 DEF Resident
<1>3. ASSUME NEW m \in Models, WriteBody(m), p = <<m, key[m]>>  PROVE p \in ever'
  BY <1>3, EverSteps
<1>4. body'[p] = body[p] \/ \E m \in Models : WriteBody(m) /\ p = <<m, key[m]>>
  BY BodyChanges DEF DiskTypes
<1> QED  BY <1>2, <1>3, <1>4

\* A lookup that has found the rows of its own model, in a checkpoint that was
\* written, hands those over.
LEMMA HandsOver ==
  ASSUME DiskTypes, Phases, NEW m \in Models, NEW rows, pc[m] \in Reading, Finish(m, rows), served' # served,
         IsPrefix(hit[m].key, key[m]),
         OwnModel(m) => rows = Store!Rows(m, hit[m].key) /\ HitPath(m) \in ever
  PROVE  Store!Hit(m)
<1> DEFINE k == hit[m].key
           q == key[m]
<1>1. k \in Keys /\ k \in Seq(Nat) /\ q \in Keys
  BY KeyFacts DEF Phases, Phase, Chosen
<1>2. ~SoftEvict(m)
  BY DEF SoftEvict, readerVars
<1>3. Fits(m, rows)
  BY <1>2, Zenon DEF Finish
<1>4. OwnModel(m)
  <2>1. CASE ~OwnModel(m)
    <3>1. UNCHANGED served
      BY <1>3, <2>1, Zenon DEF Finish
    <3> QED  BY <3>1
  <2> QED  BY <2>1
<1>5. served' = [served EXCEPT ![m] = [query |-> q, tokens |-> k, rows |-> Read(m, rows)]] /\ ever' = ever
  BY <1>3, <1>4, Zenon DEF Finish, histVars
<1>6. Read(m, rows) = Store!Rows(m, k)
  <2>1. Len(k) \in Nat
    BY <1>1
  <2>2. rows = [i \in 1..Len(k) |-> <<m, i>>]
    BY <1>4 DEF Store!Rows
  <2> HIDE DEF k
  <2>3. rows \in Seq(Models \X Nat) /\ Len(rows) = Len(k)
    BY <2>1, <2>2
  <2>4. Read(m, rows) = SubSeq(rows, 1, Len(rows))
    BY <2>1, <2>3 DEF Read, k
  <2>5. SubSeq(rows, 1, Len(rows)) = rows
    BY <2>3
  <2> QED  BY <2>2, <2>4, <2>5 DEF Store!Rows
<1>7. <<m, k>> \in ever
  BY <1>4 DEF HitPath, OwnModel
<1>8. Store!IsPrefix(k, q)
  BY DEF IsPrefix, Store!IsPrefix
<1> HIDE DEF k, q
<1>9. served' = [served EXCEPT ![m] = [query |-> q, tokens |-> k, rows |-> Store!Rows(m, k)]]
  BY <1>5, <1>6
<1>10. \E j, r \in Keys : /\ <<m, j>> \in ever /\ Store!IsPrefix(j, r)
                          /\ served' = [served EXCEPT ![m] = [query |-> r, tokens |-> j, rows |-> Store!Rows(m, j)]]
  BY <1>1, <1>7, <1>8, <1>9, Zenon
<1> QED  BY <1>5, <1>10, Zenon DEF Store!Hit

\* A step of the files and their workers is one of the store, if lookups hand
\* over what the store may answer.
LEMMA StoreStep ==
  ASSUME DiskTypes, Phases, [Next]_vars,
         \A m \in Models : (ReadFull(m) \/ ReadChain(m)) /\ served' # served => Store!Hit(m)
  PROVE  [Store!Next]_<<ever, served>>
<1> USE DEF diskVars, memVars, writerVars, readerVars, histVars
<1>1. ASSUME NEW m \in Models, WriteBody(m)  PROVE Store!Next
  <2>1. Store!Put(m, key[m])
    BY <1>1 DEF WriteBody, Store!Put
  <2>2. key[m] \in Keys
    BY <1>1, KeyFacts DEF Phases, Phase, WriteBody, Writing
  <2> QED  BY <2>1, <2>2 DEF Store!Next
<1>2. ASSUME NEW m \in Models, Writer(m)  PROVE served' = served
  BY <1>2 DEF Writer, WriteBody, WriteSide, BodyFails, WriteTokens, TokensFail, SideFails, Commit, EndPass,
              Skip, Unlink, UnlinkSide, UnlinkTokens
<1>3. ASSUME NEW m \in Models, Reader(m), served' # served
      PROVE  Store!Next
  <2>1. /\ ~GiveUp(m) /\ ~Resolve(m) /\ ~Quarantine(m) /\ ~Unregister(m) /\ ~SetAside(m)
        /\ ~SoftEvict(m) /\ ~Touch(m)
    BY <1>3 DEF GiveUp, Resolve, Quarantine, Unregister, SetAside, SoftEvict, Touch
  <2>2. ~Verify(m) /\ ~LoadFull(m) /\ ~LoadChain(m) /\ ~ReadSide(m) /\ ~ReadLink(m) /\ ~Pin(m)
    BY <1>3, <2>1 DEF Verify, LoadFull, LoadChain, ReadSide, ReadLink, Pin
  <2>3. ReadFull(m) \/ ReadChain(m)
    BY <1>3, <2>1, <2>2 DEF Reader
  <2>4. Store!Hit(m)
    BY <1>3, <2>3
  <2> QED  BY <2>4 DEF Store!Next
<1>4. ASSUME NEW m \in Models, NEW k \in Keys, Lookup(m, k)  PROVE Store!Next
  <2>1. Store!Miss(m)
    BY <1>4 DEF Lookup, Store!Miss
  <2> QED  BY <2>1 DEF Store!Next
<1>5. ASSUME Crash  PROVE Store!Next
  <2>1. Store!Restart
    BY <1>5 DEF Crash, Store!Restart
  <2> QED  BY <2>1 DEF Store!Next
<1>6. CASE \/ \E m \in Models, k \in Keys : Persist(m, k)
           \/ (\E p \in Paths : Damage(p)) \/ UNCHANGED vars
  BY <1>6 DEF Persist, Damage, vars
<1>7. CASE served' = served /\ ~ \E m \in Models : WriteBody(m)
  BY <1>7, EverSteps
<1>8. CASE served' # served
  <2>1. ~UNCHANGED vars /\ ~(\E p \in Paths : Damage(p)) /\ ~(\E m \in Models, k \in Keys : Persist(m, k))
    BY <1>8 DEF Persist, Damage, vars
  <2> QED  BY <1>2, <1>3, <1>4, <1>5, <1>8, <2>1 DEF Next
<1> QED  BY <1>1, <1>7, <1>8

-----------------------------------------------------------------------------
(* The store, without deltas: DELTA_CHECKPOINTS_ENABLED is off by default.  *)

NoDeltas == Keyframe = 0

\* Every body holds all rows of its key, and was written; the candidate of a
\* lookup is a prefix of its prompt.
Whole ==
  /\ \A p \in Paths :
       body[p].from = 0 /\ side[p].base = NoPath /\ (Resident(p) => p \in ever)
  /\ \A m \in Models :
       /\ plan[m].base = NoPath /\ pc[m] \notin {"link", "blob", "pin", "read"}
       /\ pc[m] \in Chosen => IsPrefix(hit[m].key, key[m])

LEMMA WholePlan ==
  ASSUME NoDeltas, NEW k, NEW u
  PROVE  PlanFor(k, u).base = NoPath
<1>1. PlanFor(k, u) = [NoSide EXCEPT !.uuid = u]
  BY DEF PlanFor, NoDeltas
<1> QED  BY <1>1 DEF NoSide

LEMMA WholeFiles ==
  ASSUME NoDeltas, DiskInv, Whole, [Next]_vars, NEW p \in Paths
  PROVE  body'[p].from = 0 /\ side'[p].base = NoPath
<1>0. DiskTypes /\ Phases /\ NoBody.from = 0 /\ NoSide.base = NoPath
  BY DEF DiskInv, NoBody, NoSide
<1>1. side'[p].base = NoPath
  <2>1. side'[p] = side[p] \/ side'[p] = NoSide \/ \E m \in Models : side'[p] = plan[m]
    BY <1>0, SideSteps DEF DiskTypes
  <2> QED  BY <1>0, <2>1 DEF Whole
<1>2. body'[p].from = 0
  <2>1. CASE body'[p] = body[p] \/ body'[p] = NoBody
    BY <1>0, <2>1 DEF Whole
  <2>2. ASSUME NEW m \in Models, WriteBody(m), p = <<m, key[m]>>  PROVE body'[p].from = 0
    <3> DEFINE b == [uuid |-> plan[m].uuid, from |-> 0]
    <3>1. plan[m].base = NoPath
      BY DEF Whole
    <3>2. body' = [body EXCEPT ![p] = b]
      BY <2>2, <3>1 DEF WriteBody
    <3> QED  BY <3>2, <1>0 DEF DiskTypes
  <2>3. \/ body'[p] = body[p] \/ body'[p] = NoBody
        \/ \E m \in Models : WriteBody(m) /\ p = <<m, key[m]>>
    BY <1>0, BodyChanges DEF DiskTypes
  <2> QED  BY <2>1, <2>2, <2>3
<1> QED  BY <1>1, <1>2

LEMMA WholeWorkers ==
  ASSUME NoDeltas, DiskInv, Whole, [Next]_vars, NEW n \in Models
  PROVE  (/\ plan[n].base = NoPath /\ pc[n] \notin {"link", "blob", "pin", "read"}
          /\ pc[n] \in Chosen => IsPrefix(hit[n].key, key[n]))'
<1> USE DEF diskVars, memVars, writerVars, readerVars, histVars, Goto
<1>0. DiskTypes /\ Phases /\ NoSide.base = NoPath
  BY DEF DiskInv, NoSide
<1>1. /\ plan[n].base = NoPath /\ pc[n] \notin {"link", "blob", "pin", "read"}
      /\ pc[n] \in Chosen => IsPrefix(hit[n].key, key[n])
  BY DEF Whole
<1>2. ASSUME NEW m \in Models, Writer(m)
      PROVE  /\ key' = key /\ hit' = hit /\ plan'[n].base = NoPath
             /\ pc'[n] = pc[n] \/ pc'[n] \notin Chosen
  <2>1. key' = key /\ hit' = hit /\ \A j \in Models \ {m} : pc'[j] = pc[j] /\ plan'[j] = plan[j]
    BY <1>0, <1>2, WriterFrame
  <2>2. CASE WriteBody(m)
    <3> DEFINE full == [NoSide EXCEPT !.uuid = plan[m].uuid]
    <3>1. full.base = NoPath
      BY DEF NoSide
    <3>2. plan[m].base = NoPath
      BY DEF Whole
    <3>3. plan' = [plan EXCEPT ![m] = full] /\ pc'[m] = "tokens"
      BY <2>2, <3>2, <1>0 DEF WriteBody, DiskTypes
    <3> HIDE DEF full
    <3> QED  BY <2>1, <3>1, <3>3, <1>0, <1>1 DEF DiskTypes, Chosen, Reading
  <2>3. CASE ~WriteBody(m)
    <3>1. plan' = plan
      BY <1>2, <2>3 DEF Writer, WriteSide, BodyFails, WriteTokens, TokensFail, SideFails, Commit, EndPass,
                        Skip, Unlink, UnlinkSide, UnlinkTokens
    <3>2. pc'[m] \notin Chosen
      BY <1>0, <1>2, <2>3 DEF Writer, WriteSide, BodyFails, WriteTokens, TokensFail, SideFails, Commit,
              EndPass, Skip, Unlink, UnlinkSide, UnlinkTokens, Chosen, Reading, DiskTypes
    <3> QED  BY <2>1, <3>1, <3>2, <1>1
  <2> QED  BY <2>2, <2>3
<1>3. ASSUME NEW m \in Models, Reader(m)
      PROVE  (/\ plan[n].base = NoPath /\ pc[n] \notin {"link", "blob", "pin", "read"}
              /\ pc[n] \in Chosen => IsPrefix(hit[n].key, key[n]))'
  <2>1. key' = key /\ plan' = plan
    BY <1>3, ReaderKinds DEF GiveUp, Resolve, Unregister, SetAside, Touch, Forgets, Moves, Serves
  <2>2. CASE n # m
    <3>1. pc'[n] = pc[n] /\ hit'[n] = hit[n]
      BY <1>0, <1>3, <2>2, ReaderKinds DEF GiveUp, Resolve, Unregister, SetAside, Touch, Forgets, Moves, Serves, DiskTypes
    <3> QED  BY <1>1, <2>1, <3>1
  <2>3. CASE n = m
    <3>1. CASE Resolve(m)
      <4> DEFINE k == Longest(Candidates(m))
      <4>1. IsPrefix(k, key[m])
        <5>1. key[m] \in Keys /\ Candidates(m) # {}
          BY <1>0, <3>1, KeyFacts DEF Resolve, Phases, Phase
        <5> QED  BY <5>1, ResolvesToCandidate
      <4>2. hit'[m].key = k /\ pc'[m] = "verify"
        BY <1>0, <3>1 DEF Resolve, DiskTypes
      <4> HIDE DEF k
      <4> QED  BY <1>1, <2>1, <2>3, <4>1, <4>2
    <3>2. CASE ~Resolve(m)
      <4>1. pc'[m] \in Chosen => pc[m] \in Chosen /\ hit' = hit
        BY <1>0, <1>3, <3>2, StillChosen DEF DiskTypes
      <4>2. ~LoadChain(m) /\ ~ReadSide(m) /\ ~ReadLink(m) /\ ~Pin(m) /\ ~ReadChain(m)
        BY <1>1, <2>3 DEF LoadChain, NoDeltas, ReadSide, ReadLink, Pin, ReadChain
      <4>3. pc'[m] \notin {"link", "blob", "pin", "read"}
        <5>1. CASE ReadFull(m)
          <6>1. pc[m] \in Reading /\ (Finish(m, BodyRows(HitPath(m))) \/ SoftEvict(m))
            BY <5>1 DEF ReadFull, Reading
          <6>2. SoftEvict(m) \/ Serves(m)
            BY <6>1, FinishKinds
          <6> QED  BY <1>0, <6>2 DEF SoftEvict, Serves, DiskTypes
        <5>2. CASE Verify(m) \/ LoadFull(m)
          BY <1>0, <5>2 DEF Verify, LoadFull, SoftEvict, DiskTypes
        <5>3. CASE GiveUp(m) \/ Quarantine(m) \/ Unregister(m) \/ SetAside(m) \/ Touch(m)
          BY <1>0, <5>3 DEF GiveUp, Quarantine, Unregister, SetAside, Touch, DiskTypes
        <5> QED  BY <1>3, <3>2, <4>2, <5>1, <5>2, <5>3 DEF Reader
      <4> QED  BY <1>1, <2>1, <2>3, <4>1, <4>3
    <3> QED  BY <3>1, <3>2
  <2> QED  BY <2>2, <2>3
<1>4. ASSUME NEW m \in Models, NEW k \in Keys, Persist(m, k) \/ Lookup(m, k)
      PROVE  /\ plan'[n].base = NoPath /\ hit' = hit
             /\ (pc'[n] = pc[n] /\ key'[n] = key[n]) \/ pc'[n] \in {"body", "resolve"}
  <2>1. CASE Persist(m, k)
    <3>1. plan' = [plan EXCEPT ![m] = PlanFor(k, minted + 1)]
      BY <2>1 DEF Persist
    <3>2. plan'[n].base = NoPath
      BY <1>0, <1>1, <3>1, WholePlan DEF DiskTypes
    <3> QED  BY <1>0, <2>1, <3>2 DEF Persist, DiskTypes
  <2>2. CASE Lookup(m, k)
    BY <1>0, <1>1, <2>2 DEF Lookup, DiskTypes
  <2> QED  BY <1>4, <2>1, <2>2
<1>5. CASE Crash
  BY <1>0, <1>5 DEF Crash, Chosen, Reading
<1>6. CASE (\E p \in Paths : Damage(p)) \/ UNCHANGED vars
  <2>1. UNCHANGED <<plan, pc, hit, key>>
    BY <1>6 DEF Damage, vars
  <2> QED  BY <1>1, <2>1
<1>7. CASE \E m \in Models : Writer(m)
  BY <1>1, <1>2, <1>7 DEF Chosen, Reading
<1>8. CASE \E m \in Models, k \in Keys : Persist(m, k) \/ Lookup(m, k)
  BY <1>1, <1>4, <1>8 DEF Chosen, Reading
<1> QED  BY <1>3, <1>5, <1>6, <1>7, <1>8 DEF Next

LEMMA WholeStep ==
  ASSUME NoDeltas, DiskInv, Whole, [Next]_vars
  PROVE  Whole'
<1>1. \A p \in Paths : Resident(p)' => p \in ever'
  BY ResidentEver DEF DiskInv, Whole
<1>2. \A p \in Paths : body'[p].from = 0 /\ side'[p].base = NoPath
  BY WholeFiles
<1> QED  BY <1>1, <1>2, WholeWorkers DEF Whole, Resident

\* A lookup reads one body, which has the rows of its key.
LEMMA HandsOverWhole ==
  ASSUME NoDeltas, DiskInv, Whole, NEW m \in Models, ReadFull(m), served' # served
  PROVE  Store!Hit(m)
<1> DEFINE p == HitPath(m)
           k == hit[m].key
<1>0. DiskTypes /\ Phases /\ Stamped /\ pc[m] \in Reading /\ IsPrefix(k, key[m])
  BY DEF DiskInv, ReadFull, Chosen, Reading, Whole
<1>1. ~SoftEvict(m)
  BY DEF SoftEvict, readerVars
<1>2. side[p] # NoSide /\ body[p].uuid = side[p].uuid /\ Finish(m, BodyRows(p))
  BY <1>1 DEF ReadFull
<1>3. ASSUME OwnModel(m)  PROVE BodyRows(p) = Store!Rows(m, k) /\ p \in ever
  <2>1. k \in Keys
    BY <1>0 DEF Phases, Phase, Chosen
  <2>2. p = <<m, k>> /\ p \in Paths /\ Offset(p) = Len(k) /\ ModelOf(p) = m /\ Len(k) \in Nat
    BY <1>3, <2>1, KeyFacts DEF HitPath, OwnModel, Offset, ModelOf
  <2>3. body[p].uuid # 0
    BY <1>0, <1>2, <2>2 DEF Stamped
  <2>4. p \in ever /\ body[p].from = 0
    BY <2>2, <2>3 DEF Whole, Resident, NoBody
  <2>5. BodyRows(p) = [i \in 1..(Len(k) - 0) |-> <<m, 0 + i>>]
    BY <2>2, <2>4 DEF BodyRows
  <2>6. 1..(Len(k) - 0) = 1..Len(k) /\ \A i \in 1..Len(k) : 0 + i = i
    BY <2>2
  <2> QED  BY <2>4, <2>5, <2>6 DEF Store!Rows
<1> QED  BY <1>0, <1>2, <1>3, HandsOver

\* With delta checkpoints off, as is the default, the files, the index and the
\* lookups implement the store: whatever is evicted, lost in a crash, torn,
\* damaged or written under the same key by another model, a request is given
\* the rows of its own model for a prefix of its prompt, or nothing.
THEOREM WholeStoreKept ==
  ASSUME NoDeltas
  PROVE  Spec => StoreSpec
<1>1. ASSUME Init  PROVE DiskInv /\ Whole /\ Store!Init
  <2>1. Whole
    BY <1>1 DEF Init, Whole, Resident, NoBody, NoSide, Chosen, Reading
  <2>2. Store!Init
    BY <1>1 DEF Init, Store!Init
  <2> QED  BY <1>1, <2>1, <2>2, DiskStarts
<1>2. ASSUME DiskInv, Whole, [Next]_vars
      PROVE  DiskInv' /\ Whole' /\ [Store!Next]_<<ever, served>>
  <2>1. DiskInv' /\ Whole'
    BY <1>2, DiskStep, WholeStep
  <2>2. \A m \in Models : (ReadFull(m) \/ ReadChain(m)) /\ served' # served => Store!Hit(m)
    BY <1>2, HandsOverWhole DEF ReadChain, Whole
  <2>3. [Store!Next]_<<ever, served>>
    BY <1>2, <2>2, StoreStep DEF DiskInv
  <2> QED  BY <2>1, <2>3
<1> QED  BY <1>1, <1>2, PTL DEF Spec, StoreSpec, Store!Spec

-----------------------------------------------------------------------------
(* Models whose prompts have nothing in common.                             *)

\* A server with one model, or models whose tokenizers share no prompt.
Apart == \A m, n \in Models : m # n =>
           \A j \in Prompts[m], k \in Prompts[n] : ~IsPrefix(j, k)

Linking == {"link", "blob", "pin", "read"}

\* The base of a sidecar of m, or its absence.
BaseIn(m, base) == base # NoPath => base \in Paths /\ ModelOf(base) = m

\* A checkpoint is only ever found, named as a base and read by its own model.
OwnFiles ==
  /\ \A p \in Paths : Resident(p) => KeyOf(p) \in Prompts[ModelOf(p)]
  /\ \A p \in Paths : BaseIn(ModelOf(p), side[p].base)
  /\ \A k \in Keys : Indexed(k) => k \in Prompts[index[k].model]

\* What the chain of a delta of m is made of.
ChainLinks == [path : Paths, side : Sides]

OwnLinks(m, links) ==
  /\ links \in Seq(ChainLinks) /\ links # <<>>
  /\ \A i \in DOMAIN links : ModelOf(links[i].path) = m /\ BaseIn(m, links[i].side.base)

OwnWork(m) ==
  /\ pc[m] \in Writing => BaseIn(m, plan[m].base)
  /\ pc[m] \in Chosen => hit[m].ref.model = m
  /\ pc[m] \in Linking => OwnLinks(m, chain[m])

OwnOnly ==
  /\ OwnFiles
  /\ DOMAIN chain = Models
  /\ \A m \in Models : OwnWork(m)

\* A prefix of a prompt that some model was asked for is that model's own.
LEMMA PrefixIsOwn ==
  ASSUME Phases, Apart, OwnFiles, NEW m \in Models, NEW k \in Prompts[m],
         NEW j \in Keys, Indexed(j), IsPrefix(j, k)
  PROVE  index[j].model = m
BY DEF Phases, Apart, OwnFiles

\* The steps that change the index, and how.
LEMMA IndexSteps ==
  ASSUME DiskTypes, Phases, [Next]_vars, NEW k \in Keys, index'[k] # NoRef, index'[k] # index[k]
  PROVE  \/ \E m \in Models : pc[m] = "commit" /\ k = key[m] /\ index'[k].model = m
         \/ index' = Scanned
<1> USE DEF diskVars, memVars, writerVars, readerVars, histVars
<1>1. ASSUME NEW m \in Models, Writer(m)
      PROVE  pc[m] = "commit" /\ k = key[m] /\ index'[k].model = m
  <2>1. Commit(m)
    BY <1>1 DEF Writer, WriteBody, BodyFails, WriteTokens, TokensFail, WriteSide, SideFails, EndPass,
                Skip, Unlink, UnlinkSide, UnlinkTokens
  <2>2. pc[m] = "commit" /\ saved[m] /\ k = key[m] /\ index'[k] = [model |-> m, uuid |-> plan[m].uuid]
    BY <2>1 DEF Commit, DiskTypes
  <2> QED  BY <2>2
<1>2. ASSUME NEW m \in Models, Reader(m)  PROVE FALSE
  <2>1. index' = index \/ index' = [index EXCEPT ![hit[m].key] = NoRef]
    BY <1>2, ReaderKinds DEF GiveUp, Resolve, Unregister, SetAside, Touch, Forgets, Moves, Serves, Forget
  <2> QED  BY <2>1 DEF DiskTypes
<1>3. ASSUME NEW m \in Models, NEW j \in Keys, Lookup(m, j)  PROVE index' = Scanned
  BY <1>3 DEF Lookup
<1>4. ~ \/ \E m \in Models, j \in Keys : Persist(m, j)
        \/ Crash \/ (\E p \in Paths : Damage(p)) \/ UNCHANGED vars
  BY DEF Persist, Crash, Damage, vars
<1> QED  BY <1>1, <1>2, <1>3, <1>4 DEF Next

LEMMA OwnFilesStep ==
  ASSUME DiskTypes, Listed, Phases, OwnOnly, [Next]_vars
  PROVE  OwnFiles'
<1>1. ASSUME NEW p \in Paths, body'[p] # NoBody  PROVE KeyOf(p) \in Prompts[ModelOf(p)]
  <2>1. CASE Resident(p)
    BY <2>1 DEF OwnOnly, OwnFiles
  <2>2. CASE ~Resident(p)
    <3>1. PICK m \in Models, f \in Nat :
            WriteBody(m) /\ body' = [body EXCEPT ![<<m, key[m]>>] = [uuid |-> plan[m].uuid, from |-> f]]
      BY <1>1, <2>2, BodyChanges DEF Resident, DiskTypes
    <3>2. p = <<m, key[m]>>
      BY <1>1, <2>2, <3>1 DEF Resident, DiskTypes
    <3>3. key[m] \in Prompts[m]
      BY <3>1 DEF WriteBody, Phases, Phase, Writing
    <3> QED  BY <3>2, <3>3 DEF KeyOf, ModelOf
  <2> QED  BY <2>1, <2>2
<1>2. ASSUME NEW p \in Paths  PROVE BaseIn(ModelOf(p), side'[p].base)
  <2>1. CASE side'[p] = side[p] \/ side'[p] = NoSide
    BY <2>1 DEF OwnOnly, OwnFiles, BaseIn, NoSide
  <2>2. CASE \E m \in Models : WriteSide(m) /\ p = <<m, key[m]>> /\ side'[p] = plan[m]
    BY <2>2 DEF WriteSide, OwnOnly, OwnWork, Writing, ModelOf
  <2>3. \/ side'[p] = side[p] \/ side'[p] = NoSide
        \/ \E m \in Models : WriteSide(m) /\ p = <<m, key[m]>> /\ side'[p] = plan[m]
    BY SideSteps DEF DiskTypes
  <2> QED  BY <2>1, <2>2, <2>3
<1>3. ASSUME NEW k \in Keys, index'[k] # NoRef  PROVE k \in Prompts[index'[k].model]
  <2>1. CASE index'[k] = index[k]
    BY <1>3, <2>1 DEF OwnOnly, OwnFiles, Indexed
  <2>2. CASE \E m \in Models : pc[m] = "commit" /\ k = key[m] /\ index'[k].model = m
    BY <2>2 DEF Phases, Phase, Writing
  <2>3. CASE index' = Scanned
    <3> DEFINE found == {i \in DOMAIN order : KeyOf(order[i]) = k /\ Readable(order[i])}
               p == order[Max(found)]
               ref == [model |-> ModelOf(p), uuid |-> side[p].uuid]
    <3>1. CASE found = {}
      <4>1. Scanned[k] = index[k]
        BY <3>1, Zenon DEF Scanned
      <4> QED  BY <1>3, <2>3, <4>1 DEF OwnOnly, OwnFiles, Indexed
    <3>2. CASE found # {}
      <4>1. DOMAIN order = 1..Len(order) /\ Len(order) \in Nat
        BY DEF Listed
      <4>2. found \in SUBSET (1..Len(order))
        BY <4>1
      <4>3. Max(found) \in found
        BY <3>2, <4>1, <4>2, MaxInSet, Zenon
      <4>4. p \in Residents /\ KeyOf(p) = k
        BY <4>3 DEF Listed, ToSet
      <4>5. Scanned[k] = ref
        BY <3>2, Zenon DEF Scanned
      <4> QED  BY <2>3, <4>4, <4>5 DEF OwnOnly, OwnFiles, Residents
    <3> QED  BY <3>1, <3>2
  <2> QED  BY <1>3, <2>1, <2>2, <2>3, IndexSteps
<1> QED  BY <1>1, <1>2, <1>3 DEF OwnFiles, Resident, Indexed

\* What a writer does not touch is another worker's and every reader's.
LEMMA OwnWorkWriter ==
  ASSUME DiskTypes, Phases, OwnOnly, NEW m \in Models, Writer(m), NEW n \in Models
  PROVE  OwnWork(n)'
<1> USE DEF diskVars, memVars, writerVars, readerVars, histVars
<1>1. UNCHANGED <<hit, chain>>
  BY DEF Writer, WriteBody, BodyFails, WriteTokens, TokensFail, WriteSide, SideFails, Commit, EndPass,
         Skip, Unlink, UnlinkSide, UnlinkTokens
<1>2. CASE n # m
  BY <1>1, <1>2, WriterFrame DEF OwnOnly, OwnWork
<1>3. CASE n = m
  <2>1. /\ pc[m] \in {"evict", "unlink", "unlink tokens"} \cup Writing
        /\ pc'[m] \in {"idle"} \cup Locked
        /\ pc'[m] \in Writing => pc[m] \in Writing
        /\ plan'[m] = plan[m] \/ plan'[m].base = NoPath
    <3> USE DEF Goto, DiskTypes, Locked, Writing
    <3> HIDE DEF DiskTypes
    <3>1. CASE WriteBody(m)
      <4>1. [NoSide EXCEPT !.uuid = plan[m].uuid].base = NoPath
        BY DEF NoSide
      <4>2. plan'[m] = plan[m] \/ plan'[m] = [NoSide EXCEPT !.uuid = plan[m].uuid]
        BY <3>1 DEF WriteBody, DiskTypes
      <4>3. pc[m] = "body" /\ pc'[m] = "tokens"
        BY <3>1 DEF WriteBody, DiskTypes
      <4> QED  BY <4>1, <4>2, <4>3
    <3>2. CASE BodyFails(m) \/ WriteTokens(m) \/ TokensFail(m) \/ WriteSide(m) \/ SideFails(m)
      BY <3>2 DEF BodyFails, WriteTokens, TokensFail, WriteSide, SideFails, DiskTypes
    <3>3. CASE Commit(m) \/ EndPass(m)
      BY <3>3 DEF Commit, EndPass, DiskTypes
    <3>4. CASE Skip(m) \/ Unlink(m) \/ UnlinkSide(m) \/ UnlinkTokens(m)
      BY <3>4 DEF Skip, Unlink, UnlinkSide, UnlinkTokens, DiskTypes
    <3> QED  BY <3>1, <3>2, <3>3, <3>4 DEF Writer
  <2>2. pc'[m] \notin Chosen /\ pc'[m] \notin Linking
    BY <2>1 DEF Locked, Chosen, Reading, Linking
  <2>3. BaseIn(m, plan'[m].base) \/ pc'[m] \notin Writing
    BY <2>1 DEF OwnOnly, OwnWork, BaseIn
  <2> QED  BY <1>3, <2>2, <2>3 DEF OwnWork
<1> QED  BY <1>2, <1>3

\* A chain starts with a link, and grows by one in front.
LEMMA LinksGrow ==
  ASSUME NEW m \in Models, NEW p \in Paths, ModelOf(p) = m
  PROVE  /\ OwnLinks(m, <<[path |-> p, side |-> NoSide]>>)
         /\ \A links : OwnLinks(m, links) => OwnLinks(m, WithBase(links, p))
<1> DEFINE first == [path |-> p, side |-> NoSide]
<1>1. first \in ChainLinks /\ ModelOf(first.path) = m /\ BaseIn(m, first.side.base)
  BY RecordFacts DEF BaseIn, NoSide, ChainLinks
<1> HIDE DEF first
<1>2. OwnLinks(m, <<first>>)
  BY <1>1 DEF OwnLinks
<1>3. ASSUME NEW links, OwnLinks(m, links)  PROVE OwnLinks(m, <<first>> \o links)
  <2>1. links \in Seq(ChainLinks) /\ <<first>> \in Seq(ChainLinks) /\ Len(<<first>>) = 1
    BY <1>1, <1>3 DEF OwnLinks
  <2> DEFINE longer == <<first>> \o links
  <2>2. /\ longer \in Seq(ChainLinks) /\ Len(longer) = 1 + Len(links)
        /\ \A i \in 1..Len(longer) : longer[i] = IF i = 1 THEN first ELSE links[i - 1]
    BY <2>1
  <2>3. longer # <<>> /\ DOMAIN longer = 1..Len(longer)
    BY <2>1, <2>2
  <2> HIDE DEF longer
  <2>4. \A i \in DOMAIN longer : ModelOf(longer[i].path) = m /\ BaseIn(m, longer[i].side.base)
    <3> SUFFICES ASSUME NEW i \in 1..Len(longer)
                 PROVE  ModelOf(longer[i].path) = m /\ BaseIn(m, longer[i].side.base)
      BY <2>3
    <3>1. CASE i = 1
      BY <3>1, <1>1, <2>2
    <3>2. CASE i # 1
      <4>1. i - 1 \in DOMAIN links /\ longer[i] = links[i - 1]
        BY <2>1, <2>2, <3>2
      <4> QED  BY <4>1, <1>3 DEF OwnLinks
    <3> QED  BY <3>1, <3>2
  <2> QED  BY <2>2, <2>3, <2>4 DEF OwnLinks, longer
<1> QED  BY <1>2, <1>3 DEF first, WithBase

\* A reader keeps to the paths of its own model.
LEMMA ChainIsOwn ==
  ASSUME DiskTypes, Phases, OwnOnly, NEW m \in Models, Reader(m), pc'[m] \in Linking
  PROVE  OwnLinks(m, chain'[m])
<1> USE DEF Goto, Linking, Chosen, Reading
<1>1. hit[m].ref.model = m \/ pc[m] \notin Chosen
  BY DEF OwnOnly, OwnWork
<1>2. /\ pc[m] \in Linking => OwnLinks(m, chain[m])
      /\ DOMAIN chain = Models
  BY DEF OwnOnly, OwnWork
<1>3. /\ ~GiveUp(m) /\ ~Resolve(m) /\ ~Quarantine(m) /\ ~SoftEvict(m) /\ ~Verify(m) /\ ~LoadFull(m)
      /\ ~Unregister(m) /\ ~SetAside(m) /\ ~Touch(m)
  BY DEF GiveUp, Resolve, Quarantine, SoftEvict, Verify, LoadFull, Unregister, SetAside, Touch, DiskTypes
<1>4. ~ReadFull(m) /\ ~ReadChain(m)
  <2>1. ASSUME NEW rows, pc[m] \in Reading  PROVE ~Finish(m, rows)
    BY <1>3, <2>1, FinishKinds DEF Serves, DiskTypes
  <2> QED  BY <1>3, <2>1 DEF ReadFull, ReadChain
<1>5. CASE LoadChain(m)
  <2>1. HitPath(m) \in Paths /\ ModelOf(HitPath(m)) = m
    BY <1>1, <1>5, KeyFacts DEF LoadChain, HitPath, Phases, Phase
  <2>2. chain'[m] = <<[path |-> HitPath(m), side |-> NoSide]>>
    BY <1>2, <1>5 DEF LoadChain
  <2> QED  BY <2>1, <2>2, LinksGrow
<1>6. CASE ReadSide(m)
  <2> DEFINE p == Head(chain[m]).path
             old == chain[m][1]
             new == [old EXCEPT !.side = side[p]]
             links == [chain[m] EXCEPT ![1] = new]
  <2>1. OwnLinks(m, chain[m])
    BY <1>2, <1>6 DEF ReadSide
  <2>2. /\ chain[m] \in Seq(ChainLinks) /\ 1 \in DOMAIN chain[m]
        /\ Head(chain[m]) = old
    BY <2>1 DEF OwnLinks
  <2>3. old \in ChainLinks /\ ModelOf(old.path) = m
    BY <2>1, <2>2 DEF OwnLinks
  <2>4. side[p] \in Sides /\ BaseIn(m, side[p].base)
    BY <2>2, <2>3 DEF ChainLinks, OwnOnly, OwnFiles, DiskTypes
  <2>5. new \in ChainLinks /\ new.path = old.path /\ new.side = side[p]
    BY <2>3, <2>4 DEF ChainLinks
  <2>6. chain'[m] = links
    BY <1>2, <1>3, <1>6 DEF ReadSide
  <2> HIDE DEF new, old
  <2>7. links \in Seq(ChainLinks) /\ links # <<>>
    BY <2>2, <2>5
  <2>8. \A i \in DOMAIN links : links[i] = IF i = 1 THEN new ELSE chain[m][i]
    BY <2>2
  <2>9. DOMAIN links = DOMAIN chain[m]
    OBVIOUS
  <2> HIDE DEF links
  <2> QED  BY <2>1, <2>3, <2>4, <2>5, <2>6, <2>7, <2>8, <2>9 DEF OwnLinks
<1>7. CASE ReadLink(m)
  <2> DEFINE link == Head(chain[m])
  <2>1. OwnLinks(m, chain[m])
    BY <1>2, <1>7 DEF ReadLink
  <2>2. chain[m] \in Seq(ChainLinks) /\ 1 \in DOMAIN chain[m] /\ link = chain[m][1]
    BY <2>1 DEF OwnLinks
  <2>3. link.side.base = NoPath \/ (link.side.base \in Paths /\ ModelOf(link.side.base) = m)
    BY <2>1, <2>2 DEF OwnLinks, BaseIn
  <2>4. \/ chain' = chain
        \/ link.side.base # NoPath /\ chain' = [chain EXCEPT ![m] = WithBase(chain[m], link.side.base)]
    BY <1>3, <1>7, Zenon DEF ReadLink
  <2>5. CASE chain' = chain
    BY <2>1, <2>5
  <2>6. CASE chain'[m] = WithBase(chain[m], link.side.base) /\ link.side.base # NoPath
    BY <2>1, <2>3, <2>6, LinksGrow
  <2> QED  BY <1>2, <2>4, <2>5, <2>6
<1>8. CASE Pin(m)
  BY <1>2, <1>3, <1>8 DEF Pin, readerVars
<1> QED  BY <1>3, <1>4, <1>5, <1>6, <1>7, <1>8 DEF Reader

\* What the steps of a reader do to candidates and chains.
LEMMA ReaderFrame ==
  ASSUME DiskTypes, Phases, OwnOnly, NEW m \in Models, Reader(m)
  PROVE  /\ UNCHANGED plan
         /\ \A n \in Models \ {m} : pc'[n] = pc[n] /\ hit'[n] = hit[n] /\ chain'[n] = chain[n]
         /\ pc[m] \notin Writing /\ pc'[m] \notin Writing
         /\ DOMAIN chain' = Models
<1> USE DEF Goto, Chosen, Reading, Writing, diskVars, memVars, writerVars, readerVars, histVars
<1>1. /\ UNCHANGED plan
      /\ \A n \in Models \ {m} : pc'[n] = pc[n] /\ hit'[n] = hit[n]
      /\ pc[m] \notin Writing /\ pc'[m] \notin Writing
  BY ReaderKinds, SMTT(20) DEF GiveUp, Resolve, Unregister, SetAside, Touch, Forgets, Moves, Serves, DiskTypes
<1>2. chain' = chain \/ \E links : chain' = [chain EXCEPT ![m] = links]
  <2>1. CASE GiveUp(m) \/ Resolve(m) \/ Quarantine(m) \/ LoadChain(m) \/ SoftEvict(m)
    BY <2>1, Zenon DEF GiveUp, Resolve, Quarantine, LoadChain, SoftEvict
  <2>7. CASE Unregister(m) \/ SetAside(m) \/ Touch(m)
    BY <2>7, Zenon DEF Unregister, SetAside, Touch
  <2>2. ASSUME NEW rows, Finish(m, rows)  PROVE chain' = [chain EXCEPT ![m] = <<>>]
    BY <2>2, Zenon DEF Finish, SoftEvict
  <2>3. CASE Verify(m) \/ LoadFull(m) \/ Pin(m)
    BY <2>3, Zenon DEF Verify, LoadFull, Pin, SoftEvict
  <2>4. CASE ReadFull(m) \/ ReadChain(m)
    BY <2>1, <2>2, <2>4, Zenon DEF ReadFull, ReadChain
  <2>5. CASE ReadSide(m)
    BY <2>1, <2>5 DEF ReadSide
  <2>6. CASE ReadLink(m)
    BY <2>1, <2>6, Zenon DEF ReadLink
  <2> QED  BY <2>1, <2>3, <2>4, <2>5, <2>6, <2>7, Zenon DEF Reader
<1>3. DOMAIN chain = Models
  BY DEF OwnOnly
<1> QED  BY <1>1, <1>2, <1>3

LEMMA OwnWorkReader ==
  ASSUME DiskTypes, Phases, Apart, OwnOnly, NEW m \in Models, Reader(m), NEW n \in Models
  PROVE  OwnWork(n)'
<1>1. CASE n # m
  BY <1>1, ReaderFrame DEF OwnOnly, OwnWork
<1>2. CASE n = m
  <2>1. ASSUME pc'[m] \in Chosen  PROVE hit'[m].ref.model = m
    <3>1. CASE Resolve(m)
      <4> DEFINE k == Longest(Candidates(m))
                 h == [key |-> k, ref |-> index[k]]
      <4>1. key[m] \in Prompts[m] /\ Candidates(m) # {}
        BY <3>1 DEF Resolve, Phases, Phase
      <4>2. k \in Keys /\ Indexed(k) /\ IsPrefix(k, key[m])
        BY <4>1, KeyFacts, ResolvesToCandidate
      <4>3. index[k].model = m
        BY <4>1, <4>2, PrefixIsOwn DEF OwnOnly
      <4>4. hit' = [hit EXCEPT ![m] = h]
        BY <3>1, Zenon DEF Resolve
      <4>5. h.ref.model = m
        BY <4>3
      <4> HIDE DEF h
      <4> QED  BY <4>4, <4>5 DEF DiskTypes
    <3>2. CASE ~Resolve(m)
      <4>1. pc[m] \in Chosen /\ hit' = hit
        BY <2>1, <3>2, StillChosen DEF DiskTypes
      <4> QED  BY <4>1 DEF OwnOnly, OwnWork
    <3> QED  BY <3>1, <3>2
  <2>2. pc'[m] \in Linking => OwnLinks(m, chain'[m])
    BY ChainIsOwn
  <2> QED  BY <1>2, <2>1, <2>2, ReaderFrame DEF OwnWork
<1> QED  BY <1>1, <1>2

LEMMA OwnOnlyStep ==
  ASSUME DiskTypes, Listed, Phases, Apart, OwnOnly, [Next]_vars
  PROVE  OwnOnly'
<1> USE DEF diskVars, memVars, writerVars, readerVars, histVars
<1>1. ASSUME NEW m \in Models, Writer(m)
      PROVE  DOMAIN chain' = Models /\ \A n \in Models : OwnWork(n)'
  <2>1. chain' = chain
    BY <1>1 DEF Writer, WriteBody, BodyFails, WriteTokens, TokensFail, WriteSide, SideFails, Commit, EndPass,
                Skip, Unlink, UnlinkSide, UnlinkTokens
  <2> QED  BY <1>1, <2>1, OwnWorkWriter DEF OwnOnly
<1>2. ASSUME NEW m \in Models, Reader(m)
      PROVE  DOMAIN chain' = Models /\ \A n \in Models : OwnWork(n)'
  BY <1>2, ReaderFrame, OwnWorkReader
<1>3. ASSUME NEW m \in Models, NEW k \in Keys, Persist(m, k)
      PROVE  DOMAIN chain' = Models /\ \A n \in Models : OwnWork(n)'
  <2>1. /\ UNCHANGED <<hit, chain>> /\ k \in Prompts[m]
        /\ plan' = [plan EXCEPT ![m] = PlanFor(k, minted + 1)]
        /\ pc' = [pc EXCEPT ![m] = "body"]
    BY <1>3 DEF Persist, Goto
  <2>2. BaseIn(m, PlanFor(k, minted + 1).base)
    <3>1. minted + 1 \in Uuids
      BY <1>3, KeyFacts DEF Persist, DiskTypes, Uuids
    <3>2. CASE PlanFor(k, minted + 1).base = NoPath
      BY <3>2 DEF BaseIn
    <3>3. CASE PlanFor(k, minted + 1).base # NoPath
      <4>1. PICK j \in Keys : /\ Indexed(j) /\ IsStrictPrefix(j, k)
                              /\ PlanFor(k, minted + 1).base = <<index[j].model, j>>
        BY <3>1, <3>3, PlanType
      <4>2. index[j].model = m
        BY <2>1, <4>1, PrefixIsOwn DEF OwnOnly, IsStrictPrefix
      <4> QED  BY <4>1, <4>2, KeyFacts, ZenonT(30) DEF BaseIn
    <3> QED  BY <3>2, <3>3
  <2>3. ASSUME NEW n \in Models  PROVE OwnWork(n)'
    <3>1. CASE n = m
      <4>1. pc'[m] = "body" /\ plan'[m] = PlanFor(k, minted + 1)
        BY <2>1 DEF DiskTypes
      <4> QED  BY <2>2, <3>1, <4>1 DEF OwnWork, Chosen, Reading, Linking
    <3>2. CASE n # m
      BY <2>1, <3>2 DEF OwnOnly, OwnWork, DiskTypes
    <3> QED  BY <3>1, <3>2
  <2> QED  BY <2>1, <2>3 DEF OwnOnly
<1>4. ASSUME NEW m \in Models, NEW k \in Keys, Lookup(m, k)
      PROVE  DOMAIN chain' = Models /\ \A n \in Models : OwnWork(n)'
  <2>1. UNCHANGED <<plan, hit, chain>> /\ pc' = [pc EXCEPT ![m] = "resolve"]
    BY <1>4 DEF Lookup, Goto
  <2> QED  BY <2>1 DEF OwnOnly, OwnWork, Writing, Chosen, Reading, Linking, DiskTypes
<1>5. CASE Crash
  <2>1. DOMAIN chain' = Models /\ \A n \in Models : pc'[n] = "idle"
    BY <1>5 DEF Crash
  <2>2. OwnFiles'
    BY OwnFilesStep
  <2> QED  BY <2>1, <2>2 DEF OwnOnly, OwnWork, Writing, Chosen, Reading, Linking
<1>6. CASE (\E p \in Paths : Damage(p)) \/ UNCHANGED vars
  <2>1. UNCHANGED <<pc, plan, hit, chain>>
    BY <1>6 DEF Damage, vars
  <2>2. OwnFiles'
    BY OwnFilesStep
  <2> QED  BY <2>1, <2>2 DEF OwnOnly, OwnWork
<1> QED  BY <1>1, <1>2, <1>3, <1>4, <1>5, <1>6, OwnFilesStep DEF Next, OwnOnly

\* Who reads a chain now has read it before, or found all its bodies there.
LEMMA WhoReads ==
  ASSUME DiskTypes, Phases, OwnOnly, [Next]_vars, NEW m \in Models, pc'[m] = "read"
  PROVE  /\ chain'[m] = chain[m]
         /\ pc[m] = "read" \/ (body' = body /\ Links(m) \subseteq Residents)
<1> USE DEF Goto, diskVars, memVars, writerVars, readerVars, histVars
<1>1. ASSUME NEW n \in Models, Writer(n)  PROVE pc[m] = "read" /\ chain'[m] = chain[m]
  <2>1. chain' = chain
    BY <1>1 DEF Writer, WriteBody, BodyFails, WriteTokens, TokensFail, WriteSide, SideFails, Commit, EndPass,
                Skip, Unlink, UnlinkSide, UnlinkTokens
  <2>2. pc'[m] = pc[m] \/ pc'[m] # "read"
    <3>1. CASE n = m
      BY <1>1, <3>1 DEF Writer, WriteBody, BodyFails, WriteTokens, TokensFail, WriteSide, SideFails, Commit,
                EndPass, Skip, Unlink, UnlinkSide, UnlinkTokens, DiskTypes
    <3>2. CASE n # m
      BY <1>1, <3>2, WriterFrame
    <3> QED  BY <3>1, <3>2
  <2> QED  BY <2>1, <2>2
<1>2. ASSUME NEW n \in Models, Reader(n)
      PROVE  /\ chain'[m] = chain[m]
             /\ pc[m] = "read" \/ (body' = body /\ Links(m) \subseteq Residents)
  <2>1. CASE n # m
    BY <1>2, <2>1, ReaderFrame
  <2>2. CASE n = m
    <3>1. /\ ~GiveUp(m) /\ ~Resolve(m) /\ ~Quarantine(m) /\ ~SoftEvict(m) /\ ~Verify(m) /\ ~LoadFull(m)
          /\ ~Unregister(m) /\ ~SetAside(m) /\ ~Touch(m)
      BY DEF GiveUp, Resolve, Quarantine, SoftEvict, Verify, LoadFull, Unregister, SetAside, Touch, DiskTypes
    <3>2. ~ReadFull(m) /\ ~ReadChain(m)
      <4>1. ASSUME NEW rows, pc[m] \in Reading  PROVE ~Finish(m, rows)
        BY <3>1, <4>1, FinishKinds DEF Serves, DiskTypes
      <4> QED  BY <3>1, <4>1 DEF ReadFull, ReadChain, Chosen, Reading
    <3>3. ~LoadChain(m) /\ ~ReadSide(m) /\ ~ReadLink(m)
      BY <3>1 DEF LoadChain, ReadSide, ReadLink, DiskTypes
    <3>4. Pin(m)
      BY <1>2, <2>2, <3>1, <3>2, <3>3 DEF Reader
    <3> QED  BY <3>1, <3>4 DEF Pin
  <2> QED  BY <2>1, <2>2
<1>3. CASE \/ \E n \in Models, k \in Keys : Persist(n, k) \/ Lookup(n, k)
           \/ Crash \/ (\E p \in Paths : Damage(p)) \/ UNCHANGED vars
  BY <1>3, ZenonT(30) DEF Persist, Lookup, Crash, Damage, vars, DiskTypes
<1> QED  BY <1>1, <1>2, <1>3 DEF Next

\* What is pinned is not unlinked, and what another worker quarantines is a
\* path of its own model.
LEMMA KeepsChainStep ==
  ASSUME DiskTypes, Phases, OwnOnly, ReaderKeepsChain, [Next]_vars
  PROVE  ReaderKeepsChain'
<1> SUFFICES ASSUME NEW m \in Models, pc'[m] = "read"
             PROVE  Links(m)' \subseteq Residents'
  BY DEF ReaderKeepsChain
<1>1. Links(m)' = Links(m)
  BY WhoReads DEF Links
<1>2. CASE body' = body
  BY <1>1, <1>2, WhoReads DEF ReaderKeepsChain, Residents, Resident
<1>3. CASE body' # body
  <2>1. pc[m] = "read" /\ Links(m) \subseteq Residents
    BY <1>3, WhoReads DEF ReaderKeepsChain
  <2>2. ASSUME NEW p \in Links(m)  PROVE p \in Paths /\ ModelOf(p) = m /\ body[p] # NoBody
    <3>1. OwnLinks(m, chain[m])
      BY <2>1 DEF OwnOnly, OwnWork, Linking
    <3>2. PICK i \in DOMAIN chain[m] : p = chain[m][i].path
      BY DEF Links
    <3> QED  BY <2>1, <3>1, <3>2 DEF OwnLinks, Residents, Resident
  <2>3. ASSUME NEW p \in Links(m)  PROVE body'[p] # NoBody
    <3>1. ASSUME NEW n \in Models, NEW f \in Nat, WriteBody(n),
                 body' = [body EXCEPT ![<<n, key[n]>>] = [uuid |-> plan[n].uuid, from |-> f]]
          PROVE  body'[p] # NoBody
      <4>1. plan[n].uuid # 0
        BY <3>1 DEF WriteBody, Phases, Phase, Writing, DiskTypes
      <4>2. [uuid |-> plan[n].uuid, from |-> f] # NoBody
        BY <4>1 DEF NoBody
      <4> HIDE DEF NoBody
      <4> QED  BY <2>2, <3>1, <4>2 DEF DiskTypes
    <3>2. ASSUME NEW n \in Models, Unlink(n), body' = [body EXCEPT ![Head(todo[n])] = NoBody]
          PROVE  body'[p] # NoBody
      <4>1. p # Head(todo[n])
        BY <2>1, <3>2 DEF Unlink, Protected, Pinned
      <4> QED  BY <2>2, <3>2, <4>1 DEF DiskTypes
    <3>3. ASSUME NEW n \in Models, SetAside(n), body' = [body EXCEPT ![HitPath(n)] = NoBody]
          PROVE  body'[p] # NoBody
      <4>1. n # m /\ hit[n].ref.model = n
        BY <2>1, <3>3 DEF SetAside, OwnOnly, OwnWork, Chosen
      <4>2. p # HitPath(n)
        BY <2>2, <4>1 DEF HitPath, ModelOf
      <4> QED  BY <2>2, <3>3, <4>2 DEF DiskTypes
    <3> QED  BY <1>3, <3>1, <3>2, <3>3, BodyChanges
  <2> QED  BY <1>1, <2>2, <2>3 DEF Residents, Resident
<1> QED  BY <1>2, <1>3

\* Between models that share no prompt, nobody takes a body away that another
\* engine is reading: not the eviction that runs while the chain is read, which
\* respects the pins, and not the quarantine of a damaged checkpoint, which
\* does not look at them.
THEOREM ReadersKeepTheirChains ==
  ASSUME Apart
  PROVE  Spec => []ReaderKeepsChain
<1>1. Init => DiskInv /\ OwnOnly /\ ReaderKeepsChain
  <2> SUFFICES ASSUME Init PROVE DiskInv /\ OwnOnly /\ ReaderKeepsChain
    OBVIOUS
  <2>1. DOMAIN chain = Models /\ \A m \in Models : pc[m] = "idle"
    BY DEF Init
  <2>2. OwnFiles
    BY DEF Init, OwnFiles, Resident, Indexed, BaseIn, NoSide
  <2> QED  BY <2>1, <2>2, DiskStarts
           DEF OwnOnly, OwnWork, Writing, Chosen, Reading, Linking, ReaderKeepsChain
<1>2. /\ DiskInv /\ OwnOnly /\ ReaderKeepsChain /\ [Next]_vars
      => (DiskInv /\ OwnOnly /\ ReaderKeepsChain)'
  BY DiskStep, OwnOnlyStep, KeepsChainStep DEF DiskInv
<1> QED  BY <1>1, <1>2, PTL DEF Spec

-----------------------------------------------------------------------------
(* The order of eviction.                                                   *)

\* Only keeps what is in S, once if the listing has it once; nothing it keeps
\* comes after its last path in the listing.
LEMMA OnlyFacts ==
  ASSUME NEW s \in Seq(Paths), NEW S
  PROVE  /\ Only(s, S) \in Seq(Paths) /\ ToSet(Only(s, S)) = ToSet(s) \cap S
         /\ IsInjective(s) => IsInjective(Only(s, S))
         /\ \A x \in ToSet(s) \cap S :
              Only(s, S) # <<>> /\ (Last(Only(s, S)) = x \/ InOrder(s, x, Last(Only(s, S))))
<1> DEFINE N == Len(s)
           With1(q, n) == IF s[n] \in S THEN Append(q, s[n]) ELSE q
           step == [x \in (1..N) \X Seq(Paths) |-> With1(x[2], x[1])]
           Def(f) == [n \in 0..N |-> IF n = 0 THEN <<>> ELSE With1(f[n - 1], n)]
           only == CHOOSE f : f = Def(f)
<1>1. N \in Nat /\ (\A n \in 1..N : s[n] \in Paths) /\ <<>> \in Seq(Paths) /\ DOMAIN s = 1..N
  OBVIOUS
<1>2. ASSUME NEW q \in Seq(Paths), NEW n \in 1..N  PROVE With1(q, n) \in Seq(Paths)
  <2>1. s[n] \in Paths
    BY <1>1
  <2> QED  BY <2>1
<1> HIDE DEF With1
<1>3. step \in [(1..N) \X Seq(Paths) -> Seq(Paths)] /\ \A n \in 1..N, q \in Seq(Paths) : step[<<n, q>>] = With1(q, n)
  BY <1>2
<1> HIDE DEF step
<1>4. PICK g : Recurs(g, N, Seq(Paths), <<>>, step)
  <2> HIDE DEF N
  <2> QED  BY <1>1, <1>3, Recursion
<1>5. g \in [0..N -> Seq(Paths)] /\ \A n \in 0..N : g[n] = IF n = 0 THEN <<>> ELSE With1(g[n - 1], n)
  <2>1. ASSUME NEW n \in 1..N  PROVE g[n] = With1(g[n - 1], n)
    <3>1. n - 1 \in 0..N /\ g \in [0..N -> Seq(Paths)] /\ g[n] = step[<<n, g[n - 1]>>]
      BY <1>1, <1>4 DEF Recurs
    <3> QED  BY <1>3, <3>1
  <2>2. \A n \in 0..N : n = 0 \/ n \in 1..N
    BY <1>1
  <2> QED  BY <1>4, <2>1, <2>2 DEF Recurs
<1>6. g = Def(g)
  BY <1>5
<1>7. only = Def(only)
  <2> HIDE DEF Def
  <2> QED  BY <1>6
<1>8. Only(s, S) = only[N]
  BY DEF Only, With1
<1>9. \A n \in 0..N : only[n] = IF n = 0 THEN <<>> ELSE With1(only[n - 1], n)
  <2> HIDE DEF only
  <2> QED  BY <1>7
<1> HIDE DEF only
<1> DEFINE Upto(n) == {s[i] : i \in 1..n}
           Good(n) == /\ only[n] \in Seq(Paths) /\ ToSet(only[n]) = Upto(n) \cap S
                      /\ IsInjective(s) => IsInjective(only[n])
           Ends(n) == Upto(n) \cap S # {} =>
                        only[n] # <<>> /\ \E j \in 1..n : s[j] = Last(only[n]) /\ \A i \in 1..n : s[i] \in S => i <= j
           T == {n \in 0..N : Good(n) /\ Ends(n)}
<1>10. ASSUME NEW n \in 0..N, Good(n), Ends(n), n < N  PROVE Good(n + 1) /\ Ends(n + 1)
  <2>1. n + 1 \in 1..N /\ n + 1 \in 0..N /\ (n + 1) - 1 = n /\ n + 1 # 0
    BY <1>1, <1>10
  <2>2. only[n + 1] = With1(only[n], n + 1)
    BY <1>9, <2>1
  <2>3. Upto(n + 1) = Upto(n) \cup {s[n + 1]}
    <3>1. \A i \in 1..(n + 1) : i = n + 1 \/ i \in 1..n
      BY <2>1
    <3>2. n + 1 \in 1..(n + 1) /\ \A i \in 1..n : i \in 1..(n + 1)
      BY <2>1
    <3> QED  BY <3>1, <3>2
  <2>4. CASE s[n + 1] \in S
    <3>1. only[n + 1] = Append(only[n], s[n + 1]) /\ s[n + 1] \in Paths
      BY <1>1, <2>1, <2>2, <2>4 DEF With1
    <3>2. IsInjective(s) => s[n + 1] \notin Upto(n)
      <4>1. \A i \in 1..n : i \in DOMAIN s /\ i # n + 1
        BY <1>1, <2>1
      <4> QED  BY <4>1, <1>1, <2>1 DEF IsInjective
    <3>3. /\ Append(only[n], s[n + 1]) \in Seq(Paths)
          /\ ToSet(Append(only[n], s[n + 1])) = ToSet(only[n]) \cup {s[n + 1]}
          /\ IsInjective(only[n]) /\ s[n + 1] \notin ToSet(only[n]) => IsInjective(Append(only[n], s[n + 1]))
      BY <1>10, <3>1, ToSetAppend
    <3>4. Ends(n + 1)
      <4>1. only[n + 1] # <<>> /\ Last(only[n + 1]) = s[n + 1]
        BY <1>10, <3>1 DEF Last
      <4>2. n + 1 \in 1..(n + 1) /\ \A i \in 1..(n + 1) : i <= n + 1
        BY <2>1
      <4> HIDE DEF Upto
      <4> QED  BY <4>1, <4>2
    <3> HIDE DEF Upto, Ends
    <3> QED  BY <1>10, <2>3, <2>4, <3>1, <3>2, <3>3, <3>4
  <2>5. CASE s[n + 1] \notin S
    <3>1. only[n + 1] = only[n]
      BY <2>2, <2>5 DEF With1
    <3>2. Ends(n + 1)
      <4> SUFFICES ASSUME Upto(n + 1) \cap S # {}
                   PROVE  /\ only[n + 1] # <<>>
                          /\ \E j \in 1..(n + 1) : s[j] = Last(only[n + 1]) /\ \A i \in 1..(n + 1) : s[i] \in S => i <= j
        OBVIOUS
      <4>1. Upto(n) \cap S # {}
        BY <2>3, <2>5
      <4>2. PICK j \in 1..n : s[j] = Last(only[n]) /\ \A i \in 1..n : s[i] \in S => i <= j
        BY <1>10, <4>1
      <4>3. j \in 1..(n + 1) /\ \A i \in 1..(n + 1) : i \in 1..n \/ i = n + 1
        BY <2>1
      <4>4. only[n] # <<>>
        BY <1>10, <4>1
      <4> HIDE DEF Upto
      <4> QED  BY <2>5, <3>1, <4>2, <4>3, <4>4
    <3> HIDE DEF Upto, Ends
    <3> QED  BY <1>10, <2>3, <2>5, <3>1, <3>2
  <2> QED  BY <2>4, <2>5
<1>11. Good(0) /\ Ends(0)
  <2>1. only[0] = <<>> /\ Upto(0) = {}
    BY <1>1, <1>9
  <2>2. ToSet(<<>>) = {} /\ IsInjective(<<>>)
    BY DEF ToSet, IsInjective
  <2> QED  BY <1>1, <2>1, <2>2
<1>12. Good(N) /\ Ends(N)
  <2>1. T \in SUBSET (0..N) /\ 0 \in T /\ N \in 0..N /\ \A n \in 0..N : n \in T /\ n < N => n + 1 \in T
    <3>1. \A n \in 0..N : n < N => n + 1 \in 0..N
      BY <1>1
    <3> HIDE DEF Good, N
    <3> QED  BY <1>1, <1>10, <1>11, <3>1
  <2> HIDE DEF T, N
  <2>2. N \in T
    BY <1>1, <2>1, Climb
  <2> QED  BY <2>2 DEF T
<1>13. Upto(N) = ToSet(s)
  BY <1>1 DEF ToSet
<1>14. ASSUME NEW x \in ToSet(s) \cap S
       PROVE  only[N] # <<>> /\ (Last(only[N]) = x \/ InOrder(s, x, Last(only[N])))
  <2>1. Upto(N) \cap S # {}
    BY <1>13, <1>14
  <2>2. PICK j \in 1..N : s[j] = Last(only[N]) /\ \A i \in 1..N : s[i] \in S => i <= j
    BY <1>12, <2>1
  <2>3. PICK i \in 1..N : s[i] = x
    BY <1>1, <1>14 DEF ToSet
  <2>4. i = j \/ i < j
    BY <1>1, <1>14, <2>2, <2>3
  <2>5. i < j => InOrder(s, x, Last(only[N]))
    BY <1>1, <2>2, <2>3 DEF InOrder
  <2>6. only[N] # <<>>
    BY <1>12, <2>1
  <2> QED  BY <2>2, <2>3, <2>4, <2>5, <2>6
<1> HIDE DEF Upto
<1> QED  BY <1>8, <1>12, <1>13, <1>14

\* A pass visits every body once; the one it visits last is as young as any
\* that has a blob.
LEMMA EvictionFacts ==
  ASSUME DiskTypes, Listed
  PROVE  /\ EvictionOrder \in Seq(Paths) /\ IsInjective(EvictionOrder)
         /\ ToSet(EvictionOrder) = Residents
         /\ \A x \in Residents :
              tokens[x] # 0 => Last(EvictionOrder) = x \/ InOrder(order, x, Last(EvictionOrder))
<1> DEFINE blank == {p \in Paths : tokens[p] = 0}
           s == Only(order, blank)
           t == Only(order, Paths \ blank)
<1>1. EvictionOrder = s \o t
  BY DEF EvictionOrder
<1>2. order \in Seq(Paths) /\ IsInjective(order) /\ ToSet(order) = Residents /\ Residents \subseteq Paths
  BY DEF Listed, Residents
<1> HIDE DEF blank
<1>3. /\ s \in Seq(Paths) /\ IsInjective(s) /\ ToSet(s) = ToSet(order) \cap blank
      /\ t \in Seq(Paths) /\ IsInjective(t) /\ ToSet(t) = ToSet(order) \cap (Paths \ blank)
      /\ \A x \in ToSet(order) \cap (Paths \ blank) :
           t # <<>> /\ (Last(t) = x \/ InOrder(order, x, Last(t)))
  BY <1>2, OnlyFacts
<1> HIDE DEF s, t
<1>4. ToSet(s) \cap ToSet(t) = {} /\ ToSet(s) \cup ToSet(t) = Residents
  BY <1>2, <1>3
<1>5. s \o t \in Seq(Paths) /\ ToSet(s \o t) = Residents /\ IsInjective(s \o t)
  <2>1. s \in Seq(Paths) /\ t \in Seq(Paths)
    BY <1>3
  <2>2. /\ s \o t \in Seq(Paths)
        /\ ToSet(s \o t) = ToSet(s) \cup ToSet(t)
        /\ IsInjective(s) /\ IsInjective(t) /\ ToSet(s) \cap ToSet(t) = {} => IsInjective(s \o t)
    BY <2>1, ToSetConcat, Zenon
  <2> QED  BY <1>3, <1>4, <2>2
<1>6. ASSUME NEW x \in Residents, tokens[x] # 0
      PROVE  Last(s \o t) = x \/ InOrder(order, x, Last(s \o t))
  <2>1. x \in ToSet(order) \cap (Paths \ blank)
    BY <1>2, <1>6 DEF blank
  <2>2. t # <<>> /\ (Last(t) = x \/ InOrder(order, x, Last(t)))
    BY <1>3, <2>1
  <2>3. Len(t) \in 1..Len(t) /\ Len(s \o t) = Len(s) + Len(t) /\ Len(s) \in Nat /\ Len(t) # 0
    BY <1>3, <2>2
  <2>4. Last(s \o t) = Last(t)
    BY <1>3, <2>3, ConcatFacts DEF Last
  <2> QED  BY <2>2, <2>4
<1> QED  BY <1>1, <1>5, <1>6

-----------------------------------------------------------------------------
(* The cap.                                                                 *)

\* Bases are of their delta's model, and shorter: chains go down.
Below(p, base) == base # NoPath => ModelOf(base) = ModelOf(p) /\ Offset(base) < Offset(p)

Downward ==
  /\ \A p \in Paths : Below(p, side[p].base) /\ Below(p, edge[p])
  /\ \A m \in Models : pc[m] \in Writing => Below(<<m, key[m]>>, plan[m].base)

\* Deltas are off, or models keep to their own checkpoints.
Separate == (NoDeltas /\ Whole) \/ (Apart /\ OwnOnly)

\* An edge is that of a body.  A checkpoint loses its edge before it is set
\* aside, but another engine that builds the index between the two reads the
\* edge once more, and then it stays.
Settled == \A q \in Paths : ~Resident(q) => edge[q] = NoPath

\* The worker that evicts, and what its pass has not visited.
Passing == {"evict", "unlink", "unlink tokens"}
Rest(m) == IF pc[m] = "evict" THEN todo[m] ELSE Tail(todo[m])

\* A pass of m may always take the longest checkpoint of m: it is the base of
\* nothing, and only m reads it.
IsLongest(m, p) ==
  /\ p \in Residents /\ ModelOf(p) = m
  /\ \A q \in Residents : ModelOf(q) = m => Offset(q) <= Offset(p)

\* A write adds one body, and its pass has one to take as long as that one is
\* too many; who leaves a body too many behind has been killed.
Used == Cardinality(Residents)

PassInv(m) ==
  /\ Rest(m) \in Seq(Paths) /\ todo[m] \in Seq(Paths)
  /\ pc[m] # "evict" => todo[m] # <<>>
  /\ Used > Cap + faults => \E p \in ToSet(Rest(m)) : IsLongest(m, p)

Accounted ==
  /\ faults \in Nat /\ DOMAIN todo = Models
  /\ lock = NoOne => Used <= Cap + faults
  /\ Used <= Cap + faults + 1
  /\ \A m \in Models : pc[m] \in Passing => PassInv(m)

\* What becomes of an edge.
LEMMA EdgeSteps ==
  ASSUME DiskTypes, Phases, [Next]_vars, NEW p \in Paths
  PROVE  \/ edge'[p] \in {edge[p], NoPath, side[p].base}
         \/ \E m \in Models : Commit(m) /\ p = <<m, key[m]>> /\ edge'[p] = plan[m].base
<1> USE DEF diskVars, memVars, writerVars, readerVars, histVars, DiskTypes
<1>1. ASSUME NEW m \in Models, Commit(m), edge'[p] # edge[p]
      PROVE  p = <<m, key[m]>> /\ edge'[p] = plan[m].base
  BY <1>1 DEF Commit
<1>2. ASSUME NEW m \in Models, Unlink(m)  PROVE edge'[p] \in {edge[p], NoPath}
  BY <1>2 DEF Unlink
<1>3. ASSUME NEW m \in Models, Writer(m), ~Commit(m), ~Unlink(m)  PROVE edge' = edge
  BY <1>3 DEF Writer, WriteBody, BodyFails, WriteTokens, TokensFail, WriteSide, SideFails, EndPass, Skip,
              UnlinkSide, UnlinkTokens
<1>4. ASSUME NEW m \in Models, Reader(m)  PROVE edge'[p] \in {edge[p], NoPath}
  <2>1. CASE Unregister(m)
    BY <2>1 DEF Unregister
  <2>2. CASE ~Unregister(m)
    <3>1. edge' = edge
      BY <1>4, <2>2, ReaderKinds DEF GiveUp, Resolve, SetAside, Touch, Forgets, Moves, Serves
    <3> QED  BY <3>1
  <2> QED  BY <2>1, <2>2
<1>5. ASSUME NEW m \in Models, NEW k \in Keys, Lookup(m, k)
      PROVE  edge'[p] \in {edge[p], NoPath, side[p].base}
  <2>1. edge' = edge \/ edge' = Rebuilt
    BY <1>5 DEF Lookup
  <2>2. Rebuilt[p] \in {NoPath, side[p].base}
    BY DEF Rebuilt
  <2> QED  BY <2>1, <2>2
<1>6. CASE Crash
  BY <1>6 DEF Crash
<1>7. CASE \/ \E m \in Models, k \in Keys : Persist(m, k)
           \/ (\E q \in Paths : Damage(q)) \/ UNCHANGED vars
  BY <1>7 DEF Persist, Damage, vars
<1> QED  BY <1>1, <1>2, <1>3, <1>4, <1>5, <1>6, <1>7 DEF Next

\* What becomes of a write: it goes on, perhaps without its base, or begins.
LEMMA WriteSteps ==
  ASSUME DiskTypes, Phases, [Next]_vars, NEW m \in Models, pc'[m] \in Writing
  PROVE  \/ /\ pc[m] \in Writing /\ key'[m] = key[m]
            /\ plan'[m].base \in {plan[m].base, NoPath}
         \/ \E k \in Keys : Persist(m, k) /\ key'[m] = k /\ plan'[m] = PlanFor(k, minted + 1)
<1> USE DEF Goto, diskVars, memVars, writerVars, readerVars, histVars, DiskTypes
<1>1. ASSUME NEW n \in Models, Writer(n)
      PROVE  pc[m] \in Writing /\ key'[m] = key[m] /\ plan'[m].base \in {plan[m].base, NoPath}
  <2>1. key' = key /\ \A j \in Models \ {n} : pc'[j] = pc[j] /\ plan'[j] = plan[j]
    BY <1>1, WriterFrame
  <2>2. CASE n # m
    BY <2>1, <2>2
  <2>3. CASE n = m
    <3>1. CASE WriteBody(m)
      <4> DEFINE full == [NoSide EXCEPT !.uuid = plan[m].uuid]
      <4>1. plan' = [plan EXCEPT ![m] = plan[m]] \/ plan' = [plan EXCEPT ![m] = full]
        BY <3>1 DEF WriteBody
      <4>2. full.base = NoPath
        BY DEF NoSide
      <4> HIDE DEF full
      <4>3. plan'[m].base \in {plan[m].base, NoPath}
        BY <4>1, <4>2
      <4> QED  BY <2>1, <3>1, <4>3 DEF WriteBody, Writing
    <3>2. CASE ~WriteBody(m)
      BY <1>1, <2>3, <3>2 DEF Writer, BodyFails, WriteTokens, TokensFail, WriteSide, SideFails, Commit, EndPass,
                Skip, Unlink, UnlinkSide, UnlinkTokens, Writing
    <3> QED  BY <3>1, <3>2
  <2> QED  BY <2>2, <2>3
<1>2. ASSUME NEW n \in Models, Reader(n)
      PROVE  pc[m] \in Writing /\ key'[m] = key[m] /\ plan'[m] = plan[m]
  BY <1>2, ReaderKinds DEF GiveUp, Resolve, Unregister, SetAside, Touch, Forgets, Moves, Serves, Chosen, Reading, Writing
<1>3. ASSUME NEW n \in Models, NEW k \in Keys, Lookup(n, k)
      PROVE  pc[m] \in Writing /\ key'[m] = key[m] /\ plan'[m] = plan[m]
  BY <1>3 DEF Lookup, Writing
<1>4. ASSUME NEW n \in Models, NEW k \in Keys, Persist(n, k)
      PROVE  \/ pc[m] \in Writing /\ key'[m] = key[m] /\ plan'[m] = plan[m]
             \/ n = m /\ key'[m] = k /\ plan'[m] = PlanFor(k, minted + 1)
  BY <1>4 DEF Persist
<1>5. ~Crash
  BY DEF Crash, Writing
<1>6. CASE (\E p \in Paths : Damage(p)) \/ UNCHANGED vars
  BY <1>6 DEF Damage, vars
<1> QED  BY <1>1, <1>2, <1>3, <1>4, <1>5, <1>6 DEF Next

LEMMA SeparateStep ==
  ASSUME DiskInv, Separate, [Next]_vars
  PROVE  Separate'
<1>1. DiskTypes /\ Listed /\ Phases
  BY DEF DiskInv
<1>2. CASE NoDeltas /\ Whole
  <2>1. Whole' /\ NoDeltas'
    BY <1>2, WholeStep DEF NoDeltas
  <2> QED  BY <2>1 DEF Separate
<1>3. CASE Apart /\ OwnOnly
  <2>1. OwnOnly' /\ Apart'
    BY <1>1, <1>3, OwnOnlyStep DEF Apart
  <2> QED  BY <2>1 DEF Separate
<1> QED  BY <1>2, <1>3 DEF Separate

\* The base a write is planned with.
LEMMA PlansGoDown ==
  ASSUME DiskTypes, Phases, Separate, NEW m \in Models, NEW k \in Keys, Persist(m, k)
  PROVE  Below(<<m, k>>, PlanFor(k, minted + 1).base)
<1> SUFFICES ASSUME PlanFor(k, minted + 1).base # NoPath
             PROVE  /\ ModelOf(PlanFor(k, minted + 1).base) = m
                    /\ Offset(PlanFor(k, minted + 1).base) < Len(k)
  BY DEF Below, ModelOf, Offset
<1>1. Apart /\ OwnOnly
  BY WholePlan DEF Separate
<1>2. minted + 1 \in Uuids
  BY KeyFacts DEF Persist, DiskTypes, Uuids
<1>3. PICK j \in Keys : /\ Indexed(j) /\ IsStrictPrefix(j, k)
                        /\ PlanFor(k, minted + 1).base = <<index[j].model, j>>
  BY <1>2, PlanType
<1>4. index[j].model = m
  BY <1>1, <1>3, PrefixIsOwn DEF Persist, OwnOnly, IsStrictPrefix
<1>5. Len(j) < Len(k)
  BY <1>3, KeyFacts DEF IsStrictPrefix, IsPrefix
<1> QED  BY <1>3, <1>4, <1>5 DEF ModelOf, Offset

LEMMA DownwardStep ==
  ASSUME DiskInv, Separate, Downward, [Next]_vars
  PROVE  Downward'
<1>0. DiskTypes /\ Phases
  BY DEF DiskInv
<1>1. \A p : Below(p, NoPath)
  BY DEF Below
<1>2. ASSUME NEW p \in Paths  PROVE Below(p, side'[p].base)
  <2>1. CASE side'[p] = side[p]
    BY <2>1 DEF Downward
  <2>2. CASE side'[p] = NoSide
    BY <1>1, <2>2 DEF NoSide
  <2>3. ASSUME NEW m \in Models, WriteSide(m), p = <<m, key[m]>>, side'[p] = plan[m]
        PROVE  Below(p, side'[p].base)
    BY <2>3 DEF Downward, WriteSide, Writing
  <2>4. \/ side'[p] = side[p] \/ side'[p] = NoSide
        \/ \E m \in Models : WriteSide(m) /\ p = <<m, key[m]>> /\ side'[p] = plan[m]
    BY <1>0, SideSteps DEF DiskTypes
  <2> QED  BY <2>1, <2>2, <2>3, <2>4
<1>3. ASSUME NEW p \in Paths  PROVE Below(p, edge'[p])
  <2>1. CASE edge'[p] \in {edge[p], NoPath, side[p].base}
    BY <1>1, <2>1 DEF Downward
  <2>2. ASSUME NEW m \in Models, Commit(m), p = <<m, key[m]>>, edge'[p] = plan[m].base
        PROVE  Below(p, edge'[p])
    BY <2>2 DEF Downward, Commit, Writing
  <2> QED  BY <1>0, <2>1, <2>2, EdgeSteps
<1>4. ASSUME NEW m \in Models, pc'[m] \in Writing  PROVE Below(<<m, key'[m]>>, plan'[m].base)
  <2>1. CASE pc[m] \in Writing /\ key'[m] = key[m] /\ plan'[m].base \in {plan[m].base, NoPath}
    BY <1>1, <2>1 DEF Downward
  <2>2. ASSUME NEW k \in Keys, Persist(m, k), key'[m] = k, plan'[m] = PlanFor(k, minted + 1)
        PROVE  Below(<<m, key'[m]>>, plan'[m].base)
    BY <1>0, <2>2, PlansGoDown
  <2> QED  BY <1>0, <1>4, <2>1, <2>2, WriteSteps
<1> QED  BY <1>2, <1>3, <1>4 DEF Downward, Below

\* What a pass may always take.
LEMMA LongestIsFree ==
  ASSUME DiskInv, Separate, Downward, Settled,
         NEW m \in Models, pc[m] = "evict", NEW p, IsLongest(m, p)
  PROVE  ~Protected(p)
<1>0. p \in Paths /\ ModelOf(p) = m /\ p # NoPath
  BY KeyFacts DEF IsLongest, Residents, NoPath
<1>1. ASSUME NEW q \in Paths, edge[q] = p  PROVE FALSE
  <2>1. q \in Residents
    BY <1>0, <1>1 DEF Settled, Residents
  <2>2. ModelOf(q) = m /\ Offset(p) < Offset(q)
    BY <1>0, <1>1 DEF Downward, Below
  <2>3. Offset(q) <= Offset(p)
    BY <2>1, <2>2 DEF IsLongest
  <2>4. Offset(p) \in Int /\ Offset(q) \in Int
    <3>1. \A r \in Paths : r[2] \in Seq(Nat)
      BY KeyFacts DEF KeyOf
    <3> QED  BY <1>0, <3>1 DEF Offset
  <2> QED  BY <2>2, <2>3, <2>4
<1>2. ASSUME NEW n \in Models, pc[n] = "read", p \in Links(n)  PROVE FALSE
  <2>1. OwnOnly /\ n # m
    BY <1>2 DEF Separate, Whole
  <2>2. OwnLinks(n, chain[n])
    BY <1>2, <2>1 DEF OwnOnly, OwnWork, Linking
  <2>3. ModelOf(p) = n
    BY <1>2, <2>2 DEF Links, OwnLinks
  <2> QED  BY <1>0, <2>1, <2>3
<1> QED  BY <1>1, <1>2 DEF Protected, HasDelta, Pinned

LEMMA Offsets ==
  \A p \in Paths : Offset(p) \in Nat
<1>1. \A p \in Paths : p[2] \in Seq(Nat)
  BY KeyFacts DEF KeyOf
<1> QED  BY <1>1 DEF Offset

\* One of the checkpoints of m is the longest.
LEMMA LongestExists ==
  ASSUME Listed, NEW m \in Models, NEW r \in Residents, ModelOf(r) = m
  PROVE  \E p \in Residents : IsLongest(m, p)
<1> DEFINE N == Len(order)
           Of(i) == ModelOf(order[i]) = m
           Top(i, n) == Of(i) /\ \A j \in 1..n : Of(j) => Offset(order[j]) <= Offset(order[i])
           T == {n \in 0..N : (\E i \in 1..n : Of(i)) => \E i \in 1..n : Top(i, n)}
<1>1. N \in Nat /\ (\A i \in 1..N : order[i] \in Paths) /\ Residents = {order[i] : i \in 1..N}
  BY DEF Listed, ToSet
<1>2. \A i \in 1..N : Offset(order[i]) \in Nat
  BY <1>1, Offsets
<1>3. ASSUME NEW n \in 0..N, n \in T, n < N  PROVE n + 1 \in T
  <2>1. n + 1 \in 1..N /\ n + 1 \in 0..N /\ n + 1 \in 1..(n + 1)
    BY <1>1, <1>3
  <2>2. \A i \in 1..(n + 1) : i = n + 1 \/ i \in 1..n
    BY <2>1
  <2>3. \A i \in 1..n : i \in 1..(n + 1) /\ i \in 1..N
    BY <2>1
  <2>4. CASE ~Of(n + 1)
    <3>1. ASSUME NEW i \in 1..(n + 1), Of(i)  PROVE \E j \in 1..(n + 1) : Top(j, n + 1)
      <4>1. i \in 1..n
        BY <2>2, <2>4, <3>1
      <4>2. PICK j \in 1..n : Top(j, n)
        BY <1>3, <3>1, <4>1
      <4>3. Top(j, n + 1)
        BY <2>2, <2>4, <4>2
      <4> QED  BY <2>3, <4>3
    <3> HIDE DEF Of, Top
    <3> QED  BY <2>1, <3>1
  <2>5. CASE Of(n + 1)
    <3>1. CASE ~ \E i \in 1..n : Of(i)
      <4>1. Top(n + 1, n + 1)
        BY <1>2, <2>1, <2>2, <2>5, <3>1
      <4> HIDE DEF Of, Top
      <4> QED  BY <2>1, <4>1
    <3>2. CASE \E i \in 1..n : Of(i)
      <4>1. PICK j \in 1..n : Top(j, n)
        BY <1>3, <3>2
      <4>2. j \in 1..N /\ j \in 1..(n + 1)
        BY <2>3
      <4>3. CASE Offset(order[j]) <= Offset(order[n + 1])
        <5>1. Top(n + 1, n + 1)
          BY <1>2, <2>1, <2>2, <2>3, <2>5, <4>1, <4>2, <4>3
        <5> HIDE DEF Of, Top
        <5> QED  BY <2>1, <5>1
      <4>4. CASE ~(Offset(order[j]) <= Offset(order[n + 1]))
        <5>1. Top(j, n + 1)
          BY <1>2, <2>1, <2>2, <2>3, <4>1, <4>2, <4>4
        <5> HIDE DEF Of, Top
        <5> QED  BY <2>1, <4>2, <5>1
      <4> QED  BY <4>3, <4>4
    <3> QED  BY <3>1, <3>2
  <2> QED  BY <2>4, <2>5
<1>4. N \in T
  <2>1. T \in SUBSET (0..N) /\ 0 \in T
    BY <1>1
  <2> HIDE DEF T, N
  <2>2. \A n \in 0..N : n \in T
    BY <1>1, <1>3, <2>1, Climb
  <2>3. N \in 0..N
    BY <1>1
  <2> QED  BY <2>2, <2>3
<1>5. PICK i \in 1..N : r = order[i]
  BY <1>1
<1>6. PICK j \in 1..N : Top(j, N)
  BY <1>4, <1>5
<1>7. order[j] \in Residents /\ IsLongest(m, order[j])
  <2>1. order[j] \in Residents
    BY <1>1
  <2>2. ASSUME NEW q \in Residents, ModelOf(q) = m  PROVE Offset(q) <= Offset(order[j])
    <3>1. PICK k \in 1..N : q = order[k]
      BY <1>1
    <3> QED  BY <1>6, <2>2, <3>1
  <2> QED  BY <1>6, <2>1, <2>2 DEF IsLongest
<1> QED  BY <1>7

\* The number of bodies.
LEMMA UsedFacts ==
  ASSUME Listed
  PROVE  /\ IsFiniteSet(Residents) /\ Used \in Nat
         /\ \A p : Residents' = Residents \cup {p} => Used' <= Used + 1
         /\ \A p : Residents' = Residents \ {p} => Used' <= Used
         /\ \A p \in Residents : Residents' = Residents \ {p} => Used' = Used - 1
<1>1. IsFiniteSet(Residents)
  BY InjectiveCard DEF Listed
<1>2. Used \in Nat
  BY <1>1, FS_CardinalityType DEF Used
<1>3. ASSUME NEW p, Residents' = Residents \cup {p}  PROVE Used' <= Used + 1
  <2>1. Cardinality(Residents \cup {p}) = IF p \in Residents THEN Cardinality(Residents) ELSE Cardinality(Residents) + 1
    BY <1>1, FS_AddElement
  <2> QED  BY <1>2, <1>3, <2>1 DEF Used
<1>4. ASSUME NEW p, Residents' = Residents \ {p}
      PROVE  Used' = IF p \in Residents THEN Used - 1 ELSE Used
  <2>1. Cardinality(Residents \ {p}) = IF p \in Residents THEN Cardinality(Residents) - 1 ELSE Cardinality(Residents)
    BY <1>1, FS_RemoveElement
  <2> QED  BY <1>4, <2>1 DEF Used
<1>5. \A p : Residents' = Residents \ {p} => Used' <= Used
  <2> SUFFICES ASSUME NEW p, Residents' = Residents \ {p}  PROVE Used' <= Used
    OBVIOUS
  <2> QED  BY <1>2, <1>4
<1>6. \A p \in Residents : Residents' = Residents \ {p} => Used' = Used - 1
  <2> SUFFICES ASSUME NEW p \in Residents, Residents' = Residents \ {p}  PROVE Used' = Used - 1
    OBVIOUS
  <2> QED  BY <1>4
<1>7. \A p : Residents' = Residents \cup {p} => Used' <= Used + 1
  <2> SUFFICES ASSUME NEW p, Residents' = Residents \cup {p}  PROVE Used' <= Used + 1
    OBVIOUS
  <2> QED  BY <1>3
<1> QED  BY <1>1, <1>2, <1>5, <1>6, <1>7, Zenon

LEMMA MoreFaults ==
  \A u, c, f, g \in Nat :
    f <= g => /\ (u <= c + f => u <= c + g) /\ (u > c + g => u > c + f)
              /\ (u <= c + f + 1 => u <= c + g + 1)
OBVIOUS

\* Steps that change no body, no pass and no holder of the lock.
LEMMA AccountsStay ==
  ASSUME Listed, Accounted, Residents' = Residents, lock' = lock, todo' = todo,
         faults' \in {faults, faults + 1},
         \A m \in Models : pc'[m] \in Passing => pc'[m] = pc[m]
  PROVE  Accounted'
<1>0. Used' = Used
  BY DEF Used
<1>1. Used \in Nat /\ faults \in Nat /\ Cap \in Nat
  BY UsedFacts, DiskAssumption DEF Accounted
<1>2. faults' \in Nat /\ faults <= faults'
  BY <1>1
<1>3. /\ Used <= Cap + faults => Used <= Cap + faults'
      /\ Used > Cap + faults' => Used > Cap + faults
      /\ Used <= Cap + faults + 1 => Used <= Cap + faults' + 1
  BY <1>1, <1>2, MoreFaults
<1>4. ASSUME NEW m \in Models, pc'[m] \in Passing  PROVE PassInv(m)'
  <2>1. PassInv(m) /\ pc'[m] = pc[m]
    BY <1>4 DEF Accounted
  <2>2. Rest(m)' = Rest(m)
    BY <2>1 DEF Rest
  <2>3. \A p : IsLongest(m, p) => IsLongest(m, p)'
    BY DEF IsLongest
  <2>4. Used' > Cap + faults' => \E p \in ToSet(Rest(m)) : IsLongest(m, p)'
    <3>1. Used' > Cap + faults' => Used > Cap + faults
      BY <1>0, <1>3
    <3> QED  BY <2>1, <2>3, <3>1 DEF PassInv
  <2> QED  BY <2>1, <2>2, <2>4 DEF PassInv
<1>5. lock' = NoOne => Used' <= Cap + faults'
  BY <1>0, <1>3 DEF Accounted
<1>6. Used' <= Cap + faults' + 1
  BY <1>0, <1>3 DEF Accounted
<1> QED  BY <1>1, <1>2, <1>4, <1>5, <1>6 DEF Accounted

\* While one worker evicts, no other stands in a pass.
LEMMA OnePasses ==
  ASSUME DiskTypes, Phases, NEW m \in Models, NEW n \in Models, pc[m] \in Locked, pc[n] \in Locked
  PROVE  n = m
BY DEF Phases, Phase

\* The step that begins a pass: it visits all bodies, that just written too.
LEMMA PassBegins ==
  ASSUME DiskInv, Accounted, NEW m \in Models, Commit(m)
  PROVE  Accounted'
<1> USE DEF Goto, diskVars, memVars, writerVars, readerVars, histVars
<1>0. DiskTypes /\ Listed /\ Phases
  BY DEF DiskInv
<1>1. Used' = Used /\ Used \in Nat /\ faults' = faults /\ faults \in Nat /\ Cap \in Nat /\ Residents' = Residents
  BY <1>0, UsedFacts, DiskAssumption DEF Used, Accounted, Commit, Residents, Resident
<1>2. \A n \in Models : n # m => pc'[n] = pc[n] /\ pc[n] \notin Passing
  BY <1>0, OnePasses DEF Commit, Passing, Locked, DiskTypes
<1>3. CASE OverCap
  <2>1. todo' = [todo EXCEPT ![m] = EvictionOrder] /\ pc'[m] = "evict" /\ lock' = lock /\ lock = m
    BY <1>0, <1>3 DEF Commit, DiskTypes, Phases, Phase, Locked
  <2>2. Rest(m)' = EvictionOrder /\ todo'[m] = EvictionOrder /\ DOMAIN todo' = Models
    BY <2>1 DEF Rest, Accounted
  <2>3. EvictionOrder \in Seq(Paths) /\ ToSet(EvictionOrder) = Residents
    BY <1>0, EvictionFacts
  <2>4. <<m, key[m]>> \in Residents /\ ModelOf(<<m, key[m]>>) = m
    <3>1. <<m, key[m]>> \in Paths /\ plan[m].uuid # 0
      BY WritesAt DEF Commit, Writing
    <3>2. body[<<m, key[m]>>].uuid = plan[m].uuid
      BY DEF Commit, DiskInv, Fresh, NewAt
    <3> QED  BY <3>1, <3>2 DEF Residents, Resident, NoBody, ModelOf
  <2>5. PICK p \in Residents : IsLongest(m, p)
    BY <1>0, <2>4, LongestExists
  <2>6. IsLongest(m, p)'
    BY <1>1, <2>5 DEF IsLongest
  <2>7. PassInv(m)'
    BY <2>1, <2>2, <2>3, <2>5, <2>6 DEF PassInv
  <2>8. lock' # NoOne
    BY <2>1, KeyFacts
  <2> QED  BY <1>1, <1>2, <2>2, <2>7, <2>8 DEF Accounted
<1>4. CASE ~OverCap
  <2>1. pc'[m] = "idle" /\ lock' = NoOne /\ todo' = todo
    BY <1>0, <1>4 DEF Commit, DiskTypes
  <2>2. Used <= Cap
    BY <1>1, <1>4 DEF OverCap, Used
  <2>3. \A n \in Models : pc'[n] \notin Passing
    BY <1>2, <2>1 DEF Passing
  <2>4. Used' <= Cap + faults' /\ Used' <= Cap + faults' + 1
    BY <1>1, <2>2
  <2> QED  BY <1>1, <2>1, <2>3, <2>4 DEF Accounted
<1> QED  BY <1>3, <1>4

\* What a pass has not visited, and who evicts, as a pass goes on.
LEMMA PassGoesOn ==
  ASSUME DiskInv, Accounted, NEW m \in Models, Used' \in Nat, Used' <= Used, faults' = faults,
         pc[m] \in Passing, pc'[m] \in Passing, lock' = lock, DOMAIN todo' = Models,
         \A n \in Models \ {m} : pc'[n] = pc[n],
         PassInv(m)'
  PROVE  Accounted'
<1>1. Used \in Nat /\ Cap \in Nat /\ faults \in Nat
  BY UsedFacts, DiskAssumption DEF DiskInv, Accounted
<1>2. \A n \in Models \ {m} : pc[n] \notin Passing
  BY OnePasses DEF DiskInv, Passing, Locked
<1>3. lock' # NoOne
  BY KeyFacts DEF DiskInv, Phases, Phase, Passing, Locked
<1>4. Used' <= Cap + faults' + 1
  BY <1>1 DEF Accounted
<1> QED  BY <1>1, <1>2, <1>3, <1>4 DEF Accounted

LEMMA AccountsWriter ==
  ASSUME DiskInv, Separate, Downward, Settled, Accounted, NEW m \in Models, Writer(m)
  PROVE  Accounted'
<1> USE DEF Goto, diskVars, memVars, writerVars, readerVars, histVars
<1>0. DiskTypes /\ Listed /\ Phases /\ DOMAIN todo = Models /\ faults \in Nat
  BY DEF DiskInv, Accounted
<1>1. Used \in Nat /\ Cap \in Nat /\ LowWater \in 1..Cap
  BY <1>0, UsedFacts, DiskAssumption
<1>2. \A n \in Models \ {m} : pc'[n] = pc[n]
  BY <1>0, WriterFrame
<1>3. body' = body => Residents' = Residents /\ Used' = Used
  BY DEF Residents, Resident, Used
<1>4. CASE WriteBody(m)
  <2>1. lock = NoOne /\ lock' = m /\ pc'[m] = "tokens" /\ faults' = faults /\ todo' = todo
    BY <1>0, <1>4 DEF WriteBody, DiskTypes
  <2>2. \A n \in Models : pc'[n] \notin Passing
    BY <1>0, <1>2, <2>1, KeyFacts DEF Phases, Phase, Passing, Locked
  <2>3. Used' <= Used + 1 /\ Used' \in Nat
    <3>1. Listed' /\ [Next]_vars
      BY <1>0, <1>4, ListedStep DEF Next, Writer
    <3>2. Used' \in Nat
      <4>1. IsFiniteSet(Residents')
        BY <3>1, InjectiveCard DEF Listed
      <4> QED  BY <4>1, FS_CardinalityType DEF Used
    <3>3. Residents' = Residents \cup {<<m, key[m]>>}
      <4> DEFINE p == <<m, key[m]>>
      <4>1. p \in Paths /\ plan[m].uuid # 0
        BY <1>4, WritesAt DEF WriteBody, Writing
      <4>2. \E f : body' = [body EXCEPT ![p] = [uuid |-> plan[m].uuid, from |-> f]]
        BY <1>4, Zenon DEF WriteBody
      <4>3. PICK f : body' = [body EXCEPT ![p] = [uuid |-> plan[m].uuid, from |-> f]]
        BY <4>2
      <4>4. [uuid |-> plan[m].uuid, from |-> f] # NoBody
        BY <4>1 DEF NoBody
      <4> QED  BY <1>0, <4>1, <4>3, <4>4 DEF Residents, Resident, DiskTypes
    <3> QED  BY <1>0, <3>2, <3>3, UsedFacts
  <2>4. Used <= Cap + faults
    BY <2>1 DEF Accounted
  <2>5. Used' <= Cap + faults' + 1 /\ lock' # NoOne
    BY <1>0, <1>1, <2>1, <2>3, <2>4, KeyFacts
  <2> QED  BY <1>0, <2>1, <2>2, <2>5 DEF Accounted
<1>5. CASE BodyFails(m) \/ WriteTokens(m) \/ TokensFail(m) \/ WriteSide(m) \/ SideFails(m)
  <2>1. /\ body' = body /\ lock' = lock /\ todo' = todo /\ faults' \in {faults, faults + 1}
        /\ pc'[m] \notin Passing
    BY <1>0, <1>5 DEF BodyFails, WriteTokens, TokensFail, WriteSide, SideFails, Passing, DiskTypes
  <2>2. \A n \in Models : pc'[n] \in Passing => pc'[n] = pc[n]
    BY <1>2, <2>1
  <2> QED  BY <1>0, <1>3, <2>1, <2>2, AccountsStay
<1>6. CASE Commit(m)
  BY <1>6, PassBegins
<1>7. CASE EndPass(m)
  <2>1. /\ pc[m] = "evict" /\ PassOver(m) /\ lock' = NoOne /\ pc'[m] = "idle" /\ faults' = faults
        /\ DOMAIN todo' = Models /\ body' = body
    BY <1>0, <1>7 DEF EndPass, DiskTypes
  <2>2. \A n \in Models : pc'[n] \notin Passing
    BY <1>0, <1>2, <2>1, OnePasses DEF Passing, Locked
  <2>3. Used <= Cap + faults
    <3>1. CASE todo[m] = <<>>
      <4>1. ToSet(Rest(m)) = {}
        BY <2>1, <3>1 DEF Rest, ToSet
      <4>2. ~(Used > Cap + faults)
        BY <2>1, <4>1 DEF Accounted, PassInv, Passing
      <4> QED  BY <1>0, <1>1, <4>2
    <3>2. CASE Used <= LowWater
      BY <1>0, <1>1, <3>2
    <3> QED  BY <2>1, <3>1, <3>2 DEF PassOver, Used
  <2>4. Used' <= Cap + faults' /\ Used' <= Cap + faults' + 1
    BY <1>0, <1>1, <1>3, <2>1, <2>3
  <2> QED  BY <1>0, <2>1, <2>2, <2>4 DEF Accounted
<1>8. ASSUME pc[m] \in Passing  PROVE PassInv(m) /\ todo[m] \in Seq(Paths)
  BY <1>8 DEF Accounted, PassInv
<1>9. \A p : Residents' = Residents /\ IsLongest(m, p) => IsLongest(m, p)'
  BY DEF IsLongest
<1>10. CASE Skip(m)
  <2>1. /\ pc[m] = "evict" /\ pc' = pc /\ todo[m] # <<>> /\ Protected(Head(todo[m])) /\ body' = body
        /\ todo' = [todo EXCEPT ![m] = Tail(todo[m])] /\ faults' = faults /\ lock' = lock
    BY <1>10 DEF Skip, PassOver
  <2>2. /\ Rest(m) = todo[m] /\ Rest(m)' = Tail(todo[m]) /\ todo'[m] = Tail(todo[m])
        /\ DOMAIN todo' = Models
    BY <1>0, <2>1 DEF Rest
  <2>3. todo[m] \in Seq(Paths) /\ PassInv(m)
    BY <1>8, <2>1 DEF Passing
  <2>4. Tail(todo[m]) \in Seq(Paths) /\ ToSet(todo[m]) = ToSet(Tail(todo[m])) \cup {Head(todo[m])}
    BY <2>1, <2>3, ToSetTail
  <2>5. ~IsLongest(m, Head(todo[m]))
    BY <2>1, LongestIsFree
  <2>6. ASSUME Used > Cap + faults  PROVE \E p \in ToSet(Tail(todo[m])) : IsLongest(m, p)'
    <3>1. PICK p \in ToSet(todo[m]) : IsLongest(m, p)
      BY <2>2, <2>3, <2>6 DEF PassInv
    <3>2. p \in ToSet(Tail(todo[m]))
      BY <2>4, <2>5, <3>1
    <3> QED  BY <1>3, <1>9, <2>1, <3>1, <3>2
  <2>7. PassInv(m)'
    BY <1>3, <2>1, <2>2, <2>4, <2>6 DEF PassInv
  <2>8. /\ Used' \in Nat /\ Used' <= Used /\ pc[m] \in Passing /\ pc'[m] \in Passing
    <3>1. Used' = Used
      BY <1>3, <2>1
    <3>2. Used' \in Nat /\ Used' <= Used
      BY <1>1, <3>1
    <3> QED  BY <2>1, <3>2 DEF Passing
  <2> QED  BY <1>2, <2>1, <2>2, <2>7, <2>8, PassGoesOn
<1>11. CASE Unlink(m)
  <2> DEFINE h == Head(todo[m])
  <2>1. /\ pc[m] = "evict" /\ pc'[m] = "unlink" /\ todo[m] # <<>> /\ todo' = todo
        /\ body' = [body EXCEPT ![h] = NoBody] /\ faults' = faults /\ lock' = lock
    BY <1>0, <1>11 DEF Unlink, PassOver, DiskTypes
  <2>2. Rest(m) = todo[m] /\ Rest(m)' = Tail(todo[m])
    BY <2>1 DEF Rest
  <2>3. todo[m] \in Seq(Paths) /\ PassInv(m)
    BY <1>8, <2>1 DEF Passing
  <2>4. Tail(todo[m]) \in Seq(Paths) /\ ToSet(todo[m]) = ToSet(Tail(todo[m])) \cup {h}
    BY <2>1, <2>3, ToSetTail
  <2>5. Residents' = Residents \ {h}
    BY <1>0, <2>1 DEF Residents, Resident, DiskTypes
  <2>6. Used' = IF h \in Residents THEN Used - 1 ELSE Used
    <3>1. CASE h \in Residents
      BY <1>0, <2>5, <3>1, UsedFacts
    <3>2. CASE h \notin Residents
      <4>1. Residents' = Residents
        BY <2>5, <3>2
      <4> QED  BY <3>2, <4>1 DEF Used
    <3> QED  BY <3>1, <3>2
  <2>7. Used' \in Nat /\ Used' <= Used
    <3>1. h \in Residents => Used # 0
      BY <1>0, UsedFacts, FS_EmptySet DEF Used
    <3> QED  BY <1>1, <2>6, <3>1
  <2>8. ASSUME Used' > Cap + faults'  PROVE \E p \in ToSet(Tail(todo[m])) : IsLongest(m, p)'
    <3>1. h \notin Residents /\ Used > Cap + faults
      <4>1. Used <= Cap + faults + 1
        BY DEF Accounted
      <4> QED  BY <1>0, <1>1, <2>1, <2>6, <2>8, <4>1
    <3>2. PICK p \in ToSet(todo[m]) : IsLongest(m, p)
      BY <2>2, <2>3, <3>1 DEF PassInv
    <3>3. p \in ToSet(Tail(todo[m]))
      BY <2>4, <3>1, <3>2 DEF IsLongest
    <3>4. Residents' = Residents
      BY <2>5, <3>1
    <3> QED  BY <1>9, <3>2, <3>3, <3>4
  <2> HIDE DEF h
  <2>9. PassInv(m)'
    BY <2>1, <2>2, <2>3, <2>4, <2>8 DEF PassInv
  <2>10. pc[m] \in Passing /\ pc'[m] \in Passing /\ DOMAIN todo' = Models
    BY <1>0, <2>1 DEF Passing
  <2> QED  BY <1>2, <2>1, <2>7, <2>9, <2>10, PassGoesOn
<1>12. CASE UnlinkSide(m) \/ UnlinkTokens(m)
  <2>1. /\ pc[m] \in {"unlink", "unlink tokens"} /\ pc'[m] \in {"unlink tokens", "evict"} /\ body' = body
        /\ faults' = faults /\ lock' = lock
        /\ (pc'[m] = "unlink tokens" /\ todo' = todo)
           \/ (pc'[m] = "evict" /\ todo' = [todo EXCEPT ![m] = Tail(todo[m])])
    BY <1>0, <1>12 DEF UnlinkSide, UnlinkTokens, DiskTypes
  <2>2. PassInv(m) /\ todo[m] \in Seq(Paths) /\ todo[m] # <<>>
    BY <1>8, <2>1 DEF Passing, PassInv
  <2>3. Rest(m) = Tail(todo[m]) /\ Rest(m)' = Tail(todo[m]) /\ DOMAIN todo' = Models
    BY <1>0, <2>1 DEF Rest
  <2>4. Tail(todo[m]) \in Seq(Paths) /\ todo'[m] \in Seq(Paths) /\ (pc'[m] # "evict" => todo'[m] # <<>>)
    <3>1. Tail(todo[m]) \in Seq(Paths)
      BY <2>2, ToSetTail
    <3>2. todo'[m] = todo[m] \/ (pc'[m] = "evict" /\ todo'[m] = Tail(todo[m]))
      BY <1>0, <2>1
    <3> QED  BY <2>2, <3>1, <3>2
  <2>5. ASSUME Used > Cap + faults  PROVE \E p \in ToSet(Tail(todo[m])) : IsLongest(m, p)'
    <3>1. PICK p \in ToSet(Tail(todo[m])) : IsLongest(m, p)
      BY <2>2, <2>3, <2>5 DEF PassInv
    <3> QED  BY <1>3, <1>9, <2>1, <3>1
  <2>6. PassInv(m)'
    BY <1>3, <2>1, <2>3, <2>4, <2>5 DEF PassInv
  <2>7. Used' \in Nat /\ Used' <= Used /\ pc[m] \in Passing /\ pc'[m] \in Passing
    <3>1. Used' = Used
      BY <1>3, <2>1
    <3>2. Used' \in Nat /\ Used' <= Used
      BY <1>1, <3>1
    <3> QED  BY <2>1, <3>2 DEF Passing
  <2> QED  BY <1>2, <2>1, <2>3, <2>6, <2>7, PassGoesOn
<1> QED  BY <1>4, <1>5, <1>6, <1>7, <1>10, <1>11, <1>12 DEF Writer

LEMMA AccountedStep ==
  ASSUME DiskInv, Separate, Downward, Settled, Accounted, [Next]_vars
  PROVE  Accounted'
<1> USE DEF Goto, diskVars, memVars, writerVars, readerVars, histVars
<1>0. DiskTypes /\ Listed /\ Phases /\ DOMAIN todo = Models /\ faults \in Nat
  BY DEF DiskInv, Accounted
<1>1. Used \in Nat /\ Cap \in Nat
  BY <1>0, UsedFacts, DiskAssumption
<1>2. body' = body => Residents' = Residents /\ Used' = Used
  BY DEF Residents, Resident, Used
<1>3. ASSUME NEW m \in Models, SetAside(m)  PROVE Accounted'
  <2>1. /\ lock = NoOne /\ lock' = lock /\ todo' = todo /\ faults' = faults /\ pc' = [pc EXCEPT ![m] = "resolve"]
        /\ body' = [body EXCEPT ![HitPath(m)] = NoBody]
    BY <1>3 DEF SetAside
  <2>2. \A n \in Models : pc'[n] \notin Passing
    BY <1>0, <2>1, KeyFacts, ZenonT(30) DEF Phases, Phase, Passing, Locked, DiskTypes
  <2>3. Residents' = Residents \ {HitPath(m)}
    BY <1>0, <2>1 DEF Residents, Resident, DiskTypes
  <2>4. Used' <= Used
    BY <1>0, <2>3, UsedFacts
  <2>5. Used' \in Nat
    <3>1. IsFiniteSet(Residents')
      <4>1. Listed'
        BY <1>0, ListedStep
      <4> QED  BY <4>1, InjectiveCard DEF Listed
    <3> QED  BY <3>1, FS_CardinalityType DEF Used
  <2>6. Used <= Cap + faults
    BY <2>1 DEF Accounted
  <2>7. Used' <= Cap + faults' /\ Used' <= Cap + faults' + 1
    BY <1>0, <1>1, <2>1, <2>4, <2>5, <2>6
  <2> QED  BY <1>0, <2>1, <2>2, <2>7 DEF Accounted
<1>4. ASSUME NEW m \in Models, Reader(m), ~SetAside(m)  PROVE Accounted'
  <2>1. /\ body' = body /\ lock' = lock /\ todo' = todo /\ faults' = faults
        /\ \A n \in Models : pc'[n] = pc[n] \/ pc'[n] \notin Passing
    BY <1>0, <1>4, ReaderKinds
       DEF GiveUp, Resolve, Unregister, Touch, Forgets, Moves, Serves, Passing, Chosen, Reading, DiskTypes
  <2> QED  BY <1>0, <1>2, <2>1, AccountsStay
<1>5. CASE \/ \E m \in Models, k \in Keys : Persist(m, k) \/ Lookup(m, k)
           \/ (\E p \in Paths : Damage(p)) \/ UNCHANGED vars
  <2>1. /\ body' = body /\ lock' = lock /\ todo' = todo /\ faults' \in {faults, faults + 1}
        /\ \A n \in Models : pc'[n] = pc[n] \/ pc'[n] \notin Passing
    BY <1>0, <1>5 DEF Persist, Lookup, Damage, vars, Passing, DiskTypes
  <2> QED  BY <1>0, <1>2, <2>1, AccountsStay
<1>6. CASE Crash
  <2>1. /\ body' = body /\ faults' = faults + 1 /\ DOMAIN todo' = Models
        /\ \A n \in Models : pc'[n] \notin Passing
    BY <1>6 DEF Crash, Passing
  <2>2. Used <= Cap + faults + 1
    BY DEF Accounted
  <2>3. Used' <= Cap + faults' /\ Used' <= Cap + faults' + 1 /\ faults' \in Nat
    BY <1>0, <1>1, <1>2, <2>1, <2>2
  <2> QED  BY <2>1, <2>3 DEF Accounted
<1> QED  BY <1>3, <1>4, <1>5, <1>6, AccountsWriter DEF Next

\* The disk stays within its cap as long as the edges in memory are those of
\* bodies, for every cap, every number of engines and every chain of deltas: a
\* pass always finds a checkpoint it may take (the longest of its own model's is
\* the base of no delta and read by nobody else), and what comes on top is no
\* more than the faults left behind.
THEOREM SettledDiskStaysWithinCap ==
  ASSUME NoDeltas \/ Apart
  PROVE  Spec /\ []Settled => []WithinCap
<1> DEFINE Inv == DiskInv /\ Separate /\ Downward /\ Accounted
<1>1. ASSUME Init  PROVE Inv
  <2>1. DiskInv
    BY <1>1, DiskStarts
  <2>2. Separate
    <3>1. Whole
      BY <1>1 DEF Init, Whole, Resident, NoBody, NoSide, Chosen, Reading
    <3>2. OwnOnly
      <4>1. DOMAIN chain = Models /\ \A m \in Models : pc[m] = "idle"
        BY <1>1 DEF Init
      <4>2. OwnFiles
        BY <1>1 DEF Init, OwnFiles, Resident, Indexed, BaseIn, NoSide
      <4> QED  BY <4>1, <4>2 DEF OwnOnly, OwnWork, Writing, Chosen, Reading, Linking
    <3> QED  BY <3>1, <3>2 DEF Separate
  <2>3. Downward
    BY <1>1 DEF Init, Downward, Below, Writing, NoSide
  <2>4. Used = 0
    <3>1. Residents = {}
      BY <1>1 DEF Init, Residents, Resident
    <3> QED  BY <3>1, FS_EmptySet DEF Used
  <2>5. Accounted
    BY <1>1, <2>4, DiskAssumption DEF Init, Accounted, Passing
  <2> QED  BY <2>1, <2>2, <2>3, <2>5
<1>2. ASSUME Inv, Settled, [Next]_vars  PROVE Inv'
  BY <1>2, DiskStep, SeparateStep, DownwardStep, AccountedStep
<1>3. Inv => WithinCap
  BY DEF Accounted, WithinCap, Used
<1> QED  BY <1>1, <1>2, <1>3, PTL DEF Spec

\* A server of one model.
Alone == \A m, n \in Models : m = n

\* What has lost its edge has none until it is set aside.
Unmarked == \A m \in Models : pc[m] = "aside" => edge[HitPath(m)] = NoPath

\* One engine does nothing else between dropping an edge and setting aside.
LEMMA AloneSettles ==
  ASSUME Alone, DiskInv, Settled, Unmarked, [Next]_vars
  PROVE  Settled' /\ Unmarked'
<1> USE DEF Goto, diskVars, memVars, writerVars, readerVars, histVars
<1>0. DiskTypes /\ Phases
  BY DEF DiskInv
<1>1. ASSUME UNCHANGED <<body, edge>>  PROVE Settled'
  BY <1>1 DEF Settled, Resident
<1>2. ASSUME NEW m \in Models, pc'[m] # "aside"  PROVE Unmarked'
  BY <1>2 DEF Unmarked, Alone
<1>3. ASSUME NEW m \in Models, Writer(m)  PROVE Settled' /\ Unmarked'
  <2>1. pc'[m] # "aside"
    BY <1>0, <1>3 DEF Writer, WriteBody, BodyFails, WriteTokens, TokensFail, WriteSide, SideFails, Commit,
                      EndPass, Skip, Unlink, UnlinkSide, UnlinkTokens, DiskTypes
  <2>2. CASE WriteBody(m)
    <3> DEFINE p == <<m, key[m]>>
    <3>1. plan[m].uuid # 0 /\ edge' = edge
      BY <2>2, WritesAt DEF WriteBody, Writing
    <3>2. \E f : body' = [body EXCEPT ![p] = [uuid |-> plan[m].uuid, from |-> f]]
      BY <2>2, Zenon DEF WriteBody
    <3>3. PICK f : body' = [body EXCEPT ![p] = [uuid |-> plan[m].uuid, from |-> f]]
      BY <3>2
    <3>4. [uuid |-> plan[m].uuid, from |-> f] # NoBody
      BY <3>1 DEF NoBody
    <3>5. Settled'
      BY <1>0, <3>1, <3>3, <3>4 DEF Settled, Resident, DiskTypes
    <3> QED  BY <1>2, <2>1, <3>5
  <2>3. CASE Commit(m)
    <3> DEFINE p == <<m, key[m]>>
    <3>1. body' = body /\ \E e : edge' = [edge EXCEPT ![p] = e]
      BY <2>3 DEF Commit
    <3>2. plan[m].uuid # 0 /\ body[p].uuid = plan[m].uuid
      BY <2>3, WritesAt DEF Commit, Writing, DiskInv, Fresh, NewAt
    <3>3. Resident(p)
      BY <3>2 DEF Resident, NoBody
    <3>4. Settled'
      BY <1>0, <3>1, <3>3 DEF Settled, Resident, DiskTypes
    <3> QED  BY <1>2, <2>1, <3>4
  <2>4. CASE Unlink(m)
    <3>1. body' = [body EXCEPT ![Head(todo[m])] = NoBody] /\ edge' = [edge EXCEPT ![Head(todo[m])] = NoPath]
      BY <2>4 DEF Unlink
    <3>2. Settled'
      BY <1>0, <3>1 DEF Settled, Resident, DiskTypes
    <3> QED  BY <1>2, <2>1, <3>2
  <2>5. CASE ~WriteBody(m) /\ ~Commit(m) /\ ~Unlink(m)
    <3>1. UNCHANGED <<body, edge>>
      BY <1>3, <2>5 DEF Writer, BodyFails, WriteTokens, TokensFail, WriteSide, SideFails, EndPass, Skip,
                        UnlinkSide, UnlinkTokens
    <3> QED  BY <1>1, <1>2, <2>1, <3>1
  <2> QED  BY <2>2, <2>3, <2>4, <2>5
<1>4. ASSUME NEW m \in Models, Reader(m)  PROVE Settled' /\ Unmarked'
  <2>1. CASE SetAside(m)
    <3>1. /\ pc'[m] = "resolve" /\ edge' = edge /\ edge[HitPath(m)] = NoPath
          /\ body' = [body EXCEPT ![HitPath(m)] = NoBody]
      BY <1>0, <2>1 DEF SetAside, Unmarked, DiskTypes
    <3>2. Settled'
      BY <1>0, <3>1 DEF Settled, Resident, DiskTypes
    <3> QED  BY <1>2, <3>1, <3>2
  <2>2. CASE Unregister(m)
    <3>1. /\ edge' = [edge EXCEPT ![HitPath(m)] = NoPath] /\ body' = body /\ hit' = hit
          /\ pc[m] = "unregister"
      BY <2>2 DEF Unregister
    <3>2. HitPath(m) \in Paths
      BY <1>0, <3>1, KeyFacts DEF HitPath, Phases, Phase, Chosen
    <3>3. Settled'
      BY <1>0, <3>1 DEF Settled, Resident, DiskTypes
    <3>4. edge'[HitPath(m)] = NoPath
      BY <1>0, <3>1, <3>2 DEF DiskTypes
    <3>5. Unmarked'
      <4> SUFFICES ASSUME NEW n \in Models PROVE edge'[HitPath(n)'] = NoPath
        BY DEF Unmarked
      <4>1. n = m /\ HitPath(m)' = HitPath(m)
        BY <3>1 DEF Alone, HitPath
      <4> QED  BY <3>4, <4>1
    <3> QED  BY <3>3, <3>5
  <2>3. CASE ~SetAside(m) /\ ~Unregister(m)
    <3>1. UNCHANGED <<body, edge>> /\ pc'[m] # "aside"
      BY <1>0, <1>4, <2>3, ReaderKinds DEF GiveUp, Resolve, Touch, Forgets, Moves, Serves, Reading, DiskTypes
    <3> QED  BY <1>1, <1>2, <3>1
  <2> QED  BY <2>1, <2>2, <2>3
<1>5. ASSUME NEW m \in Models, NEW k \in Keys, Persist(m, k)  PROVE Settled' /\ Unmarked'
  <2>1. UNCHANGED <<body, edge>> /\ pc'[m] # "aside"
    BY <1>0, <1>5 DEF Persist, DiskTypes
  <2> QED  BY <1>1, <1>2, <2>1
<1>6. ASSUME NEW m \in Models, NEW k \in Keys, Lookup(m, k)  PROVE Settled' /\ Unmarked'
  <2>1. body' = body /\ (edge' = edge \/ edge' = Rebuilt) /\ pc'[m] # "aside"
    BY <1>0, <1>6 DEF Lookup, DiskTypes
  <2>2. edge' = Rebuilt => Settled'
    BY <2>1 DEF Settled, Resident, Rebuilt
  <2> QED  BY <1>1, <1>2, <2>1, <2>2
<1>7. CASE Crash
  BY <1>7 DEF Crash, Settled, Unmarked
<1>8. CASE (\E p \in Paths : Damage(p)) \/ UNCHANGED vars
  <2>1. UNCHANGED <<body, edge, pc, hit>>
    BY <1>8 DEF Damage, vars
  <2> QED  BY <1>1, <2>1 DEF Unmarked, HitPath
<1> QED  BY <1>3, <1>4, <1>5, <1>6, <1>7, <1>8 DEF Next

\* The disk stays within its cap when deltas are off, as is the default, with
\* every number of engines; and with deltas when there is one engine.
THEOREM DiskStaysWithinCap ==
  ASSUME NoDeltas \/ Alone
  PROVE  Spec => []WithinCap
<1>1. Spec => []Settled
  <2>1. CASE NoDeltas
    <3> DEFINE Inv == DiskInv /\ Whole /\ \A p \in Paths : edge[p] = NoPath
    <3>1. ASSUME Init  PROVE Inv
      <4>1. Whole
        BY <3>1 DEF Init, Whole, Resident, NoBody, NoSide, Chosen, Reading
      <4>2. \A p \in Paths : edge[p] = NoPath
        BY <3>1 DEF Init
      <4> QED  BY <3>1, <4>1, <4>2, DiskStarts
    <3>2. ASSUME Inv, [Next]_vars  PROVE Inv'
      <4>1. DiskInv' /\ Whole'
        BY <2>1, <3>2, DiskStep, WholeStep
      <4>2. ASSUME NEW p \in Paths  PROVE edge'[p] = NoPath
        BY <3>2, EdgeSteps DEF DiskInv, Whole
      <4> QED  BY <4>1, <4>2
    <3>3. Inv => Settled
      BY DEF Settled
    <3> HIDE DEF Inv
    <3> QED  BY <3>1, <3>2, <3>3, PTL DEF Spec
  <2>2. CASE Alone
    <3>1. ASSUME Init  PROVE DiskInv /\ Settled /\ Unmarked
      BY <3>1, DiskStarts DEF Init, Settled, Unmarked
    <3>2. ASSUME DiskInv, Settled, Unmarked, [Next]_vars  PROVE (DiskInv /\ Settled /\ Unmarked)'
      BY <2>2, <3>2, DiskStep, AloneSettles
    <3> QED  BY <3>1, <3>2, PTL DEF Spec
  <2> QED  BY <2>1, <2>2
<1>2. NoDeltas \/ Apart
  BY DEF Alone, Apart
<1> QED  BY <1>1, <1>2, SettledDiskStaysWithinCap, PTL

-----------------------------------------------------------------------------
(* The checkpoint just written.                                             *)

Newest(m) == <<m, key[m]>>

\* Until the blob is there nothing is saved; a pass visits last a body that is
\* as young as the one just written, or younger.
NewestAt(m) ==
  /\ pc[m] \in {"body", "tokens"} => ~saved[m]
  /\ pc[m] \in {"side", "commit"} /\ saved[m] => tokens[Newest(m)] # 0
  /\ pc[m] \in Passing =>
       /\ todo[m] \in Seq(Paths) /\ IsInjective(todo[m]) /\ ToSet(Rest(m)) = Residents
       /\ pc[m] # "evict" => todo[m] # <<>>
       /\ saved[m] /\ Newest(m) \in ToSet(Rest(m)) =>
            Last(todo[m]) = Newest(m) \/ InOrder(order, Newest(m), Last(todo[m]))

NewestLast ==
  /\ DOMAIN todo = Models /\ \A p \in Paths : edge[p] = NoPath
  /\ \A m \in Models : NewestAt(m)

\* What is not touched does not become younger than what was.
LEMMA TouchKeepsOrder ==
  ASSUME Listed, NEW q \in Residents, NEW p, p # q, NEW z, InOrder(order, p, z)
  PROVE  InOrder(Touched(q), p, z)
<1> DEFINE s == RemoveFirst(order, q)
<1>1. q \in Paths /\ s \in Seq(Paths) /\ ToSet(s) = ToSet(order) \ {q}
  BY ToSetRemoveFirst DEF Listed, Residents
<1>2. z # q => InOrder(s, p, z)
  BY ToSetRemoveFirst DEF Listed
<1>3. p \in ToSet(order)
  BY DEF InOrder, ToSet
<1> HIDE DEF s
<1>4. InOrder(s, p, z) => InOrder(Append(s, q), p, z)
  BY <1>1, OrderAppended
<1>5. p \in ToSet(s) => InOrder(Append(s, q), p, q)
  BY <1>1, OrderAppended
<1> QED  BY <1>1, <1>2, <1>3, <1>4, <1>5 DEF Touched, s

\* Where nothing the last write relies on is taken away.
LEMMA NewestStays ==
  ASSUME Listed, NEW m \in Models, NewestAt(m), pc'[m] = pc[m], key'[m] = key[m], saved'[m] = saved[m],
         todo'[m] = todo[m],
         pc[m] \in Locked =>
           /\ Residents' = Residents
           /\ order' = order \/ \E q \in Residents : q # Newest(m) /\ order' = Touched(q)
           /\ tokens[Newest(m)] # 0 => tokens'[Newest(m)] # 0
  PROVE  NewestAt(m)'
<1>1. Newest(m)' = Newest(m) /\ Rest(m)' = Rest(m)
  BY DEF Newest, Rest
<1>2. \A l \in {"side", "commit"} \cup Passing : l \in Locked
  BY DEF Passing, Locked
<1>3. ASSUME pc[m] \in Locked, NEW z, InOrder(order, Newest(m), z)  PROVE InOrder(order', Newest(m), z)
  BY <1>3, TouchKeepsOrder
<1> QED  BY <1>1, <1>2, <1>3 DEF NewestAt

\* A lookup without chains changes no file while somebody holds the lock; it
\* may touch the body of its own model that it has restored.
LEMMA ReadersWait ==
  ASSUME DiskTypes, Phases, Whole, NEW m \in Models, Reader(m)
  PROVE  /\ UNCHANGED <<todo, saved, key>> /\ \A n \in Models \ {m} : pc'[n] = pc[n]
         /\ pc'[m] \notin Writing \cup Passing
         /\ lock # NoOne => /\ UNCHANGED <<body, tokens>>
                            /\ order' = order \/ \E q \in Residents : ModelOf(q) = m /\ order' = Touched(q)
<1> USE DEF Goto, diskVars, memVars, writerVars, readerVars, histVars
<1>1. /\ UNCHANGED <<todo, saved, key>> /\ \A n \in Models \ {m} : pc'[n] = pc[n]
      /\ pc'[m] \notin Writing \cup Passing
  BY ReaderKinds, ZenonT(30) DEF GiveUp, Resolve, Unregister, SetAside, Touch, Forgets, Moves, Serves, Chosen, Reading, Writing, Passing, DiskTypes
<1>2. CASE Touch(m)
  <2>1. HitPath(m) \in Paths /\ ModelOf(HitPath(m)) = m
    BY <1>2, KeyFacts DEF Touch, Phases, Phase, HitPath, Chosen
  <2>2. UNCHANGED <<body, tokens>> /\ (order' = order \/ (Resident(HitPath(m)) /\ order' = Touched(HitPath(m))))
    BY <1>2, Zenon DEF Touch
  <2> QED  BY <1>1, <2>1, <2>2 DEF Residents
<1>3. CASE ~Touch(m)
  <2>1. ASSUME lock # NoOne  PROVE UNCHANGED <<body, order, tokens>>
    <3>1. GiveUp(m) \/ Resolve(m) \/ Forgets(m) \/ Moves(m) \/ Serves(m)
      BY <1>3, <2>1, ReaderKinds DEF Unregister, SetAside
    <3> QED  BY <3>1 DEF GiveUp, Resolve, Forgets, Moves, Serves
  <2> QED  BY <1>1, <2>1
<1> QED  BY <1>2, <1>3

LEMMA LastOfTail ==
  ASSUME NEW S, NEW s \in Seq(S), s # <<>>, Tail(s) # <<>>
  PROVE  Last(Tail(s)) = Last(s) /\ Last(s) \in ToSet(Tail(s))
<1>1. Len(s) \in Nat /\ Len(s) # 0 /\ Tail(s) \in Seq(S) /\ Len(Tail(s)) = Len(s) - 1
      /\ DOMAIN Tail(s) = 1..(Len(s) - 1) /\ \A i \in 1..(Len(s) - 1) : Tail(s)[i] = s[i + 1]
  OBVIOUS
<1>2. Len(Tail(s)) # 0
  BY <1>1
<1>3. Last(Tail(s)) = Tail(s)[Len(s) - 1] /\ Last(s) = s[Len(s)]
  BY <1>1 DEF Last
<1>4. Len(s) - 1 \in DOMAIN Tail(s) /\ Tail(s)[Len(s) - 1] = s[Len(s)]
  BY <1>1, <1>2
<1>5. Last(Tail(s)) \in ToSet(Tail(s))
  BY <1>3, <1>4 DEF ToSet
<1> QED  BY <1>3, <1>4, <1>5

\* The writer's own steps.
LEMMA NewestOfWriter ==
  ASSUME NoDeltas, DiskInv, Whole, NewestLast, NEW m \in Models, Writer(m)
  PROVE  NewestAt(m)'
<1> USE DEF Goto, diskVars, memVars, writerVars, readerVars, histVars
<1>0. /\ DiskTypes /\ Listed /\ Phases /\ DOMAIN todo = Models /\ NewestAt(m)
      /\ \A p \in Paths : edge[p] = NoPath
  BY DEF DiskInv, NewestLast
<1>1. key' = key /\ Newest(m)' = Newest(m)
  BY <1>0, WriterFrame DEF Newest
<1>2. body' = body => Residents' = Residents
  BY DEF Residents, Resident
<1>3. pc[m] \in Writing => Newest(m) \in Paths /\ plan[m].uuid # 0
  BY WritesAt DEF Newest
<1>4. CASE WriteBody(m)
  <2>1. pc[m] = "body" /\ pc'[m] = "tokens" /\ saved' = saved
    BY <1>0, <1>4 DEF WriteBody, DiskTypes
  <2>2. ~saved'[m]
    BY <1>0, <2>1 DEF NewestAt
  <2> QED  BY <2>1, <2>2 DEF NewestAt, Passing
<1>5. CASE BodyFails(m) \/ EndPass(m)
  <2>1. pc'[m] = "idle"
    BY <1>0, <1>5 DEF BodyFails, EndPass, DiskTypes
  <2> QED  BY <2>1 DEF NewestAt, Passing
<1>6. CASE WriteTokens(m)
  <2>1. pc[m] = "tokens" /\ pc'[m] = "side" /\ order' = order /\ tokens' = [tokens EXCEPT ![Newest(m)] = plan[m].uuid]
    BY <1>0, <1>6 DEF WriteTokens, DiskTypes, Newest
  <2>2. tokens'[Newest(m)] # 0
    BY <1>0, <1>3, <2>1 DEF Writing, DiskTypes
  <2> QED  BY <1>0, <1>1, <2>1, <2>2 DEF NewestAt, Passing
<1>7. CASE TokensFail(m) \/ WriteSide(m) \/ SideFails(m)
  <2>1. /\ UNCHANGED <<order, tokens, saved>>
        /\ (pc[m] = "tokens" /\ pc'[m] = "side") \/ (pc[m] = "side" /\ pc'[m] = "commit")
    BY <1>0, <1>7 DEF TokensFail, WriteSide, SideFails, DiskTypes
  <2> QED  BY <1>0, <1>1, <2>1 DEF NewestAt, Passing
<1>8. CASE Commit(m)
  <2>1. CASE ~OverCap
    <3>1. pc'[m] = "idle"
      BY <1>0, <1>8, <2>1 DEF Commit, DiskTypes
    <3> QED  BY <3>1 DEF NewestAt, Passing
  <2>2. CASE OverCap
    <3>1. /\ pc[m] = "commit" /\ pc'[m] = "evict" /\ todo'[m] = EvictionOrder /\ saved' = saved
          /\ body' = body
      BY <1>0, <1>8, <2>2 DEF Commit, DiskTypes
    <3>2. /\ EvictionOrder \in Seq(Paths) /\ IsInjective(EvictionOrder) /\ ToSet(EvictionOrder) = Residents
          /\ \A x \in Residents :
               tokens[x] # 0 => Last(EvictionOrder) = x \/ InOrder(order, x, Last(EvictionOrder))
      BY <1>0, EvictionFacts
    <3>3. order' = order /\ (saved[m] => tokens[Newest(m)] # 0)
      BY <1>0, <1>8, <3>1 DEF NewestAt, Commit
    <3>4. Rest(m)' = EvictionOrder
      BY <3>1 DEF Rest
    <3> QED  BY <1>1, <1>2, <3>1, <3>2, <3>3, <3>4 DEF NewestAt
  <2> QED  BY <2>1, <2>2
<1>9. CASE Skip(m)
  <2>1. pc[m] = "evict" /\ todo[m] # <<>> /\ Protected(Head(todo[m]))
    BY <1>9 DEF Skip, PassOver
  <2>2. todo[m] \in Seq(Paths)
    BY <1>0, <2>1 DEF NewestAt, Passing
  <2>3. Head(todo[m]) \in Paths
    BY <2>1, <2>2
  <2>4. Head(todo[m]) # NoPath
    BY <2>3, KeyFacts DEF NoPath
  <2> QED  BY <1>0, <2>1, <2>4 DEF Protected, HasDelta, Pinned, Whole
<1>10. ASSUME pc[m] \in Passing
       PROVE  /\ todo[m] \in Seq(Paths) /\ IsInjective(todo[m]) /\ ToSet(Rest(m)) = Residents
              /\ pc[m] # "evict" => todo[m] # <<>>
              /\ saved[m] /\ Newest(m) \in ToSet(Rest(m)) =>
                   Last(todo[m]) = Newest(m) \/ InOrder(order, Newest(m), Last(todo[m]))
              /\ todo[m] # <<>> => /\ Tail(todo[m]) \in Seq(Paths) /\ IsInjective(Tail(todo[m]))
                                   /\ ToSet(todo[m]) = ToSet(Tail(todo[m])) \cup {Head(todo[m])}
                                   /\ Head(todo[m]) \notin ToSet(Tail(todo[m]))
  <2>1. /\ todo[m] \in Seq(Paths) /\ IsInjective(todo[m]) /\ ToSet(Rest(m)) = Residents
        /\ pc[m] # "evict" => todo[m] # <<>>
        /\ saved[m] /\ Newest(m) \in ToSet(Rest(m)) =>
             Last(todo[m]) = Newest(m) \/ InOrder(order, Newest(m), Last(todo[m]))
    BY <1>0, <1>10 DEF NewestAt
  <2> QED  BY <2>1, ToSetTail
<1>11. CASE Unlink(m)
  <2> DEFINE h == Head(todo[m])
             z == Last(todo[m])
  <2>1. /\ pc[m] = "evict" /\ pc'[m] = "unlink" /\ todo[m] # <<>> /\ todo' = todo /\ saved' = saved
        /\ body' = [body EXCEPT ![h] = NoBody] /\ order' = RemoveFirst(order, h)
    BY <1>0, <1>11 DEF Unlink, PassOver, DiskTypes
  <2>2. Rest(m) = todo[m] /\ Rest(m)' = Tail(todo[m])
    BY <2>1 DEF Rest
  <2>3. Residents' = Residents \ {h}
    BY <1>0, <2>1 DEF Residents, Resident, DiskTypes
  <2>4. ToSet(Rest(m)') = Residents'
    BY <1>10, <2>1, <2>2, <2>3 DEF Passing
  <2>5. ASSUME saved[m], Newest(m) \in ToSet(Tail(todo[m]))
        PROVE  z = Newest(m) \/ InOrder(order', Newest(m), z)
    <3>1. Newest(m) # h /\ Newest(m) \in ToSet(Rest(m)) /\ todo[m] \in Seq(Paths)
      BY <1>10, <2>1, <2>2, <2>5 DEF Passing
    <3>2. z = Newest(m) \/ InOrder(order, Newest(m), z)
      BY <1>10, <2>1, <2>5, <3>1 DEF Passing
    <3>3. z # h
      <4>1. Tail(todo[m]) # <<>>
        BY <2>5 DEF ToSet
      <4>2. z \in ToSet(Tail(todo[m]))
        BY <2>1, <3>1, <4>1, LastOfTail
      <4> QED  BY <1>10, <2>1, <4>2 DEF Passing
    <3>4. InOrder(order, Newest(m), z) => InOrder(RemoveFirst(order, h), Newest(m), z)
      <4> HIDE DEF z, h
      <4> QED  BY <1>0, <3>1, <3>3, ToSetRemoveFirst DEF Listed
    <3> QED  BY <2>1, <3>2, <3>4
  <2> HIDE DEF h
  <2> QED  BY <1>1, <1>10, <2>1, <2>2, <2>4, <2>5 DEF NewestAt, Passing
<1>12. CASE UnlinkSide(m)
  <2>1. /\ pc[m] = "unlink" /\ pc'[m] = "unlink tokens" /\ todo' = todo /\ saved' = saved /\ body' = body
        /\ order' = order
    BY <1>0, <1>12 DEF UnlinkSide, DiskTypes
  <2>2. Rest(m)' = Rest(m)
    BY <2>1 DEF Rest
  <2> QED  BY <1>1, <1>2, <1>10, <2>1, <2>2 DEF NewestAt, Passing
<1>13. CASE UnlinkTokens(m)
  <2>1. /\ pc[m] = "unlink tokens" /\ pc'[m] = "evict" /\ todo'[m] = Tail(todo[m]) /\ saved' = saved /\ body' = body
        /\ order' = order
    BY <1>0, <1>13 DEF UnlinkTokens, DiskTypes
  <2>2. Rest(m) = Tail(todo[m]) /\ Rest(m)' = Tail(todo[m])
    BY <2>1 DEF Rest
  <2>3. todo[m] # <<>> /\ todo[m] \in Seq(Paths)
    BY <1>10, <2>1 DEF Passing
  <2>4. Newest(m) \in ToSet(Tail(todo[m])) => Last(Tail(todo[m])) = Last(todo[m])
    <3>1. Newest(m) \in ToSet(Tail(todo[m])) => Tail(todo[m]) # <<>>
      BY DEF ToSet
    <3> QED  BY <2>3, <3>1, LastOfTail
  <2> QED  BY <1>1, <1>2, <1>10, <2>1, <2>2, <2>3, <2>4 DEF NewestAt, Passing
<1> QED  BY <1>4, <1>5, <1>6, <1>7, <1>8, <1>9, <1>11, <1>12, <1>13 DEF Writer

LEMMA NewestStep ==
  ASSUME NoDeltas, DiskInv, Whole, NewestLast, [Next]_vars
  PROVE  NewestLast'
<1> USE DEF Goto, diskVars, memVars, writerVars, readerVars, histVars
<1>0. /\ DiskTypes /\ Listed /\ Phases /\ DOMAIN todo = Models /\ NoOne \notin Models
      /\ \A m \in Models : NewestAt(m)
  BY KeyFacts DEF DiskInv, NewestLast
<1>1. ASSUME NEW p \in Paths  PROVE edge'[p] = NoPath
  <2>1. edge[p] = NoPath /\ side[p].base = NoPath /\ \A m \in Models : plan[m].base = NoPath
    BY DEF Whole, NewestLast
  <2> QED  BY <1>0, <2>1, EdgeSteps
<1>2. body' = body => Residents' = Residents
  BY DEF Residents, Resident
<1>3. \A m \in Models : pc[m] \in Locked => lock = m
  BY <1>0 DEF Phases, Phase
<1>4. ASSUME NEW n \in Models, Writer(n)
      PROVE  DOMAIN todo' = Models /\ \A m \in Models : NewestAt(m)'
  <2>1. NewestAt(n)'
    BY <1>4, NewestOfWriter
  <2>2. key' = key /\ \A m \in Models \ {n} : pc'[m] = pc[m]
    BY <1>0, <1>4, WriterFrame
  <2>3. todo' = todo \/ \E s : todo' = [todo EXCEPT ![n] = s]
    <3>1. CASE Commit(n)
      BY <3>1 DEF Commit
    <3>2. CASE EndPass(n) \/ Skip(n) \/ UnlinkTokens(n)
      BY <3>2 DEF EndPass, Skip, UnlinkTokens
    <3>3. CASE ~Commit(n) /\ ~EndPass(n) /\ ~Skip(n) /\ ~UnlinkTokens(n)
      BY <1>4, <3>3 DEF Writer, WriteBody, BodyFails, WriteTokens, TokensFail, WriteSide, SideFails, Unlink,
                        UnlinkSide
    <3> QED  BY <3>1, <3>2, <3>3
  <2>4. saved' = saved \/ saved' = [saved EXCEPT ![n] = TRUE]
    BY <1>4 DEF Writer, WriteBody, BodyFails, WriteTokens, TokensFail, WriteSide, SideFails, Unlink,
                UnlinkSide, Commit, EndPass, Skip, UnlinkTokens
  <2>5. DOMAIN todo' = Models /\ \A m \in Models \ {n} : todo'[m] = todo[m] /\ saved'[m] = saved[m]
    BY <1>0, <2>3, <2>4 DEF DiskTypes
  <2>6. ASSUME NEW m \in Models, m # n, pc[m] \in Locked
        PROVE  UNCHANGED <<body, order, tokens>>
    <3>1. lock = m /\ pc[n] \notin Locked
      BY <1>3, <2>6
    <3>2. BodyFails(n)
      BY <1>0, <1>4, <3>1 DEF Writer, WriteBody, WriteTokens, TokensFail, WriteSide, SideFails, Unlink,
                UnlinkSide, Commit, EndPass, Skip, UnlinkTokens, Locked
    <3> QED  BY <3>2 DEF BodyFails
  <2>7. ASSUME NEW m \in Models, m # n  PROVE NewestAt(m)'
    <3>1. NewestAt(m) /\ pc'[m] = pc[m] /\ key'[m] = key[m] /\ saved'[m] = saved[m] /\ todo'[m] = todo[m]
      BY <1>0, <2>2, <2>5, <2>7
    <3>2. pc[m] \in Locked => /\ order' = order /\ Residents' = Residents
                              /\ tokens[Newest(m)] # 0 => tokens'[Newest(m)] # 0
      BY <1>2, <2>6, <2>7
    <3> QED  BY <1>0, <3>1, <3>2, NewestStays
  <2> QED  BY <2>1, <2>5, <2>7
<1>5. ASSUME NEW n \in Models, Reader(n)
      PROVE  DOMAIN todo' = Models /\ \A m \in Models : NewestAt(m)'
  <2>1. /\ UNCHANGED <<todo, saved, key>> /\ \A m \in Models \ {n} : pc'[m] = pc[m]
        /\ pc'[n] \notin Writing \cup Passing
        /\ lock # NoOne => /\ UNCHANGED <<body, tokens>>
                           /\ order' = order \/ \E q \in Residents : ModelOf(q) = n /\ order' = Touched(q)
    BY <1>0, <1>5, ReadersWait
  <2>2. NewestAt(n)'
    BY <2>1 DEF NewestAt, Writing
  <2>3. ASSUME NEW m \in Models, m # n  PROVE NewestAt(m)'
    <3>1. NewestAt(m) /\ pc'[m] = pc[m] /\ key'[m] = key[m] /\ saved'[m] = saved[m] /\ todo'[m] = todo[m]
      BY <1>0, <2>1, <2>3
    <3>2. ModelOf(Newest(m)) = m
      BY DEF Newest, ModelOf
    <3>3. pc[m] \in Locked =>
            /\ Residents' = Residents /\ tokens' = tokens
            /\ order' = order \/ \E q \in Residents : q # Newest(m) /\ order' = Touched(q)
      BY <1>0, <1>2, <1>3, <2>1, <2>3, <3>2
    <3> QED  BY <1>0, <3>1, <3>3, NewestStays
  <2> QED  BY <1>0, <2>1, <2>2, <2>3
<1>6. ASSUME NEW n \in Models, NEW k \in Keys, Persist(n, k) \/ Lookup(n, k)
      PROVE  DOMAIN todo' = Models /\ \A m \in Models : NewestAt(m)'
  <2>1. /\ UNCHANGED <<body, order, tokens, todo>>
        /\ \A m \in Models \ {n} : pc'[m] = pc[m] /\ saved'[m] = saved[m] /\ key'[m] = key[m]
    BY <1>0, <1>6 DEF Persist, Lookup, DiskTypes
  <2>2. (pc'[n] = "body" /\ ~saved'[n]) \/ pc'[n] = "resolve"
    BY <1>0, <1>6 DEF Persist, Lookup, DiskTypes
  <2>3. NewestAt(n)'
    BY <2>2 DEF NewestAt, Passing
  <2>4. ASSUME NEW m \in Models, m # n  PROVE NewestAt(m)'
    <3>1. NewestAt(m) /\ pc'[m] = pc[m] /\ key'[m] = key[m] /\ saved'[m] = saved[m] /\ todo'[m] = todo[m]
      BY <1>0, <2>1, <2>4
    <3> QED  BY <1>0, <1>2, <2>1, <3>1, NewestStays
  <2> QED  BY <1>0, <2>1, <2>3, <2>4
<1>7. CASE Crash
  <2>1. DOMAIN todo' = Models /\ \A m \in Models : pc'[m] = "idle"
    BY <1>7 DEF Crash
  <2> QED  BY <1>1, <2>1 DEF NewestLast, NewestAt, Passing
<1>8. CASE (\E p \in Paths : Damage(p)) \/ UNCHANGED vars
  <2>1. UNCHANGED <<body, order, todo, pc, saved, key>> /\ \A p \in Paths : tokens[p] # 0 => tokens'[p] # 0
    BY <1>0, <1>8, KeyFacts DEF Damage, vars, DiskTypes, Damaged
  <2>2. ASSUME NEW m \in Models  PROVE NewestAt(m)'
    <3>1. pc[m] \in Locked /\ tokens[Newest(m)] # 0 => tokens'[Newest(m)] # 0
      <4>1. Newest(m) \in Paths => (tokens[Newest(m)] # 0 => tokens'[Newest(m)] # 0)
        BY <2>1
      <4>2. CASE \E p \in Paths : Damage(p)
        <5>1. PICK p \in Paths : Damage(p)
          BY <4>2
        <5>2. tokens' = [tokens EXCEPT ![p] = Damaged]
          BY <5>1 DEF Damage
        <5>3. Newest(m) # p => tokens'[Newest(m)] = tokens[Newest(m)]
          BY <5>2
        <5> QED  BY <4>1, <5>3
      <4>3. CASE UNCHANGED vars
        BY <4>3 DEF vars
      <4> QED  BY <1>8, <4>2, <4>3
    <3> QED  BY <1>0, <1>2, <2>1, <3>1, NewestStays
  <2> QED  BY <1>0, <1>1, <2>1, <2>2 DEF NewestLast
<1> QED  BY <1>1, <1>4, <1>5, <1>6, <1>7, <1>8 DEF Next, NewestLast

\* "The checkpoint just written (newest) ... survive[s]": with deltas off, a
\* pass never takes it while it is the newest, for every cap, every mark, every
\* listing and whatever other engines restore in between.  The body that is
\* visited last is as young, and one checkpoint is within the mark.
THEOREM JustWrittenSurvives ==
  ASSUME NoDeltas
  PROVE  Spec => NewestSurvives
<1> DEFINE Inv == DiskInv /\ Whole /\ NewestLast
           A == \A m \in Models :
                  pc[m] = "evict" /\ pc'[m] = "unlink" /\ Head(todo[m]) = <<m, key[m]>> /\ saved[m] =>
                    Last(order) # <<m, key[m]>>
<1>1. ASSUME Init  PROVE Inv
  <2>1. Whole
    BY <1>1 DEF Init, Whole, Resident, NoBody, NoSide, Chosen, Reading
  <2>2. NewestLast
    BY <1>1 DEF Init, NewestLast, NewestAt, Passing
  <2> QED  BY <1>1, <2>1, <2>2, DiskStarts
<1>2. ASSUME Inv, [Next]_vars  PROVE Inv'
  BY <1>2, DiskStep, WholeStep, NewestStep
<1>3. ASSUME Inv, [Next]_vars  PROVE [A]_vars
  <2> SUFFICES ASSUME NEW m \in Models, pc[m] = "evict", pc'[m] = "unlink", Next,
                      Head(todo[m]) = Newest(m), saved[m]
               PROVE  Last(order) # Newest(m)
    BY <1>3 DEF vars, Newest
  <2>1. DiskTypes /\ Listed /\ Phases /\ NewestAt(m)
    BY <1>3 DEF DiskInv, NewestLast
  <2>2. ~PassOver(m)
    BY <2>1, WhoUnlinks DEF Unlink
  <2>3. todo[m] # <<>> /\ Cardinality(Residents) > LowWater
    <3>1. LowWater \in Nat /\ Cardinality(Residents) \in Nat
      BY <2>1, UsedFacts, DiskAssumption DEF Used
    <3> QED  BY <2>2, <3>1 DEF PassOver
  <2>4. /\ todo[m] \in Seq(Paths) /\ IsInjective(todo[m]) /\ ToSet(todo[m]) = Residents
        /\ Len(todo[m]) \in Nat \ {0} /\ Head(todo[m]) = todo[m][1] /\ DOMAIN todo[m] = 1..Len(todo[m])
    BY <2>1, <2>3 DEF NewestAt, Passing, Rest
  <2>5. Last(todo[m]) = Newest(m) \/ InOrder(order, Newest(m), Last(todo[m]))
    <3>1. Newest(m) \in ToSet(todo[m])
      BY <2>4 DEF ToSet
    <3> QED  BY <2>1, <3>1 DEF NewestAt, Passing, Rest
  <2>6. Last(todo[m]) # Newest(m)
    <3>0. Cardinality(Residents) = Len(todo[m])
      BY <2>4, InjectiveCard
    <3>1. LowWater \in Nat /\ LowWater >= 1
      BY DiskAssumption
    <3>2. Len(todo[m]) \in Nat /\ Len(todo[m]) > LowWater
      BY <2>3, <2>4, <3>0
    <3>3. Len(todo[m]) # 1
      <4>1. \A n \in Nat : n > LowWater => n # 1
        BY <3>1
      <4> QED  BY <3>2, <4>1, Zenon
    <3>4. 1 \in DOMAIN todo[m] /\ Len(todo[m]) \in DOMAIN todo[m]
      BY <2>4
    <3> QED  BY <2>4, <3>3, <3>4 DEF IsInjective, Last
  <2> QED  BY <2>1, <2>5, <2>6, LastIsLast DEF Listed
<1>4. [][A]_vars => NewestSurvives
  BY PTL DEF NewestSurvives
<1> QED  BY <1>1, <1>2, <1>3, <1>4, PTL DEF Spec

-----------------------------------------------------------------------------
(* The store, with deltas.                                                  *)

\* A body beside the sidecar of another write.  While its own is being written
\* a sidecar left behind by an eviction that was cut short may be there; other
\* than that the worst that can be is that one of the two is missing.
Torn(p) == Resident(p) /\ side[p] # NoSide /\ side[p].uuid # body[p].uuid

BeingWritten(p) == \E m \in Models : p = <<m, key[m]>> /\ pc[m] \in {"tokens", "side"}

Tidy == \A p \in Paths : Torn(p) => BeingWritten(p)

\* It takes one fault to leave a sidecar behind, and another one to let it stay.
BeingUnlinked(p) == \E m \in Models : pc[m] = "unlink" /\ p = Head(todo[m])

LeftByFaults ==
  /\ faults \in 0..MaxFaults /\ DOMAIN todo = Models
  /\ \A p \in Paths :
       /\ ~Resident(p) /\ side[p] # NoSide => faults >= 1 \/ BeingUnlinked(p)
       /\ Torn(p) => faults >= 2 \/ (faults >= 1 /\ BeingWritten(p))

\* Where the rows of a body start whose sidecar names that base.
Start(base) == IF base = NoPath THEN 0 ELSE Offset(base)

\* A body holds the rows after its base, as its sidecar tells it, and before
\* that the plan of its write.
Continues ==
  /\ \A p \in Paths :
       /\ Resident(p) => p \in ever
       /\ Resident(p) /\ side[p].uuid = body[p].uuid => body[p].from = Start(side[p].base)
  /\ \A m \in Models :
       pc[m] \in {"tokens", "side"} => body[<<m, key[m]>>].from = Start(plan[m].base)

\* The links a lookup has read: each is the base of the next, the last one is
\* the candidate, and what is there of their bodies continues their bases.
Sound(link) ==
  /\ Below(link.path, link.side.base)
  /\ Resident(link.path) => body[link.path].from = Start(link.side.base)

Joined(links, first, leaf) ==
  /\ links[Len(links)].path = leaf
  /\ \A i \in 1..Len(links) - 1 : links[i + 1].side.base = links[i].path
  /\ \A i \in first..Len(links) : Sound(links[i])

Linked(m) == Joined(chain[m], IF pc[m] = "link" THEN 2 ELSE 1, HitPath(m))

Follows(m) ==
  /\ pc[m] \in Chosen => IsPrefix(hit[m].key, key[m])
  /\ pc[m] = "full" => side[HitPath(m)].base = NoPath
  /\ pc[m] \in Linking => Linked(m)
  /\ pc[m] \in {"pin", "read"} => chain[m][1].side.base = NoPath

AllFollow == \A m \in Models : Follows(m)

\* Faults are counted.
LEMMA FaultSteps ==
  ASSUME [Next]_vars
  PROVE  /\ faults' = faults \/ (faults' = faults + 1 /\ faults < MaxFaults)
         /\ Crash => faults' = faults + 1
         /\ \A m \in Models : SideFails(m) => faults' = faults + 1
<1> USE DEF diskVars, memVars, writerVars, readerVars, histVars
<1>1. ASSUME NEW m \in Models, Writer(m)
      PROVE  faults' = faults \/ (faults' = faults + 1 /\ faults < MaxFaults)
  BY <1>1 DEF Writer, WriteBody, WriteSide, BodyFails, WriteTokens, TokensFail, SideFails, Commit, EndPass,
              Skip, Unlink, UnlinkSide, UnlinkTokens
<1>2. ASSUME NEW m \in Models, Reader(m)  PROVE faults' = faults
  BY <1>2, ReaderKinds DEF GiveUp, Resolve, Unregister, SetAside, Touch, Forgets, Moves, Serves
<1>3. ASSUME NEW m \in Models, NEW k \in Keys, Persist(m, k) \/ Lookup(m, k)  PROVE faults' = faults
  BY <1>3 DEF Persist, Lookup
<1>4. ASSUME Crash \/ (\E p \in Paths : Damage(p))  PROVE faults' = faults + 1 /\ faults < MaxFaults
  BY <1>4 DEF Crash, Damage
<1>5. ASSUME UNCHANGED vars  PROVE faults' = faults
  BY <1>5 DEF vars
<1>6. /\ Crash => faults' = faults + 1
      /\ \A m \in Models : SideFails(m) => faults' = faults + 1
  BY DEF Crash, SideFails
<1> QED  BY <1>1, <1>2, <1>3, <1>4, <1>5, <1>6 DEF Next

\* What a worker does whose eviction has unlinked a body, and one that has
\* renamed one into place.
LEMMA UnlinkGoesOn ==
  ASSUME DiskTypes, Phases, DOMAIN todo = Models, [Next]_vars, NEW m \in Models, pc[m] = "unlink"
  PROVE  (pc'[m] = "unlink" /\ todo'[m] = todo[m]) \/ UnlinkSide(m) \/ Crash
<1> USE DEF Goto, diskVars, memVars, writerVars, readerVars, histVars, DiskTypes
<1>1. lock = m /\ NoOne \notin Models
  BY KeyFacts DEF Phases, Phase, Locked
<1>2. ASSUME NEW n \in Models, Writer(n), n # m  PROVE pc'[m] = pc[m] /\ todo'[m] = todo[m]
  <2>1. todo' = todo \/ \E t : todo' = [todo EXCEPT ![n] = t]
    BY <1>2 DEF Writer, WriteBody, WriteSide, BodyFails, WriteTokens, TokensFail, SideFails, Commit, EndPass,
                Skip, Unlink, UnlinkSide, UnlinkTokens
  <2>2. todo'[m] = todo[m]
    BY <1>2, <2>1
  <2> QED  BY <1>2, <2>2, WriterFrame
<1>3. ASSUME Writer(m)  PROVE UnlinkSide(m)
  BY <1>3 DEF Writer, WriteBody, WriteSide, BodyFails, WriteTokens, TokensFail, SideFails, Commit, EndPass,
              Skip, Unlink, UnlinkTokens
<1>4. ASSUME NEW n \in Models, Reader(n)  PROVE pc'[m] = pc[m] /\ todo'[m] = todo[m]
  BY <1>4, ReaderKinds DEF GiveUp, Resolve, Unregister, SetAside, Touch, Forgets, Moves, Serves, Chosen, Reading
<1>5. CASE \/ \E n \in Models, k \in Keys : Persist(n, k) \/ Lookup(n, k)
           \/ (\E p \in Paths : Damage(p)) \/ UNCHANGED vars
  BY <1>5 DEF Persist, Lookup, Damage, vars
<1> QED  BY <1>2, <1>3, <1>4, <1>5 DEF Next

LEMMA WriteGoesOn ==
  ASSUME DiskTypes, Phases, [Next]_vars, NEW m \in Models, pc[m] \in {"tokens", "side"}
  PROVE  \/ pc'[m] \in {"tokens", "side"} /\ key'[m] = key[m]
         \/ WriteSide(m) \/ SideFails(m) \/ Crash
<1> USE DEF Goto, diskVars, memVars, writerVars, readerVars, histVars, DiskTypes
<1>1. ASSUME NEW n \in Models, Writer(n), n # m  PROVE pc'[m] = pc[m] /\ key'[m] = key[m]
  BY <1>1, WriterFrame
<1>2. ASSUME Writer(m)
      PROVE  (pc'[m] \in {"tokens", "side"} /\ key'[m] = key[m]) \/ WriteSide(m) \/ SideFails(m)
  BY <1>2 DEF Writer, WriteBody, BodyFails, WriteTokens, TokensFail, Commit, EndPass,
              Skip, Unlink, UnlinkSide, UnlinkTokens
<1>3. ASSUME NEW n \in Models, Reader(n)  PROVE pc'[m] = pc[m] /\ key'[m] = key[m]
  BY <1>3, ReaderKinds DEF GiveUp, Resolve, Unregister, SetAside, Touch, Forgets, Moves, Serves, Chosen, Reading
<1>4. CASE \/ \E n \in Models, k \in Keys : Persist(n, k) \/ Lookup(n, k)
           \/ (\E p \in Paths : Damage(p)) \/ UNCHANGED vars
  BY <1>4, ZenonT(30) DEF Persist, Lookup, Damage, vars
<1> QED  BY <1>1, <1>2, <1>3, <1>4 DEF Next

LEMMA TodoDomain ==
  ASSUME [Next]_vars, DOMAIN todo = Models
  PROVE  DOMAIN todo' = Models
<1> USE DEF diskVars, memVars, writerVars, readerVars, histVars
<1>1. ASSUME NEW m \in Models, Writer(m)  PROVE DOMAIN todo' = DOMAIN todo
  <2>1. todo' = todo \/ \E t : todo' = [todo EXCEPT ![m] = t]
    BY <1>1 DEF Writer, WriteBody, WriteSide, BodyFails, WriteTokens, TokensFail, SideFails, Commit, EndPass,
                Skip, Unlink, UnlinkSide, UnlinkTokens
  <2> QED  BY <2>1
<1>2. ASSUME NEW m \in Models, Reader(m)  PROVE todo' = todo
  BY <1>2, ReaderKinds DEF GiveUp, Resolve, Unregister, SetAside, Touch, Forgets, Moves, Serves
<1>3. ASSUME Crash  PROVE DOMAIN todo' = Models
  BY <1>3 DEF Crash
<1>4. CASE \/ \E m \in Models, k \in Keys : Persist(m, k) \/ Lookup(m, k)
           \/ (\E p \in Paths : Damage(p)) \/ UNCHANGED vars
  BY <1>4 DEF Persist, Lookup, Damage, vars
<1> QED  BY <1>1, <1>2, <1>3, <1>4 DEF Next

LEMMA LeftStep ==
  ASSUME DiskInv, LeftByFaults, [Next]_vars
  PROVE  LeftByFaults'
<1>0. DiskTypes /\ Phases /\ faults \in 0..MaxFaults /\ MaxFaults \in Nat /\ DOMAIN todo = Models
  BY DiskAssumption DEF DiskInv, LeftByFaults
<1>1. faults' \in 0..MaxFaults /\ faults' >= faults /\ DOMAIN todo' = Models
  <2>1. DOMAIN todo' = Models
    BY <1>0, TodoDomain
  <2>2. faults' = faults \/ (faults' = faults + 1 /\ faults < MaxFaults)
    BY FaultSteps
  <2> QED  BY <1>0, <2>1, <2>2
<1>2. ASSUME NEW p \in Paths, body'[p] = NoBody, side'[p] # NoSide
      PROVE  faults' >= 1 \/ BeingUnlinked(p)'
  <2>1. side'[p] = side[p]
    <3>1. ASSUME NEW m \in Models, WriteSide(m), p = <<m, key[m]>>  PROVE FALSE
      <4>1. body' = body
        BY <3>1 DEF WriteSide
      <4>2. body[p].uuid # 0
        BY <3>1, WritesAt DEF DiskInv, Fresh, NewAt, WriteSide, Writing
      <4> QED  BY <1>2, <4>1, <4>2 DEF NoBody
    <3> QED  BY <1>0, <1>2, <3>1, SideSteps DEF DiskTypes
  <2>2. CASE ~Resident(p)
    <3>1. CASE faults >= 1
      BY <1>0, <1>1, <3>1
    <3>2. ASSUME NEW m \in Models, pc[m] = "unlink", p = Head(todo[m])
          PROVE  faults' >= 1 \/ BeingUnlinked(p)'
      <4>1. ~UnlinkSide(m)
        BY <1>0, <1>2, <3>2 DEF UnlinkSide, DiskTypes
      <4>2. CASE Crash
        <5>1. faults' = faults + 1
          BY <4>2, FaultSteps
        <5> QED  BY <1>0, <5>1
      <4>3. CASE pc'[m] = "unlink" /\ todo'[m] = todo[m]
        BY <3>2, <4>3 DEF BeingUnlinked
      <4> QED  BY <1>0, <3>2, <4>1, <4>2, <4>3, UnlinkGoesOn
    <3> QED  BY <1>2, <2>1, <2>2, <3>1, <3>2 DEF LeftByFaults, BeingUnlinked
  <2>3. CASE Resident(p)
    <3>1. PICK m \in Models : Unlink(m) /\ p = Head(todo[m])
      <4>1. ASSUME NEW m \in Models, WriteBody(m), p = <<m, key[m]>>  PROVE body'[p] # NoBody
        <5>1. body'[p].uuid = plan[m].uuid
          BY <1>0, <4>1 DEF WriteBody, DiskTypes
        <5>2. plan[m].uuid # 0
          BY <4>1, WritesAt DEF WriteBody, Writing
        <5> QED  BY <5>1, <5>2 DEF NoBody
      <4>2. ASSUME NEW m \in Models, SetAside(m), p = HitPath(m)  PROVE side'[p] = NoSide
        BY <1>0, <4>2 DEF SetAside, DiskTypes
      <4> QED  BY <1>0, <1>2, <2>3, <4>1, <4>2, BodyChanges DEF Resident, DiskTypes
    <3>2. pc'[m] = "unlink" /\ todo' = todo
      BY <1>0, <3>1 DEF Unlink, Goto, writerVars, DiskTypes
    <3> QED  BY <3>1, <3>2 DEF BeingUnlinked
  <2> QED  BY <2>2, <2>3
<1>3. ASSUME NEW p \in Paths, Torn(p)'
      PROVE  faults' >= 2 \/ (faults' >= 1 /\ BeingWritten(p)')
  <2>0. body'[p] # NoBody /\ side'[p] # NoSide /\ side'[p].uuid # body'[p].uuid
    BY <1>3 DEF Torn, Resident
  <2>1. ASSUME NEW m \in Models, p = <<m, key[m]>>  PROVE ~WriteSide(m)
    <3> SUFFICES ASSUME WriteSide(m)  PROVE FALSE
      OBVIOUS
    <3>1. body' = body /\ side'[p] = plan[m]
      BY <1>0, <2>1 DEF WriteSide, DiskTypes
    <3>2. body[p].uuid = plan[m].uuid
      BY <2>1 DEF DiskInv, Fresh, NewAt, WriteSide
    <3> QED  BY <2>0, <3>1, <3>2
  <2>2. side'[p] = side[p]
    BY <1>0, <2>0, <2>1, SideSteps DEF DiskTypes
  <2>3. CASE body'[p] = body[p]
    <3>1. Torn(p)
      BY <2>0, <2>2, <2>3 DEF Torn, Resident
    <3>2. CASE faults >= 2
      BY <1>0, <1>1, <3>2
    <3>3. ASSUME faults >= 1, NEW m \in Models, p = <<m, key[m]>>, pc[m] \in {"tokens", "side"}
          PROVE  faults' >= 2 \/ (faults' >= 1 /\ BeingWritten(p)')
      <4>1. CASE pc'[m] \in {"tokens", "side"} /\ key'[m] = key[m]
        <5>1. BeingWritten(p)'
          BY <3>3, <4>1 DEF BeingWritten
        <5> QED  BY <1>0, <1>1, <3>3, <5>1
      <4>2. CASE SideFails(m) \/ Crash
        <5>1. faults' = faults + 1
          BY <4>2, FaultSteps
        <5> QED  BY <1>0, <3>3, <5>1
      <4> QED  BY <1>0, <2>1, <3>3, <4>1, <4>2, WriteGoesOn
    <3> QED  BY <3>1, <3>2, <3>3 DEF LeftByFaults, BeingWritten
  <2>4. CASE body'[p] # body[p]
    <3>1. PICK m \in Models : WriteBody(m) /\ p = <<m, key[m]>>
      BY <1>0, <2>0, <2>4, BodyChanges DEF DiskTypes
    <3>2. ~Resident(p) /\ side[p] # NoSide /\ lock = NoOne /\ pc'[m] = "tokens" /\ key' = key
      BY <1>0, <2>0, <2>2, <3>1 DEF DiskInv, Fresh, NewAt, WriteBody, Goto, DiskTypes
    <3>3. ~BeingUnlinked(p)
      BY <1>0, <3>2, KeyFacts DEF BeingUnlinked, Phases, Phase, Locked
    <3>4. faults >= 1
      BY <3>2, <3>3 DEF LeftByFaults
    <3>5. BeingWritten(p)'
      BY <3>1, <3>2 DEF BeingWritten
    <3> QED  BY <1>0, <1>1, <3>4, <3>5
  <2> QED  BY <2>3, <2>4
<1> QED  BY <1>1, <1>2, <1>3 DEF LeftByFaults, Resident

\* One fault tears no checkpoint: whatever is killed or fails, once, a body has
\* beside it the sidecar of its own write or none, outside of a write.
THEOREM OneFaultTearsNothing ==
  ASSUME MaxFaults <= 1
  PROVE  Spec => []Tidy
<1>1. Init => DiskInv /\ LeftByFaults
  <2> SUFFICES ASSUME Init  PROVE DiskInv /\ LeftByFaults
    OBVIOUS
  <2>1. LeftByFaults
    BY DiskAssumption DEF Init, LeftByFaults, Torn
  <2> QED  BY <2>1, DiskStarts
<1>2. DiskInv /\ LeftByFaults /\ [Next]_vars => (DiskInv /\ LeftByFaults)'
  BY DiskStep, LeftStep
<1>3. DiskInv /\ LeftByFaults => Tidy
  BY DiskAssumption DEF LeftByFaults, Tidy
<1> QED  BY <1>1, <1>2, <1>3, PTL DEF Spec

\* Who is writing a body now has renamed it into place in this step, or before.
LEMMA WhoIsWriting ==
  ASSUME DiskTypes, Phases, [Next]_vars, NEW m \in Models, pc'[m] \in {"tokens", "side"}
  PROVE  \/ WriteBody(m) /\ key'[m] = key[m]
         \/ /\ pc[m] \in {"tokens", "side"} /\ key'[m] = key[m] /\ plan'[m] = plan[m]
            /\ body' = body
<1> USE DEF Goto, diskVars, memVars, writerVars, readerVars, histVars
<1>1. ASSUME NEW n \in Models, Writer(n), n # m
      PROVE  pc'[m] = pc[m] /\ key'[m] = key[m] /\ plan'[m] = plan[m]
  BY <1>1, WriterFrame
<1>2. ASSUME Writer(m)
      PROVE  \/ WriteBody(m) /\ key'[m] = key[m]
             \/ pc[m] \in {"tokens", "side"} /\ key'[m] = key[m] /\ plan'[m] = plan[m]
  BY <1>2 DEF DiskTypes, Writer, WriteBody, WriteSide, BodyFails, WriteTokens, TokensFail, SideFails, Commit, EndPass,
              Skip, Unlink, UnlinkSide, UnlinkTokens
<1>3. ASSUME NEW n \in Models, Reader(n)  PROVE pc'[m] = pc[m] /\ key'[m] = key[m] /\ plan'[m] = plan[m]
  BY <1>3, ReaderKinds DEF DiskTypes, GiveUp, Resolve, Unregister, SetAside, Touch, Forgets, Moves, Serves, Chosen, Reading
<1>4. ASSUME \/ \E n \in Models, k \in Keys : Persist(n, k) \/ Lookup(n, k)
             \/ (\E p \in Paths : Damage(p)) \/ UNCHANGED vars
      PROVE  pc'[m] = pc[m] /\ key'[m] = key[m] /\ plan'[m] = plan[m]
  <2>1. ASSUME NEW n \in Models, NEW k \in Keys, Persist(n, k) \/ Lookup(n, k)
        PROVE  pc'[m] = pc[m] /\ key'[m] = key[m] /\ plan'[m] = plan[m]
    <3>1. pc' = [pc EXCEPT ![n] = "body"] \/ pc' = [pc EXCEPT ![n] = "resolve"]
      BY <2>1 DEF Persist, Lookup
    <3>2. n # m /\ pc'[m] = pc[m]
      BY <3>1 DEF DiskTypes
    <3>3. key' = [key EXCEPT ![n] = k] /\ (plan' = plan \/ plan' = [plan EXCEPT ![n] = PlanFor(k, minted + 1)])
      BY <2>1 DEF Persist, Lookup
    <3> QED  BY <3>2, <3>3 DEF DiskTypes
  <2> QED  BY <1>4, <2>1 DEF Damage, vars
<1>5. ~Crash
  BY DEF Crash
<1>6. CASE WriteBody(m) /\ key'[m] = key[m]
  BY <1>6
<1>7. CASE pc[m] \in {"tokens", "side"} /\ key'[m] = key[m] /\ plan'[m] = plan[m]
  <2>1. lock = m /\ NoOne \notin Models
    BY <1>7, KeyFacts DEF Phases, Phase, Locked
  <2>2. \A n \in Models : ~WriteBody(n) /\ ~SetAside(n)
    BY <2>1 DEF WriteBody, SetAside
  <2>3. \A n \in Models : ~Unlink(n)
    BY <1>7, <2>1 DEF Unlink, Phases, Phase, Locked
  <2>4. body' = body
    BY <2>2, <2>3, BodyChanges
  <2> QED  BY <1>7, <2>4
<1> QED  BY <1>1, <1>2, <1>3, <1>4, <1>5, <1>6, <1>7 DEF Next

LEMMA ContinuesStep ==
  ASSUME DiskInv, Continues, [Next]_vars
  PROVE  Continues'
<1>0. DiskTypes /\ Phases /\ Stamped /\ Fresh
  BY DEF DiskInv
<1>1. ASSUME NEW p \in Paths  PROVE Resident(p)' => p \in ever'
  BY <1>0, ResidentEver DEF Continues
<1>2. ASSUME NEW p \in Paths, body'[p] # NoBody, side'[p].uuid = body'[p].uuid
      PROVE  body'[p].from = Start(side'[p].base)
  <2>1. CASE \E m \in Models : WriteBody(m) /\ p = <<m, key[m]>>
    <3>1. PICK m \in Models : WriteBody(m) /\ p = <<m, key[m]>>
      BY <2>1
    <3>2. side' = side /\ body'[p].uuid = plan[m].uuid
      BY <1>0, <3>1 DEF WriteBody, DiskTypes
    <3>3. side[p].uuid # plan[m].uuid
      BY <1>0, <3>1 DEF Fresh, NewAt, WriteBody
    <3> QED  BY <1>2, <3>2, <3>3
  <2>2. CASE \E m \in Models : WriteSide(m) /\ p = <<m, key[m]>>
    <3>1. PICK m \in Models : WriteSide(m) /\ p = <<m, key[m]>>
      BY <2>2
    <3>2. body' = body /\ side'[p] = plan[m] /\ pc[m] = "side"
      BY <1>0, <3>1 DEF WriteSide, DiskTypes
    <3> QED  BY <3>1, <3>2 DEF Continues
  <2>3. CASE body'[p] = body[p] /\ side'[p] = side[p]
    BY <1>2, <2>3 DEF Continues, Resident
  <2>4. CASE side'[p] = NoSide
    <3>1. CASE body'[p] = body[p]
      BY <1>0, <1>2, <2>4, <3>1 DEF Stamped, Resident, NoSide
    <3>2. CASE body'[p] # body[p]
      BY <1>0, <1>2, <2>1, <3>2, BodyChanges DEF DiskTypes
    <3> QED  BY <3>1, <3>2
  <2>5. body'[p] = body[p] \/ \E m \in Models : WriteBody(m) /\ p = <<m, key[m]>>
    BY <1>0, <1>2, BodyChanges DEF DiskTypes
  <2>6. \/ side'[p] = side[p] \/ side'[p] = NoSide
        \/ \E m \in Models : WriteSide(m) /\ p = <<m, key[m]>>
    BY <1>0, SideSteps DEF DiskTypes
  <2> QED  BY <2>1, <2>2, <2>3, <2>4, <2>5, <2>6
<1>3. ASSUME NEW m \in Models, pc'[m] \in {"tokens", "side"}
      PROVE  body'[<<m, key'[m]>>].from = Start(plan'[m].base)
  <2>1. CASE pc[m] \in {"tokens", "side"} /\ key'[m] = key[m] /\ plan'[m] = plan[m] /\ body' = body
    BY <2>1 DEF Continues
  <2>2. CASE WriteBody(m) /\ key'[m] = key[m]
    <3> DEFINE p == <<m, key[m]>>
               delta == plan[m].base # NoPath /\ ParentResident(plan[m].base, plan[m].baseUuid)
               full == [NoSide EXCEPT !.uuid = plan[m].uuid]
    <3>1. p \in Paths
      BY <1>0, <2>2, KeyFacts DEF Phases, Phase, WriteBody, Writing
    <3>2. full.base = NoPath
      BY DEF NoSide
    <3>3. /\ body' = [body EXCEPT ![p] = [uuid |-> plan[m].uuid, from |-> IF delta THEN Offset(plan[m].base) ELSE 0]]
          /\ plan' = [plan EXCEPT ![m] = IF delta THEN plan[m] ELSE full]
      BY <2>2, Zenon DEF WriteBody
    <3> HIDE DEF full, p
    <3>4. CASE delta
      <4>1. body'[p].from = Offset(plan[m].base) /\ plan'[m] = plan[m] /\ plan[m].base # NoPath
        BY <1>0, <3>1, <3>3, <3>4 DEF DiskTypes
      <4> QED  BY <2>2, <4>1 DEF Start, p
    <3>5. CASE ~delta
      <4>1. body'[p].from = 0 /\ plan'[m] = full
        BY <1>0, <3>1, <3>3, <3>5 DEF DiskTypes
      <4> QED  BY <2>2, <3>2, <4>1 DEF Start, p
    <3> QED  BY <3>4, <3>5
  <2> QED  BY <1>0, <1>3, <2>1, <2>2, WhoIsWriting
<1> QED  BY <1>1, <1>2, <1>3 DEF Continues, Resident

\* A chain starts with the candidate, its front link is read, and its base put
\* in front of it.
LEMMA ChainStarts ==
  ASSUME NEW p
  PROVE  Joined(<<[path |-> p, side |-> NoSide]>>, 2, p)
BY DEF Joined

LEMMA FrontIsRead ==
  ASSUME NEW links \in Seq(ChainLinks), links # <<>>, NEW leaf, Joined(links, 2, leaf), NEW new,
         new.path = links[1].path, Sound(new)
  PROVE  Joined([links EXCEPT ![1] = new], 1, leaf)
<1> DEFINE read == [links EXCEPT ![1] = new]
<1>1. /\ Len(links) \in Nat /\ Len(links) >= 1 /\ Len(read) = Len(links)
      /\ \A i \in 1..Len(links) : read[i] = IF i = 1 THEN new ELSE links[i]
  OBVIOUS
<1>2. \A i \in 1..Len(links) : read[i].path = links[i].path
  BY <1>1
<1> HIDE DEF read
<1>3. read[Len(read)].path = leaf
  BY <1>1, <1>2 DEF Joined
<1>4. ASSUME NEW i \in 1..Len(read) - 1  PROVE read[i + 1].side.base = read[i].path
  <2>1. i + 1 \in 1..Len(links) /\ i + 1 # 1 /\ i \in 1..Len(links)
    BY <1>1
  <2>2. read[i + 1] = links[i + 1] /\ read[i].path = links[i].path
    BY <1>1, <1>2, <2>1
  <2> QED  BY <1>1, <2>2 DEF Joined
<1>5. ASSUME NEW i \in 1..Len(read)  PROVE Sound(read[i])
  <2>1. CASE i = 1
    BY <1>1, <2>1
  <2>2. CASE i # 1
    <3>1. i \in 2..Len(links) /\ read[i] = links[i]
      BY <1>1, <2>2
    <3> QED  BY <3>1 DEF Joined
  <2> QED  BY <2>1, <2>2
<1> QED  BY <1>3, <1>4, <1>5 DEF Joined, read

LEMMA BaseInFront ==
  ASSUME NEW links \in Seq(ChainLinks), links # <<>>, NEW leaf, Joined(links, 1, leaf),
         links[1].side.base \in Paths
  PROVE  Joined(WithBase(links, links[1].side.base), 2, leaf)
<1> DEFINE first == [path |-> links[1].side.base, side |-> NoSide]
           longer == <<first>> \o links
<1>0. first.path = links[1].side.base /\ first \in ChainLinks
  BY RecordFacts DEF ChainLinks
<1> HIDE DEF first
<1>1. /\ Len(links) \in Nat /\ Len(links) >= 1 /\ Len(longer) = Len(links) + 1
      /\ \A i \in 1..Len(longer) : longer[i] = IF i = 1 THEN first ELSE links[i - 1]
  BY <1>0
<1> HIDE DEF longer
<1>2. longer[Len(longer)].path = leaf
  BY <1>1 DEF Joined
<1>3. ASSUME NEW i \in 1..Len(longer) - 1  PROVE longer[i + 1].side.base = longer[i].path
  <2>1. i + 1 \in 1..Len(longer) /\ i + 1 # 1 /\ (i + 1) - 1 = i /\ i \in 1..Len(longer)
    BY <1>1
  <2>2. longer[i + 1] = links[i]
    BY <1>1, <2>1
  <2>3. CASE i = 1
    BY <1>0, <1>1, <2>1, <2>2, <2>3
  <2>4. CASE i # 1
    <3>1. i - 1 \in 1..Len(links) - 1 /\ (i - 1) + 1 = i /\ longer[i] = links[i - 1]
      BY <1>1, <2>4
    <3>2. links[i].side.base = links[i - 1].path
      BY <3>1 DEF Joined
    <3> QED  BY <2>2, <3>1, <3>2
  <2> QED  BY <2>3, <2>4
<1>4. ASSUME NEW i \in 2..Len(longer)  PROVE Sound(longer[i])
  <2>1. longer[i] = links[i - 1] /\ i - 1 \in 1..Len(links)
    BY <1>1
  <2> QED  BY <2>1 DEF Joined
<1> QED  BY <1>2, <1>3, <1>4 DEF Joined, WithBase, longer, first

\* While an engine looks up nobody writes its files, and somebody may remove
\* them.
LEMMA OnlyVanish ==
  ASSUME DiskTypes, Phases, [Next]_vars, NEW m \in Models, pc[m] \in Chosen,
         NEW p \in Paths, ModelOf(p) = m
  PROVE  body'[p] \in {body[p], NoBody} /\ side'[p] \in {side[p], NoSide}
<1>1. ASSUME NEW n \in Models, WriteBody(n) \/ WriteSide(n)  PROVE p # <<n, key[n]>>
  BY <1>1 DEF ModelOf, WriteBody, WriteSide, Chosen, Reading
<1>2. body'[p] \in {body[p], NoBody}
  BY <1>1, BodyChanges DEF DiskTypes
<1>3. side'[p] \in {side[p], NoSide}
  BY <1>1, SideSteps DEF DiskTypes
<1> QED  BY <1>2, <1>3

\* Where a worker stands that looks on, or does not move.
LEMMA FollowsStays ==
  ASSUME DiskTypes, Phases, OwnOnly, [Next]_vars, NEW m \in Models, Follows(m),
         pc'[m] = pc[m], hit'[m] = hit[m], chain'[m] = chain[m], key'[m] = key[m] \/ pc[m] \notin Chosen
  PROVE  Follows(m)'
<1>1. CASE pc[m] \notin Chosen
  BY <1>1 DEF Follows, Chosen, Reading, Linking
<1>2. CASE pc[m] \in Chosen
  <2>1. HitPath(m) \in Paths /\ ModelOf(HitPath(m)) = m
    BY <1>2, KeyFacts DEF Phases, Phase, OwnOnly, OwnWork, HitPath
  <2>2. HitPath(m)' = HitPath(m)
    BY DEF HitPath
  <2>3. pc[m] = "full" => side'[HitPath(m)].base = NoPath
    BY <1>2, <2>1, OnlyVanish DEF Follows, NoSide
  <2>4. ASSUME NEW links, NEW i, ModelOf(links[i].path) = m, links[i].path \in Paths, Sound(links[i])
        PROVE  Sound(links[i])'
    <3>1. body'[links[i].path] \in {body[links[i].path], NoBody}
      BY <1>2, <2>4, OnlyVanish
    <3> QED  BY <2>4, <3>1 DEF Sound, Resident
  <2>5. ASSUME pc[m] \in Linking  PROVE Linked(m)'
    <3> DEFINE links == chain[m]
               first == IF pc[m] = "link" THEN 2 ELSE 1
    <3>1. links \in Seq(ChainLinks) /\ \A i \in DOMAIN links : ModelOf(links[i].path) = m
      BY <2>5 DEF OwnOnly, OwnWork, OwnLinks
    <3>2. ASSUME NEW i \in first..Len(links)  PROVE links[i].path \in Paths /\ ModelOf(links[i].path) = m
      <4>1. i \in DOMAIN links /\ links[i] \in ChainLinks
        BY <3>1
      <4> QED  BY <3>1, <4>1 DEF ChainLinks
    <3>3. Joined(links, first, HitPath(m))
      BY <2>5 DEF Follows, Linked
    <3>4. \A i \in first..Len(links) : Sound(links[i])'
      BY <2>4, <3>2, <3>3 DEF Joined
    <3>5. UNCHANGED <<links, first, HitPath(m)>>
      BY <2>2
    <3>6. Linked(m)' <=> Joined(links, first, HitPath(m))'
      BY <3>5 DEF Linked
    <3> HIDE DEF links, first
    <3> QED  BY <3>3, <3>4, <3>5, <3>6 DEF Joined
  <2> QED  BY <1>2, <2>2, <2>3, <2>5 DEF Follows
<1> QED  BY <1>1, <1>2

\* A sidecar that is read tells where the rows of the body beside it start.
LEMMA SoundWhenRead ==
  ASSUME DiskInv, Downward, Continues, Tidy, NEW m \in Models, pc[m] = "link",
         NEW p \in Paths, ModelOf(p) = m, side[p] # NoSide, NEW link, link.path = p, link.side = side[p]
  PROVE  Sound(link)
<1>1. Below(p, side[p].base)
  BY DEF Downward
<1>2. ASSUME Resident(p)  PROVE body[p].from = Start(side[p].base)
  <2>1. ~BeingWritten(p)
    BY DEF BeingWritten, ModelOf
  <2>2. side[p].uuid = body[p].uuid
    BY <1>2, <2>1 DEF Tidy, Torn
  <2> QED  BY <1>2, <2>2 DEF Continues
<1> QED  BY <1>1, <1>2 DEF Sound

\* The steps of a lookup that go on with its candidate.
LEMMA FollowsMoves ==
  ASSUME DiskInv, OwnOnly, Downward, Continues, Tidy, NEW m \in Models, Follows(m),
         Reader(m), Moves(m)
  PROVE  Follows(m)'
<1> USE DEF Goto
<1>0. DiskTypes /\ Phases /\ pc[m] \in Reading /\ pc[m] \in Chosen /\ DOMAIN chain = Models
  BY DEF DiskInv, Moves, OwnOnly, Chosen
<1>1. /\ key' = key /\ hit' = hit /\ body' = body /\ side' = side /\ pc'[m] \in Reading
      /\ HitPath(m)' = HitPath(m) /\ IsPrefix(hit[m].key, key[m])
  <2>1. UNCHANGED <<key, hit, body, side>> /\ pc'[m] \in Reading
    BY <1>0 DEF Moves, diskVars, DiskTypes
  <2> QED  BY <1>0, <2>1 DEF HitPath, Follows
<1>2. HitPath(m) \in Paths /\ ModelOf(HitPath(m)) = m
  BY <1>0, KeyFacts DEF Phases, Phase, OwnOnly, OwnWork, HitPath
<1>3. \A link : Sound(link) => Sound(link)'
  BY <1>1 DEF Sound, Resident
<1>4. \A links, first, leaf : Joined(links, first, leaf) => Joined(links, first, leaf)'
  BY <1>3 DEF Joined
<1>5. ~SoftEvict(m)
  BY <1>0, <1>1 DEF SoftEvict, Reading, DiskTypes
<1>6. pc[m] \in Linking => OwnLinks(m, chain[m]) /\ Linked(m)
  BY DEF OwnOnly, OwnWork, Follows
<1>7. ~GiveUp(m) /\ ~Resolve(m) /\ ~Quarantine(m) /\ ~Unregister(m) /\ ~SetAside(m) /\ ~Touch(m)
  BY <1>0, <1>1 DEF GiveUp, Resolve, Quarantine, Unregister, SetAside, Touch, Reading, DiskTypes
<1>8. CASE Verify(m)
  <2>1. pc'[m] \in {"load", "quarantine"}
    BY <1>0, <1>5, <1>8 DEF Verify, DiskTypes
  <2> QED  BY <1>1, <2>1 DEF Follows, Linking
<1>9. CASE LoadFull(m)
  <2>1. pc'[m] = "full" /\ side[HitPath(m)].base = NoPath
    BY <1>0, <1>5, <1>9 DEF LoadFull, IsDelta, DiskTypes
  <2> QED  BY <1>1, <2>1 DEF Follows, Linking
<1>10. ~ReadFull(m) /\ ~ReadChain(m)
  <2>1. ASSUME NEW rows  PROVE ~Finish(m, rows)
    BY <1>0, <1>1, <1>5, FinishKinds DEF Serves, DiskTypes, Reading
  <2> QED  BY <1>5, <2>1 DEF ReadFull, ReadChain
<1>11. CASE LoadChain(m)
  <2>1. chain'[m] = <<[path |-> HitPath(m), side |-> NoSide]>> /\ pc'[m] = "link"
    BY <1>0, <1>11 DEF LoadChain, DiskTypes
  <2>2. Linked(m)'
    BY <1>1, <1>4, <2>1, ChainStarts DEF Linked
  <2> QED  BY <1>1, <2>1, <2>2 DEF Follows
<1>12. CASE ReadSide(m)
  <2> DEFINE links == chain[m]
             p == links[1].path
             new == [links[1] EXCEPT !.side = side[p]]
  <2>1. pc[m] = "link" /\ Joined(links, 2, HitPath(m)) /\ OwnLinks(m, links)
    BY <1>6, <1>12 DEF ReadSide, Linked, Linking
  <2>2. links \in Seq(ChainLinks) /\ links # <<>> /\ Head(links) = links[1] /\ 1 \in DOMAIN links
    BY <2>1 DEF OwnLinks
  <2>3. links[1] \in ChainLinks /\ p \in Paths /\ ModelOf(p) = m
    <3>1. links[1] \in ChainLinks
      BY <2>2
    <3> QED  BY <2>1, <2>2, <3>1 DEF OwnLinks, ChainLinks
  <2>4. new.path = p /\ new.side = side[p]
    BY <2>3 DEF ChainLinks
  <2>5. side[p] # NoSide /\ pc'[m] = "blob" /\ chain' = [chain EXCEPT ![m][1].side = side[p]]
    BY <1>0, <1>5, <1>12, <2>2 DEF ReadSide, DiskTypes
  <2>6. chain'[m] = [links EXCEPT ![1] = new]
    BY <1>0, <2>5
  <2>7. Sound(new)
    BY <2>1, <2>3, <2>4, <2>5, SoundWhenRead
  <2> HIDE DEF new
  <2>8. Joined(chain'[m], 1, HitPath(m))
    BY <2>1, <2>2, <2>4, <2>6, <2>7, FrontIsRead
  <2>9. Linked(m)'
    BY <1>1, <1>4, <2>5, <2>8 DEF Linked
  <2> QED  BY <1>1, <2>5, <2>9 DEF Follows
<1>13. CASE ReadLink(m)
  <2> DEFINE links == chain[m]
             base == links[1].side.base
  <2>1. pc[m] = "blob" /\ Joined(links, 1, HitPath(m)) /\ OwnLinks(m, links)
    BY <1>6, <1>13 DEF ReadLink, Linked, Linking
  <2>2. links \in Seq(ChainLinks) /\ links # <<>> /\ Head(links) = links[1] /\ 1 \in DOMAIN links
    BY <2>1 DEF OwnLinks
  <2>3. \/ base = NoPath /\ pc'[m] = "pin" /\ chain' = chain
        \/ base # NoPath /\ pc'[m] = "link" /\ chain'[m] = WithBase(links, base)
    BY <1>0, <1>5, <1>13, <2>2 DEF ReadLink, DiskTypes
  <2>4. CASE base = NoPath /\ pc'[m] = "pin" /\ chain' = chain
    <3>1. Linked(m)'
      BY <1>1, <1>4, <2>1, <2>4 DEF Linked
    <3> QED  BY <1>1, <2>4, <3>1 DEF Follows
  <2>5. CASE base # NoPath /\ pc'[m] = "link" /\ chain'[m] = WithBase(links, base)
    <3>1. base \in Paths
      BY <2>1, <2>2, <2>5 DEF OwnLinks, BaseIn
    <3>2. Joined(chain'[m], 2, HitPath(m))
      BY <2>1, <2>2, <2>5, <3>1, BaseInFront
    <3>3. Linked(m)'
      BY <1>1, <1>4, <2>5, <3>2 DEF Linked
    <3> QED  BY <1>1, <2>5, <3>3 DEF Follows
  <2> QED  BY <2>3, <2>4, <2>5
<1>14. CASE Pin(m)
  <2>1. pc[m] = "pin" /\ pc'[m] = "read" /\ chain' = chain
    BY <1>0, <1>5, <1>14 DEF Pin, readerVars, DiskTypes
  <2>2. Joined(chain[m], 1, HitPath(m)) /\ chain[m][1].side.base = NoPath
    BY <1>6, <2>1 DEF Linked, Linking, Follows
  <2>3. Linked(m)'
    BY <1>1, <1>4, <2>1, <2>2 DEF Linked
  <2> QED  BY <1>1, <2>1, <2>2, <2>3 DEF Follows
<1> QED  BY <1>7, <1>8, <1>9, <1>10, <1>11, <1>12, <1>13, <1>14 DEF Reader

LEMMA FollowsReader ==
  ASSUME DiskInv, OwnOnly, Downward, Continues, Tidy, NEW m \in Models, Follows(m), Reader(m)
  PROVE  Follows(m)'
<1> USE DEF Goto
<1>0. DiskTypes /\ Phases
  BY DEF DiskInv
<1>1. CASE Resolve(m)
  <2> DEFINE k == Longest(Candidates(m))
  <2>1. IsPrefix(k, key[m])
    <3>1. key[m] \in Keys /\ Candidates(m) # {}
      BY <1>0, <1>1, KeyFacts DEF Resolve, Phases, Phase
    <3> QED  BY <3>1, ResolvesToCandidate
  <2>2. hit'[m].key = k /\ pc'[m] = "verify" /\ key' = key
    BY <1>0, <1>1 DEF Resolve, DiskTypes
  <2> HIDE DEF k
  <2> QED  BY <2>1, <2>2 DEF Follows, Linking
<1>2. CASE GiveUp(m) \/ Unregister(m) \/ SetAside(m) \/ Touch(m) \/ Forgets(m) \/ Serves(m)
  <2>1. /\ pc'[m] \in {"idle", "resolve", "unregister", "aside", "touch"} /\ key' = key
        /\ ~Resolve(m) \/ pc'[m] \notin Chosen
    BY <1>0, <1>2 DEF GiveUp, Unregister, SetAside, Touch, Forgets, Serves, DiskTypes, Resolve, Chosen, Reading
  <2>2. CASE pc'[m] \in Chosen
    <3>1. pc[m] \in Chosen /\ hit' = hit
      BY <1>0, <2>1, <2>2, StillChosen DEF DiskTypes
    <3>2. pc'[m] \notin Linking /\ pc'[m] # "full"
      BY <2>1 DEF Linking
    <3> QED  BY <2>1, <3>1, <3>2 DEF Follows, Linking
  <2>3. CASE pc'[m] \notin Chosen
    BY <2>3 DEF Follows, Chosen, Reading, Linking
  <2> QED  BY <2>2, <2>3
<1> QED  BY <1>1, <1>2, FollowsMoves, ReaderKinds

\* What the other engines and the writers do leaves it alone.
LEMMA FollowsStep ==
  ASSUME DiskInv, OwnOnly, Downward, Continues, Tidy, AllFollow, [Next]_vars
  PROVE  AllFollow'
<1> USE DEF Goto, diskVars, memVars, writerVars, readerVars, histVars
<1> SUFFICES ASSUME NEW m \in Models  PROVE Follows(m)'
  BY DEF AllFollow
<1>0. DiskTypes /\ Phases /\ Follows(m)
  BY DEF DiskInv, AllFollow
<1>1. CASE Reader(m)
  BY <1>0, <1>1, FollowsReader
<1>2. CASE pc'[m] \notin Chosen
  BY <1>2 DEF Follows, Chosen, Reading, Linking
<1>3. CASE pc'[m] \in Chosen /\ ~Reader(m)
  <2>1. ASSUME NEW n \in Models, Writer(n)
        PROVE  pc'[m] = pc[m] /\ hit'[m] = hit[m] /\ chain'[m] = chain[m] /\ key'[m] = key[m]
    <3>1. chain' = chain /\ key' = key /\ hit' = hit
      BY <2>1 DEF Writer, WriteBody, BodyFails, WriteTokens, TokensFail, WriteSide, SideFails, Commit, EndPass,
                  Skip, Unlink, UnlinkSide, UnlinkTokens
    <3>2. n # m
      <4> SUFFICES ASSUME Writer(m)  PROVE pc'[m] \notin Chosen
        BY <1>3, <2>1
      <4> QED  BY <1>0, ZenonT(30) DEF Writer, WriteBody, BodyFails, WriteTokens, TokensFail, WriteSide, SideFails, Commit,
              EndPass, Skip, Unlink, UnlinkSide, UnlinkTokens, Chosen, Reading, DiskTypes
    <3> QED  BY <1>0, <2>1, <3>1, <3>2, WriterFrame
  <2>2. ASSUME NEW n \in Models, Reader(n)
        PROVE  pc'[m] = pc[m] /\ hit'[m] = hit[m] /\ chain'[m] = chain[m] /\ key'[m] = key[m]
    <3>1. key' = key
      BY <2>2, ReaderKinds DEF GiveUp, Resolve, Unregister, SetAside, Touch, Forgets, Moves, Serves
    <3> QED  BY <1>0, <1>3, <2>2, <3>1, ReaderFrame
  <2>3. ASSUME NEW n \in Models, NEW k \in Keys, Persist(n, k) \/ Lookup(n, k)
        PROVE  pc'[m] = pc[m] /\ hit'[m] = hit[m] /\ chain'[m] = chain[m] /\ key'[m] = key[m]
    <3>1. pc' = [pc EXCEPT ![n] = "body"] \/ pc' = [pc EXCEPT ![n] = "resolve"]
      BY <2>3 DEF Persist, Lookup
    <3>2. n # m /\ pc'[m] = pc[m]
      BY <1>0, <1>3, <3>1 DEF DiskTypes, Chosen, Reading
    <3>3. key' = [key EXCEPT ![n] = k] /\ hit' = hit /\ chain' = chain
      BY <2>3 DEF Persist, Lookup
    <3> QED  BY <1>0, <3>2, <3>3 DEF DiskTypes
  <2>4. ~Crash
    BY <1>3 DEF Crash, Chosen, Reading
  <2>5. CASE (\E p \in Paths : Damage(p)) \/ UNCHANGED vars
    <3>1. pc' = pc /\ hit' = hit /\ chain' = chain /\ key' = key
      BY <2>5 DEF Damage, vars
    <3> QED  BY <1>0, <3>1, FollowsStays
  <2> QED  BY <1>0, <2>1, <2>2, <2>3, <2>4, <2>5, FollowsStays DEF Next
<1> QED  BY <1>1, <1>2, <1>3

\* The rows 1 to a, and those after them to b, are the rows 1 to b.
RowsTo(m, n) == [i \in 1..n |-> <<m, i>>]

LEMMA RowsType ==
  ASSUME NEW m \in Models, NEW a \in Nat, NEW d \in Nat
  PROVE  [i \in 1..d |-> <<m, a + i>>] \in Seq(Models \X Nat)
<1>1. \A i \in 1..d : <<m, a + i>> \in Models \X Nat
  OBVIOUS
<1> QED  BY <1>1

LEMMA RowsJoin ==
  ASSUME NEW m \in Models, NEW a \in Nat, NEW b \in Nat, a <= b
  PROVE  RowsTo(m, a) \o [i \in 1..(b - a) |-> <<m, a + i>>] = RowsTo(m, b)
<1> DEFINE left == RowsTo(m, a)
           right == [i \in 1..(b - a) |-> <<m, a + i>>]
           both == left \o right
<1>1. b - a \in Nat
  OBVIOUS
<1>2. left \in Seq(Models \X Nat) /\ Len(left) = a /\ \A i \in 1..a : left[i] = <<m, i>>
  BY DEF RowsTo
<1>3. right \in Seq(Models \X Nat) /\ Len(right) = b - a /\ \A i \in 1..(b - a) : right[i] = <<m, a + i>>
  BY <1>1
<1> HIDE DEF left, right
<1>4. /\ both \in Seq(Models \X Nat) /\ Len(both) = a + (b - a)
      /\ \A i \in 1..(a + (b - a)) : both[i] = IF i <= a THEN left[i] ELSE right[i - a]
  <2>1. /\ both \in Seq(Models \X Nat) /\ Len(both) = Len(left) + Len(right)
        /\ \A i \in 1..Len(left) + Len(right) :
             both[i] = IF i <= Len(left) THEN left[i] ELSE right[i - Len(left)]
    BY <1>2, <1>3, ConcatProperties
  <2> HIDE DEF both
  <2> QED  BY <1>2, <1>3, <2>1
<1>5. a + (b - a) = b
  OBVIOUS
<1> HIDE DEF both
<1>6. \A i \in 1..b : both[i] = <<m, i>>
  <2> SUFFICES ASSUME NEW i \in 1..b  PROVE both[i] = <<m, i>>
    OBVIOUS
  <2>1. CASE i <= a
    BY <1>2, <1>4, <1>5, <2>1
  <2>2. CASE ~(i <= a)
    <3>1. i - a \in 1..(b - a) /\ a + (i - a) = i
      BY <2>2
    <3> QED  BY <1>3, <1>4, <1>5, <2>2, <3>1
  <2> QED  BY <2>1, <2>2
<1>7. both = [i \in 1..b |-> <<m, i>>]
  <2>1. DOMAIN both = 1..b
    BY <1>4, <1>5
  <2>2. both = [i \in DOMAIN both |-> both[i]]
    BY <1>4
  <2> QED  BY <1>6, <2>1, <2>2
<1> QED  BY <1>7 DEF both, RowsTo

\* The bodies of a chain whose links are all there add up to the rows of the
\* candidate: by climbing from the root, link by link.
LEMMA ChainAddsUp ==
  ASSUME DiskTypes, NEW m \in Models, NEW links, OwnLinks(m, links), NEW leaf, Joined(links, 1, leaf),
         links[1].side.base = NoPath, \A i \in DOMAIN links : Resident(links[i].path)
  PROVE  Assembled(links) = RowsTo(m, Offset(leaf))
<1> DEFINE N == Len(links)
           ends == [n \in 0..N |-> IF n = 0 THEN 0 ELSE Offset(links[n].path)]
           bodies == [i \in 1..N |-> BodyRows(links[i].path)]
           Row == Models \X Nat
<1>1. links \in Seq(ChainLinks) /\ N \in Nat /\ N >= 1 /\ DOMAIN links = 1..N
  BY DEF OwnLinks
<1>2. ASSUME NEW i \in 1..N
      PROVE  /\ links[i].path \in Paths /\ ModelOf(links[i].path) = m
             /\ Offset(links[i].path) \in Nat /\ Resident(links[i].path)
  <2>1. links[i] \in ChainLinks
    BY <1>1
  <2>2. links[i].path \in Paths /\ ModelOf(links[i].path) = m
    BY <1>1, <2>1 DEF OwnLinks, ChainLinks
  <2>3. Len(KeyOf(links[i].path)) \in Nat
    BY <2>2, KeyFacts
  <2> QED  BY <1>1, <2>2, <2>3 DEF Offset, KeyOf
<1>3. ASSUME NEW i \in 1..N
      PROVE  /\ ends[i - 1] \in Nat /\ ends[i] = Offset(links[i].path) /\ ends[i] \in Nat
             /\ ends[i - 1] <= ends[i]
             /\ body[links[i].path].from = ends[i - 1]
  <2>1. i \in 0..N /\ i - 1 \in 0..N /\ i # 0 /\ ends[i] = Offset(links[i].path) /\ ends[i] \in Nat
    BY <1>1, <1>2
  <2>2. Sound(links[i])
    BY <1>1 DEF Joined
  <2>3. body[links[i].path].from = Start(links[i].side.base)
    BY <1>2, <2>2 DEF Sound
  <2>4. CASE i = 1
    <3>1. ends[i - 1] = 0
      BY <1>1, <2>4
    <3>2. Start(links[i].side.base) = 0
      BY <2>4 DEF Start
    <3> HIDE DEF ends
    <3> QED  BY <2>1, <2>3, <3>1, <3>2
  <2>5. CASE i # 1
    <3>1. i - 1 \in 1..N /\ i - 1 \in 1..N - 1 /\ (i - 1) + 1 = i
      BY <1>1, <2>5
    <3>2. links[i].side.base = links[i - 1].path
      BY <3>1 DEF Joined
    <3>3. links[i - 1].path \in Paths /\ Offset(links[i - 1].path) \in Nat
      BY <1>2, <3>1
    <3>4. links[i].side.base # NoPath
      <4>1. links[i - 1].path = <<ModelOf(links[i - 1].path), KeyOf(links[i - 1].path)>>
        BY <3>3, KeyFacts
      <4>2. \A x, y : <<x, y>> # NoPath
        BY DEF NoPath
      <4> QED  BY <3>2, <4>1, <4>2
    <3>5. ends[i - 1] = Offset(links[i - 1].path)
      BY <2>1, <3>1
    <3>6. Offset(links[i - 1].path) < Offset(links[i].path)
      BY <2>2, <3>2, <3>4 DEF Sound, Below
    <3>7. Start(links[i].side.base) = Offset(links[i - 1].path)
      BY <3>2, <3>4 DEF Start
    <3> HIDE DEF ends
    <3> QED  BY <2>1, <2>3, <3>3, <3>5, <3>6, <3>7
  <2> QED  BY <2>4, <2>5
<1>4. ends[0] = 0 /\ ends[N] = Offset(leaf)
  <2>1. 0 \in 0..N /\ N \in 0..N /\ N # 0
    BY <1>1
  <2> QED  BY <2>1 DEF Joined
<1> HIDE DEF ends
<1>5. ASSUME NEW i \in 1..N
      PROVE  BodyRows(links[i].path) = [j \in 1..(ends[i] - ends[i - 1]) |-> <<m, ends[i - 1] + j>>]
  BY <1>2, <1>3 DEF BodyRows
<1>6. ASSUME NEW i \in 1..N  PROVE BodyRows(links[i].path) \in Seq(Row)
  <2>1. ends[i] - ends[i - 1] \in Nat /\ ends[i - 1] \in Nat
    BY <1>3
  <2>2. [j \in 1..(ends[i] - ends[i - 1]) |-> <<m, ends[i - 1] + j>>] \in Seq(Row)
    BY <2>1, RowsType
  <2> QED  BY <1>5, <2>2
<1>7. bodies \in Seq(Seq(Row)) /\ Len(bodies) = N /\ \A i \in 1..N : bodies[i] = BodyRows(links[i].path)
  BY <1>1, <1>6
<1>8. Assembled(links) = FlattenSeq(bodies)
  BY DEF Assembled
<1> HIDE DEF bodies, Row
<1>9. PICK f \in [0..N -> Seq(Row)] :
        /\ f[0] = <<>> /\ FlattenSeq(bodies) = f[N]
        /\ \A n \in 1..N : f[n] = f[n - 1] \o bodies[n]
  <2>1. \E f \in [0..Len(bodies) -> Seq(Row)] :
          /\ f[0] = <<>> /\ FlattenSeq(bodies) = f[Len(bodies)]
          /\ \A n \in 1..Len(bodies) : f[n] = f[n - 1] \o bodies[n]
    BY <1>7, FlattenFacts, Zenon
  <2> QED  BY <1>7, <2>1, Zenon
<1> DEFINE T == {n \in 0..N : f[n] = RowsTo(m, ends[n])}
<1>10. 0 \in T
  <2>1. RowsTo(m, 0) = <<>>
    BY DEF RowsTo
  <2> QED  BY <1>1, <1>4, <1>9, <2>1
<1>11. ASSUME NEW n \in 0..N, n \in T, n < N  PROVE n + 1 \in T
  <2>1. n + 1 \in 1..N /\ n + 1 \in 0..N /\ (n + 1) - 1 = n
    BY <1>1, <1>11
  <2>2. f[n] = RowsTo(m, ends[n]) /\ f[n + 1] = f[n] \o bodies[n + 1]
    BY <1>9, <1>11, <2>1
  <2>3. bodies[n + 1] = [j \in 1..(ends[n + 1] - ends[n]) |-> <<m, ends[n] + j>>]
    BY <1>5, <1>7, <2>1
  <2>4. ends[n] \in Nat /\ ends[n + 1] \in Nat /\ ends[n] <= ends[n + 1]
    BY <1>3, <2>1
  <2>5. f[n + 1] = RowsTo(m, ends[n + 1])
    BY <2>2, <2>3, <2>4, RowsJoin, ZenonT(30)
  <2> QED  BY <2>1, <2>5
<1>12. N \in T
  <2>1. T \in SUBSET (0..N) /\ N \in 0..N
    BY <1>1
  <2> HIDE DEF T
  <2> QED  BY <1>1, <1>10, <1>11, <2>1, Climb
<1> QED  BY <1>4, <1>8, <1>9, <1>12

-----------------------------------------------------------------------------
\* What a lookup hands over that ends in this step.
LEMMA HandsOverFull ==
  ASSUME DiskInv, OwnOnly, Continues, NEW m \in Models, Follows(m), ReadFull(m), served' # served
  PROVE  Store!Hit(m)
<1> DEFINE p == HitPath(m)
           k == hit[m].key
<1>0. DiskTypes /\ Phases /\ Stamped /\ pc[m] \in Chosen /\ pc[m] \in Reading /\ pc[m] = "full"
  BY DEF DiskInv, ReadFull, Chosen, Reading
<1>1. p = <<m, k>> /\ p \in Paths /\ Len(k) \in Nat /\ Offset(p) = Len(k) /\ ModelOf(p) = m
  <2>1. k \in Keys /\ hit[m].ref.model = m
    BY <1>0 DEF Phases, Phase, OwnOnly, OwnWork
  <2> QED  BY <2>1, KeyFacts DEF HitPath, Offset, ModelOf
<1>2. ~SoftEvict(m)
  BY DEF SoftEvict, readerVars
<1>3. side[p] # NoSide /\ body[p].uuid = side[p].uuid /\ Finish(m, BodyRows(p))
  BY <1>2 DEF ReadFull
<1>4. side[p].base = NoPath /\ IsPrefix(k, key[m])
  BY <1>0 DEF Follows
<1>5. Resident(p)
  <2>1. side[p].uuid # 0
    BY <1>0, <1>1, <1>3 DEF Stamped
  <2> QED  BY <1>3, <2>1 DEF Resident, NoBody
<1>6. p \in ever /\ body[p].from = 0
  BY <1>1, <1>3, <1>4, <1>5 DEF Continues, Start
<1>7. BodyRows(p) = Store!Rows(m, k)
  <2>1. BodyRows(p) = [i \in 1..(Len(k) - 0) |-> <<m, 0 + i>>]
    BY <1>1, <1>6 DEF BodyRows
  <2>2. 1..(Len(k) - 0) = 1..Len(k) /\ \A i \in 1..Len(k) : 0 + i = i
    BY <1>1
  <2> QED  BY <2>1, <2>2 DEF Store!Rows
<1> QED  BY <1>0, <1>3, <1>4, <1>6, <1>7, HandsOver

LEMMA HandsOverChain ==
  ASSUME DiskInv, OwnOnly, Continues, NEW m \in Models, Follows(m), ReadChain(m), served' # served
  PROVE  Store!Hit(m)
<1> DEFINE p == HitPath(m)
           k == hit[m].key
           links == chain[m]
<1>0. DiskTypes /\ Phases /\ pc[m] \in Chosen /\ pc[m] \in Reading /\ pc[m] = "read" /\ IsPrefix(k, key[m])
  BY DEF DiskInv, ReadChain, Chosen, Reading, Follows
<1>1. p = <<m, k>> /\ Offset(p) = Len(k)
  <2>1. hit[m].ref.model = m
    BY <1>0 DEF OwnOnly, OwnWork
  <2> QED  BY <2>1 DEF HitPath, Offset
<1>2. ~SoftEvict(m)
  BY DEF SoftEvict, readerVars
<1>3. Links(m) \subseteq Residents /\ Finish(m, Assembled(links))
  BY <1>2 DEF ReadChain
<1>4. OwnLinks(m, links) /\ Joined(links, 1, p) /\ links[1].side.base = NoPath
  BY <1>0 DEF OwnOnly, OwnWork, Linking, Follows, Linked
<1>5. \A i \in DOMAIN links : links[i].path \in Residents
  BY <1>3 DEF Links
<1>6. Assembled(links) = Store!Rows(m, k)
  <2>1. Assembled(links) = RowsTo(m, Offset(p))
    BY <1>0, <1>4, <1>5, ChainAddsUp DEF Residents
  <2> QED  BY <1>1, <2>1 DEF RowsTo, Store!Rows
<1>7. p \in ever
  <2>1. links # <<>> /\ links \in Seq(ChainLinks) /\ links[Len(links)].path = p
    BY <1>4 DEF OwnLinks, Joined
  <2>2. p \in Residents
    BY <1>5, <2>1
  <2> QED  BY <2>2 DEF Residents, Continues
<1> QED  BY <1>0, <1>3, <1>6, <1>7, HandsOver

\* Between models that share no prompt, deltas implement the store as well, as
\* long as no checkpoint is torn: whatever is evicted while a chain is read,
\* killed, or damaged, the bodies of the chain's links, taken from files that
\* were each read at a time of its own, are the rows of the request's model for
\* a prefix of its prompt.
THEOREM DeltaStoreKept ==
  ASSUME Apart
  PROVE  Spec /\ []Tidy => StoreSpec
<1> DEFINE Inv == DiskInv /\ OwnOnly /\ Downward /\ Continues /\ AllFollow
<1>1. Init => Inv /\ Store!Init
  <2> SUFFICES ASSUME Init  PROVE Inv /\ Store!Init
    OBVIOUS
  <2>1. \A m \in Models : pc[m] = "idle"
    BY DEF Init
  <2>2. OwnOnly
    <3>1. OwnFiles
      BY DEF Init, OwnFiles, Resident, Indexed, BaseIn, NoSide
    <3>2. DOMAIN chain = Models
      BY DEF Init
    <3> QED  BY <2>1, <3>1, <3>2 DEF OwnOnly, OwnWork, Writing, Chosen, Reading, Linking
  <2>3. Downward
    BY <2>1 DEF Init, Downward, Below, NoSide, Writing
  <2>4. Continues
    BY <2>1 DEF Init, Continues, Resident
  <2>5. AllFollow
    BY <2>1 DEF AllFollow, Follows, Chosen, Reading, Linking
  <2>6. Store!Init
    BY DEF Init, Store!Init
  <2> QED  BY <2>2, <2>3, <2>4, <2>5, <2>6, DiskStarts
<1>2. Inv /\ Tidy /\ [Next]_vars => Inv' /\ [Store!Next]_<<ever, served>>
  <2> SUFFICES ASSUME Inv, Tidy, [Next]_vars  PROVE Inv' /\ [Store!Next]_<<ever, served>>
    OBVIOUS
  <2>1. DiskTypes /\ Listed /\ Phases /\ Separate
    BY DEF DiskInv, Separate
  <2>2. DiskInv' /\ OwnOnly' /\ Downward' /\ Continues' /\ AllFollow'
    BY <2>1, DiskStep, OwnOnlyStep, DownwardStep, ContinuesStep, FollowsStep
  <2>3. \A m \in Models : (ReadFull(m) \/ ReadChain(m)) /\ served' # served => Store!Hit(m)
    BY HandsOverFull, HandsOverChain DEF AllFollow
  <2>4. [Store!Next]_<<ever, served>>
    BY <2>1, <2>3, StoreStep
  <2> QED  BY <2>2, <2>4
<1> QED  BY <1>1, <1>2, PTL DEF Spec, StoreSpec, Store!Spec

\* One fault is not enough to break it; two are (see the run DiskTorn).
THEOREM DeltaStoreSurvivesAFault ==
  ASSUME Apart, MaxFaults <= 1
  PROVE  Spec => StoreSpec
BY DeltaStoreKept, OneFaultTearsNothing, PTL
=============================================================================
