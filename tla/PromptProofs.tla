---------------------------- MODULE PromptProofs ----------------------------
(***************************************************************************)
(* Theorems about PromptCache.  The blocks of the paged tier are counted   *)
(* as often as the tables say, and from that: nobody overwrites a block    *)
(* that is in a table, or pinned.  In the trie, what is pinned stays, and  *)
(* every entry holds the rows of its key and no others.                    *)
(***************************************************************************)
EXTENDS PromptCache, SequenceLemmas

-----------------------------------------------------------------------------
(* Blocks in tables.                                                        *)

\* The allocated blocks of a list: the recursion has a solution, and it climbs.
LEMMA LiveFacts ==
  ASSUME NEW ids \in Seq(Blocks)
  PROVE  Live(ids) \in Seq(Blocks) /\ ToSet(Live(ids)) \subseteq alloc
<1> DEFINE N == Len(ids)
           S == {q \in Seq(Blocks) : ToSet(q) \subseteq alloc}
           With1(q, n) == IF ids[n] \in alloc THEN Append(q, ids[n]) ELSE q
           step == [x \in (1..N) \X S |-> With1(x[2], x[1])]
           Def(f) == [n \in 0..N |-> IF n = 0 THEN <<>> ELSE With1(f[n - 1], n)]
           live == CHOOSE f : f = Def(f)
<1>1. N \in Nat /\ \A n \in 1..N : ids[n] \in Blocks
  OBVIOUS
<1>2. <<>> \in S
  BY DEF ToSet
<1>3. ASSUME NEW q \in S, NEW n \in 1..N  PROVE With1(q, n) \in S
  <2>1. q \in Seq(Blocks) /\ ids[n] \in Blocks
    BY <1>1
  <2>2. /\ Append(q, ids[n]) \in Seq(Blocks)
        /\ ToSet(Append(q, ids[n])) = ToSet(q) \cup {ids[n]}
    BY <2>1, ToSetAppend
  <2> QED  BY <2>2
<1> HIDE DEF S, With1
<1>4. step \in [(1..N) \X S -> S] /\ \A n \in 1..N, q \in S : step[<<n, q>>] = With1(q, n)
  BY <1>3
<1> HIDE DEF step
<1>5. PICK g : Recurs(g, N, S, <<>>, step)
  <2> HIDE DEF N
  <2> QED  BY <1>1, <1>2, <1>4, Recursion
<1>6. g \in [0..N -> S] /\ \A n \in 0..N : g[n] = IF n = 0 THEN <<>> ELSE With1(g[n - 1], n)
  <2>1. ASSUME NEW n \in 1..N  PROVE g[n] = With1(g[n - 1], n)
    <3>1. n - 1 \in 0..N /\ g \in [0..N -> S] /\ g[n] = step[<<n, g[n - 1]>>]
      BY <1>1, <1>5 DEF Recurs
    <3> QED  BY <1>4, <3>1
  <2>2. \A n \in 0..N : n = 0 \/ n \in 1..N
    BY <1>1
  <2> QED  BY <1>5, <2>1, <2>2 DEF Recurs
<1>7. g = Def(g)
  BY <1>6
<1>8. live = Def(live)
  <2> HIDE DEF Def
  <2> QED  BY <1>7
<1>9. Live(ids) = live[N]
  BY DEF Live, With1
<1>10. \A n \in 0..N : live[n] = IF n = 0 THEN <<>> ELSE With1(live[n - 1], n)
  <2> HIDE DEF live
  <2> QED  BY <1>8
<1> HIDE DEF live
<1> DEFINE T == {n \in 0..N : live[n] \in S}
<1>11. ASSUME NEW n \in 0..N, n \in T, n < N  PROVE n + 1 \in T
  <2>1. n + 1 \in 1..N /\ n + 1 \in 0..N /\ (n + 1) - 1 = n /\ n + 1 # 0
    BY <1>1, <1>11
  <2>2. live[n + 1] = With1(live[n], n + 1)
    BY <1>10, <2>1
  <2> QED  BY <1>3, <1>11, <2>1, <2>2
<1>12. N \in T
  <2>1. T \in SUBSET (0..N) /\ 0 \in T /\ N \in 0..N
    BY <1>1, <1>2, <1>10
  <2> HIDE DEF T, N
  <2> QED  BY <1>1, <1>11, <2>1, Climb
<1> QED  BY <1>9, <1>12 DEF S

\* The variables have their types, and the queue has every free block once.
PagedTypes ==
  /\ data = [b \in Blocks |-> data[b]]
  /\ fixed \subseteq Blocks /\ alloc \subseteq Blocks
  /\ queue \in Seq(Blocks) /\ IsInjective(queue) /\ ToSet(queue) = Blocks \ alloc
  /\ \A c \in DOMAIN hashTo : hashTo[c] \in Blocks
  /\ \A p \in DOMAIN pindex : pindex[p] \in Seq(Blocks)

\* What a new block may be: a free one that is not pinned.
LEMMA CandidateFacts ==
  ASSUME PagedTypes, NEW b \in Candidates
  PROVE  b \in Blocks /\ b \notin alloc /\ b \notin fixed /\ b \in ToSet(queue)
<1>1. PICK i \in DOMAIN queue : b = queue[i] /\ queue[i] \notin fixed
  BY DEF Candidates
<1>2. b \in ToSet(queue)
  BY <1>1 DEF ToSet
<1> QED  BY <1>1, <1>2 DEF PagedTypes

\* find_shared_prefix returns allocated blocks.
LEMMA SharedFacts ==
  ASSUME PagedTypes, NEW t \in Seq(Nat)
  PROVE  SharedPrefix(t) \in Seq(Blocks)
<1> DEFINE D == Len(t) \div BlockSize
           Ends(i) == /\ \A j \in 1..i : CachedBlock(Chunk(t, j)) # {}
                      /\ i < D => CachedBlock(Chunk(t, i + 1)) = {}
           n == CHOOSE i \in 0..D : Ends(i)
<1>1. D \in Nat
  BY PagedAssumption
<1>2. \E i \in 0..D : Ends(i)
  <2> DEFINE T == {i \in 0..D : i = D \/ CachedBlock(Chunk(t, i + 1)) = {}}
  <2>1. T \in SUBSET Nat /\ D \in T
    BY <1>1
  <2>2. PICK i \in T : \A y \in T : i <= y
    <3> HIDE DEF T
    <3> QED  BY <2>1, NonemptyHasMin
  <2>3. i \in 0..D /\ (i < D => CachedBlock(Chunk(t, i + 1)) = {})
    BY <1>1, <2>2
  <2>4. ASSUME NEW j \in 1..i  PROVE CachedBlock(Chunk(t, j)) # {}
    <3>1. j - 1 \in 0..D /\ j - 1 # D /\ ~(i <= j - 1) /\ (j - 1) + 1 = j
      BY <1>1, <2>3
    <3>2. j - 1 \notin T
      <4> HIDE DEF T
      <4> QED  BY <2>2, <3>1
    <3> QED  BY <3>1, <3>2
  <2> QED  BY <2>3, <2>4
<1>3. n \in 0..D /\ Ends(n)
  <2> HIDE DEF Ends, D
  <2> QED  BY <1>2
<1>4. SharedPrefix(t) = [i \in 1..n |-> hashTo[Chunk(t, i)]]
  BY DEF SharedPrefix
<1>5. \A i \in 1..n : hashTo[Chunk(t, i)] \in Blocks
  BY <1>3 DEF CachedBlock, PagedTypes
<1> HIDE DEF n
<1> QED  BY <1>1, <1>3, <1>4, <1>5

\* What a lookup hands over: allocated blocks only.
LEMMA ServesFacts ==
  ASSUME PagedTypes, NEW t \in Seq(Nat)
  PROVE  LET s == PagedServes(t)
         IN  /\ s.table = Table(s.table.ids, s.table.num)
             /\ s.table.ids \in Seq(Blocks) /\ ToSet(s.table.ids) \subseteq alloc
             /\ ~s.found => s.table.ids = <<>>
<1> DEFINE shared == SharedPrefix(t)
           match == BestMatch(t)
           num(ids) == TokenCount(ids)
           hit(ids, n) ==
             [found |-> TRUE, table |-> Table(Live(ids), num(Live(ids))), kv |-> Reconstructed(Live(ids)),
              rest |-> IF Reconstructed(Live(ids)) # <<>> THEN SubSeq(t, n + 1, Len(t)) ELSE t]
           miss == [found |-> FALSE, table |-> Table(<<>>, 0), kv |-> <<>>, rest |-> t]
           Right(s) == /\ s.table = Table(s.table.ids, s.table.num)
                       /\ s.table.ids \in Seq(Blocks) /\ ToSet(s.table.ids) \subseteq alloc
                       /\ ~s.found => s.table.ids = <<>>
<1>1. ASSUME NEW ids \in Seq(Blocks), NEW n  PROVE Right(hit(ids, n))
  <2> DEFINE l == Live(ids)
             x == num(l)
             y == Reconstructed(l)
             z == IF y # <<>> THEN SubSeq(t, n + 1, Len(t)) ELSE t
             s == [found |-> TRUE, table |-> Table(l, x), kv |-> y, rest |-> z]
  <2>1. l \in Seq(Blocks) /\ ToSet(l) \subseteq alloc
    BY LiveFacts
  <2>2. hit(ids, n) = s
    OBVIOUS
  <2> HIDE DEF l, x, y, z, hit
  <2>3. s.found = TRUE /\ s.table = [ids |-> l, num |-> x]
    BY DEF Table
  <2>4. s.table.ids = l /\ s.table.num = x
    BY <2>3
  <2>5. Right(s)
    BY <2>1, <2>3, <2>4 DEF Table
  <2> HIDE DEF s, Right
  <2> QED  BY <2>2, <2>5
<1>2. Right(miss)
  <2>1. ToSet(<<>>) = {} /\ <<>> \in Seq(Blocks)
    BY DEF ToSet
  <2>2. miss.table = [ids |-> <<>>, num |-> 0]
    BY DEF Table
  <2>3. miss.table.ids = <<>> /\ miss.table.num = 0
    BY <2>2
  <2> HIDE DEF miss
  <2>4. miss.table = Table(miss.table.ids, miss.table.num)
    BY <2>2, <2>3 DEF Table
  <2> QED  BY <2>1, <2>3, <2>4
<1>3. PagedServes(t) = IF shared # <<>> THEN hit(shared, Len(shared) * BlockSize)
                       ELSE IF match # {} THEN LET p == CHOOSE q \in match : TRUE IN hit(pindex[p], Len(p))
                       ELSE miss
  BY DEF PagedServes
<1>4. shared \in Seq(Blocks)
  BY SharedFacts
<1>5. match # {} => pindex[CHOOSE q \in match : TRUE] \in Seq(Blocks)
  <2>1. match \subseteq DOMAIN pindex
    BY DEF BestMatch
  <2> HIDE DEF match
  <2> QED  BY <2>1 DEF PagedTypes
<1> HIDE DEF shared, match, hit, miss, Right
<1>6. Right(PagedServes(t))
  <2>1. CASE shared # <<>>
    BY <1>1, <1>3, <1>4, <2>1
  <2>2. CASE shared = <<>> /\ match # {}
    BY <1>1, <1>3, <1>5, <2>2
  <2>3. CASE shared = <<>> /\ match = {}
    BY <1>2, <1>3, <2>3
  <2> QED  BY <2>1, <2>2, <2>3
<1> QED  BY <1>6 DEF Right

-----------------------------------------------------------------------------
(* The places of a block in tables, and how they change.                   *)

PlacesIn(r, ids, b) == {r} \X {i \in DOMAIN ids : ids[i] = b}
UsesIn(t, b) == UNION {PlacesIn(r, t[r].ids, b) : r \in DOMAIN t}
TabsTyped(t) == /\ t = [r \in DOMAIN t |-> Table(t[r].ids, t[r].num)]
                /\ \A r \in DOMAIN t : t[r].ids \in Seq(Blocks)

\* u is t with a table of ids for r; without r; with other blocks for r.
GivesTable(t, r, ids, u) ==
  /\ TabsTyped(u) /\ DOMAIN u = DOMAIN t \cup {r}
  /\ \A b : IsFiniteSet(UsesIn(t, b)) =>
       /\ IsFiniteSet(UsesIn(u, b))
       /\ Cardinality(UsesIn(u, b)) = Cardinality(UsesIn(t, b)) + Occurrences(ids, b)
TakesTable(t, r, u) ==
  /\ TabsTyped(u) /\ DOMAIN u = DOMAIN t \ {r}
  /\ \A x \in DOMAIN u : u[x] = t[x]
  /\ \A b : IsFiniteSet(UsesIn(t, b)) =>
       /\ IsFiniteSet(UsesIn(u, b))
       /\ Cardinality(UsesIn(u, b)) = Cardinality(UsesIn(t, b)) - Occurrences(t[r].ids, b)
SwapsTable(t, r, ids, u) ==
  /\ TabsTyped(u) /\ DOMAIN u = DOMAIN t
  /\ u[r].ids = ids /\ \A x \in DOMAIN t \ {r} : u[x] = t[x]
  /\ \A b : IsFiniteSet(UsesIn(t, b)) =>
       /\ IsFiniteSet(UsesIn(u, b))
       /\ Cardinality(UsesIn(u, b))
            = Cardinality(UsesIn(t, b)) - Occurrences(t[r].ids, b) + Occurrences(ids, b)

LEMMA PlaceFacts ==
  ASSUME NEW r, NEW ids \in Seq(Blocks), NEW b
  PROVE  /\ IsFiniteSet(PlacesIn(r, ids, b))
         /\ Cardinality(PlacesIn(r, ids, b)) = Occurrences(ids, b)
         /\ Occurrences(ids, b) \in Nat
         /\ Occurrences(ids, b) > 0 <=> b \in ToSet(ids)
<1> DEFINE I == {i \in DOMAIN ids : ids[i] = b}
<1>1. IsFiniteSet(I)
  <2>1. I \in SUBSET (1..Len(ids)) /\ 1 \in Int /\ Len(ids) \in Int
    OBVIOUS
  <2> QED  BY <2>1, FS_Interval, FS_Subset, Zenon
<1>2. Cardinality(I) = Occurrences(ids, b) /\ Cardinality(I) \in Nat
  BY <1>1, FS_CardinalityType, Zenon DEF Occurrences
<1>3. Cardinality(I) = 0 <=> I = {}
  BY <1>1, FS_EmptySet, Zenon
<1>4. b \in ToSet(ids) <=> I # {}
  BY DEF ToSet
<1>5. IsFiniteSet({r} \X I) /\ Cardinality({r} \X I) = Cardinality(I)
  <2> DEFINE f == [i \in I |-> <<r, i>>]
  <2>1. f \in Bijection(I, {r} \X I)
    <3>1. f \in [I -> {r} \X I]
      OBVIOUS
    <3>2. \A x, y \in I : f[x] = f[y] => x = y
      OBVIOUS
    <3>3. \A y \in {r} \X I : \E x \in I : f[x] = y
      OBVIOUS
    <3> HIDE DEF f, I
    <3> QED  BY <3>1, <3>2, <3>3 DEF Bijection, Injection, Surjection, IsInjective
  <2>2. ExistsBijection(I, {r} \X I)
    BY <2>1, Zenon DEF ExistsBijection
  <2> QED  BY <1>1, <2>2, FS_Bijection, Zenon
<1> QED  BY <1>2, <1>3, <1>4, <1>5 DEF PlacesIn

LEMMA UseFacts ==
  ASSUME NEW t, NEW b
  PROVE  /\ \A x, i : <<x, i>> \in UsesIn(t, b)
              <=> x \in DOMAIN t /\ i \in DOMAIN t[x].ids /\ t[x].ids[i] = b
         /\ \A u \in UsesIn(t, b) : u = <<u[1], u[2]>>
BY DEF UsesIn, PlacesIn

\* A block is in some table exactly if it has a place.
LEMMA UsedOrNot ==
  ASSUME NEW t, NEW b
  PROVE  UsesIn(t, b) = {} <=> \A r \in DOMAIN t : b \notin ToSet(t[r].ids)
<1>1. ASSUME NEW r \in DOMAIN t, b \in ToSet(t[r].ids)  PROVE UsesIn(t, b) # {}
  <2>1. PICK i \in DOMAIN t[r].ids : t[r].ids[i] = b
    BY <1>1 DEF ToSet
  <2> QED  BY <2>1, UseFacts
<1>2. ASSUME NEW u \in UsesIn(t, b)  PROVE \E r \in DOMAIN t : b \in ToSet(t[r].ids)
  <2>1. u[1] \in DOMAIN t /\ u[2] \in DOMAIN t[u[1]].ids /\ t[u[1]].ids[u[2]] = b
    BY UseFacts
  <2> QED  BY <2>1 DEF ToSet
<1> QED  BY <1>1, <1>2

\* r gets a table.
LEMMA NewTable ==
  ASSUME NEW t, TabsTyped(t), NEW r, r \notin DOMAIN t, NEW ids \in Seq(Blocks), NEW n,
         NEW u, u = With(t, r, Table(ids, n))
  PROVE  GivesTable(t, r, ids, u)
<1>1. /\ DOMAIN u = DOMAIN t \cup {r} /\ u[r] = Table(ids, n)
      /\ \A x \in DOMAIN t : u[x] = t[x]
      /\ u = [x \in DOMAIN t \cup {r} |-> u[x]]
  BY DEF With
<1>2. u[r].ids = ids /\ u[r].num = n
  BY <1>1 DEF Table
<1>3. TabsTyped(u)
  <2>1. \A x \in DOMAIN u : u[x] = Table(u[x].ids, u[x].num) /\ u[x].ids \in Seq(Blocks)
    <3> TAKE x \in DOMAIN u
    <3>1. CASE x = r
      BY <1>1, <1>2, <3>1
    <3>2. CASE x \in DOMAIN t
      <4>1. t[x] = Table(t[x].ids, t[x].num) /\ t[x].ids \in Seq(Blocks)
        BY <3>2 DEF TabsTyped
      <4> QED  BY <1>1, <3>2, <4>1
    <3> QED  BY <1>1, <3>1, <3>2
  <2> QED  BY <1>1, <2>1 DEF TabsTyped
<1>4. ASSUME NEW b, IsFiniteSet(UsesIn(t, b))
      PROVE  /\ IsFiniteSet(UsesIn(u, b))
             /\ Cardinality(UsesIn(u, b)) = Cardinality(UsesIn(t, b)) + Occurrences(ids, b)
  <2> DEFINE P == PlacesIn(r, ids, b)
             U == UsesIn(t, b)
  <2>1. UsesIn(u, b) = U \cup P
    BY <1>1, <1>2, ZenonT(30) DEF UsesIn
  <2>2. U \cap P = {}
    BY UseFacts DEF PlacesIn
  <2>3. IsFiniteSet(P) /\ Cardinality(P) = Occurrences(ids, b) /\ Occurrences(ids, b) \in Nat
    BY PlaceFacts
  <2> HIDE DEF P, U
  <2>4. IsFiniteSet(U) /\ Cardinality(U) \in Nat
    BY <1>4, FS_CardinalityType DEF U
  <2>5. /\ IsFiniteSet(U \cup P)
        /\ Cardinality(U \cup P) = Cardinality(U) + Cardinality(P) - Cardinality(U \cap P)
    BY <2>3, <2>4, FS_Union, Zenon
  <2>6. Cardinality(U \cap P) = 0
    BY <2>2, FS_EmptySet
  <2>7. Cardinality(U \cup P) = Cardinality(U) + Occurrences(ids, b)
    BY <2>3, <2>4, <2>5, <2>6
  <2> QED  BY <2>1, <2>5, <2>7 DEF U
<1> QED  BY <1>1, <1>3, <1>4 DEF GivesTable

\* r loses its table.
LEMMA DropTable ==
  ASSUME NEW t, TabsTyped(t), NEW r \in DOMAIN t, NEW u, u = Restrict(t, DOMAIN t \ {r})
  PROVE  TakesTable(t, r, u)
<1>1. /\ DOMAIN u = DOMAIN t \ {r} /\ \A x \in DOMAIN t \ {r} : u[x] = t[x]
      /\ u = [x \in DOMAIN t \ {r} |-> u[x]]
  BY DEF Restrict
<1>2. TabsTyped(u)
  <2>1. \A x \in DOMAIN u : u[x] = Table(u[x].ids, u[x].num) /\ u[x].ids \in Seq(Blocks)
    <3> TAKE x \in DOMAIN u
    <3>1. t[x] = Table(t[x].ids, t[x].num) /\ t[x].ids \in Seq(Blocks)
      BY <1>1 DEF TabsTyped
    <3> QED  BY <1>1, <3>1
  <2>2. u = [x \in DOMAIN u |-> Table(u[x].ids, u[x].num)]
    <3>1. [x \in DOMAIN u |-> Table(u[x].ids, u[x].num)] = [x \in DOMAIN u |-> u[x]]
      BY <2>1
    <3> QED  BY <1>1, <3>1
  <2> QED  BY <2>1, <2>2 DEF TabsTyped
<1>3. ASSUME NEW b, IsFiniteSet(UsesIn(t, b))
      PROVE  /\ IsFiniteSet(UsesIn(u, b))
             /\ Cardinality(UsesIn(u, b)) = Cardinality(UsesIn(t, b)) - Occurrences(t[r].ids, b)
  <2> DEFINE P == PlacesIn(r, t[r].ids, b)
             U == UsesIn(t, b)
  <2>1. UsesIn(u, b) = U \ P /\ U \cap P = P
    <3>1. P \subseteq U
      BY DEF UsesIn
    <3>2. \A x \in DOMAIN t \ {r} : PlacesIn(x, t[x].ids, b) \cap P = {}
      BY DEF PlacesIn
    <3>3. UsesIn(u, b) = UNION {PlacesIn(x, t[x].ids, b) : x \in DOMAIN t \ {r}}
      BY <1>1 DEF UsesIn
    <3>4. U = UsesIn(u, b) \cup P
      <4> DEFINE Q(x) == PlacesIn(x, t[x].ids, b)
      <4>1. DOMAIN t = (DOMAIN t \ {r}) \cup {r}
        OBVIOUS
      <4>2. UNION {Q(x) : x \in DOMAIN t} = (UNION {Q(x) : x \in DOMAIN t \ {r}}) \cup Q(r)
        <5> HIDE DEF Q
        <5> QED  BY <4>1
      <4> QED  BY <3>3, <4>2 DEF UsesIn
    <3> HIDE DEF P, U
    <3> QED  BY <3>1, <3>2, <3>3, <3>4
  <2>2. t[r].ids \in Seq(Blocks)
    BY DEF TabsTyped
  <2>3. Cardinality(P) = Occurrences(t[r].ids, b)
    BY <2>2, PlaceFacts
  <2> HIDE DEF P, U
  <2>4. IsFiniteSet(U \ P) /\ Cardinality(U \ P) = Cardinality(U) - Cardinality(U \cap P)
    <3>1. IsFiniteSet(U)
      BY <1>3 DEF U
    <3> QED  BY <3>1, FS_Difference, Zenon
  <2> QED  BY <2>1, <2>3, <2>4 DEF U
<1> QED  BY <1>1, <1>2, <1>3 DEF TakesTable

\* r's table gets other blocks.
LEMMA ChangeTable ==
  ASSUME NEW t, TabsTyped(t), NEW r \in DOMAIN t, NEW ids \in Seq(Blocks), NEW n,
         NEW u, u = [t EXCEPT ![r] = Table(ids, n)]
  PROVE  SwapsTable(t, r, ids, u)
<1> DEFINE d == Restrict(t, DOMAIN t \ {r})
<1>0. d = Restrict(t, DOMAIN t \ {r})
  OBVIOUS
<1> HIDE DEF d
<1>1. TakesTable(t, r, d)
  BY <1>0, DropTable, Zenon
<1>2. u = With(d, r, Table(ids, n))
  <2>1. DOMAIN t = DOMAIN d \cup {r}
    BY <1>1 DEF TakesTable
  <2>2. t = [x \in DOMAIN t |-> t[x]]
    BY DEF TabsTyped
  <2> QED  BY <1>1, <2>1, <2>2 DEF With, TakesTable
<1>3. TabsTyped(d) /\ r \notin DOMAIN d
  BY <1>1 DEF TakesTable
<1>4. GivesTable(d, r, ids, u)
  BY <1>2, <1>3, NewTable, Zenon
<1>5. u[r].ids = ids /\ \A x \in DOMAIN t \ {r} : u[x] = t[x]
  <2>1. u[r] = Table(ids, n) /\ \A x \in DOMAIN t \ {r} : u[x] = t[x]
    BY DEF TabsTyped
  <2> QED  BY <2>1 DEF Table
<1>6. TabsTyped(u) /\ DOMAIN u = DOMAIN t
  BY <1>1, <1>4 DEF TakesTable, GivesTable
<1>7. ASSUME NEW b, IsFiniteSet(UsesIn(t, b))
      PROVE  /\ IsFiniteSet(UsesIn(u, b))
             /\ Cardinality(UsesIn(u, b))
                  = Cardinality(UsesIn(t, b)) - Occurrences(t[r].ids, b) + Occurrences(ids, b)
  BY <1>1, <1>4, <1>7 DEF TakesTable, GivesTable
<1> QED  BY <1>5, <1>6, <1>7 DEF SwapsTable

\* A block is appended to a list, or takes the place of another.
LEMMA OccurrencesAppend ==
  ASSUME NEW ids \in Seq(Blocks), NEW b \in Blocks, NEW c
  PROVE  Occurrences(Append(ids, b), c) = Occurrences(ids, c) + (IF c = b THEN 1 ELSE 0)
<1> DEFINE n == Len(ids)
           I == {i \in DOMAIN ids : ids[i] = c}
           J == {i \in DOMAIN Append(ids, b) : Append(ids, b)[i] = c}
<1>1. n \in Nat /\ DOMAIN ids = 1..n /\ n + 1 \notin I
  OBVIOUS
<1>2. IsFiniteSet(I) /\ Cardinality(I) \in Nat
  <2>1. I \in SUBSET (1..n) /\ 1 \in Int /\ n \in Int
    BY <1>1
  <2> QED  BY <2>1, FS_Interval, FS_Subset, FS_CardinalityType, Zenon
<1>3. /\ DOMAIN Append(ids, b) = 1..(n + 1) /\ Append(ids, b)[n + 1] = b
      /\ \A i \in 1..n : Append(ids, b)[i] = ids[i]
  OBVIOUS
<1>4. J = IF c = b THEN I \cup {n + 1} ELSE I
  <2>1. 1..(n + 1) = (1..n) \cup {n + 1}
    BY <1>1
  <2> HIDE DEF n
  <2>2. J = {i \in (1..n) \cup {n + 1} : Append(ids, b)[i] = c}
    BY <1>3, <2>1
  <2> QED  BY <1>1, <1>3, <2>2
<1> HIDE DEF I, J, n
<1>5. Cardinality(I \cup {n + 1}) = Cardinality(I) + 1
  BY <1>1, <1>2, FS_AddElement
<1>6. Cardinality(J) = Cardinality(I) + (IF c = b THEN 1 ELSE 0)
  BY <1>2, <1>4, <1>5
<1> QED  BY <1>6 DEF I, J, Occurrences

LEMMA OccurrencesReplace ==
  ASSUME NEW ids \in Seq(Blocks), NEW i \in DOMAIN ids, NEW b \in Blocks, b # ids[i], NEW c
  PROVE  Occurrences([ids EXCEPT ![i] = b], c)
           = Occurrences(ids, c) + (IF c = b THEN 1 ELSE 0) - (IF c = ids[i] THEN 1 ELSE 0)
<1> DEFINE new == [ids EXCEPT ![i] = b]
           I == {j \in DOMAIN ids : ids[j] = c}
           J == {j \in DOMAIN new : new[j] = c}
<1>1. DOMAIN new = DOMAIN ids /\ new[i] = b /\ \A j \in DOMAIN ids \ {i} : new[j] = ids[j]
  OBVIOUS
<1>2. IsFiniteSet(I) /\ Cardinality(I) \in Nat
  <2>1. I \in SUBSET (1..Len(ids)) /\ 1 \in Int /\ Len(ids) \in Int
    OBVIOUS
  <2> QED  BY <2>1, FS_Interval, FS_Subset, FS_CardinalityType, Zenon
<1> HIDE DEF new
<1>3. CASE c = b
  <2>1. J = I \cup {i} /\ i \notin I
    BY <1>1, <1>3
  <2> HIDE DEF I, J
  <2>2. Cardinality(J) = Cardinality(I) + 1
    BY <1>2, <2>1, FS_AddElement
  <2> QED  BY <1>2, <1>3, <2>2 DEF I, J, new, Occurrences
<1>4. CASE c = ids[i]
  <2>1. J = I \ {i} /\ i \in I
    BY <1>1, <1>4
  <2> HIDE DEF I, J
  <2>2. Cardinality(J) = Cardinality(I) - 1
    BY <1>2, <2>1, FS_RemoveElement
  <2> QED  BY <1>2, <1>4, <2>2 DEF I, J, new, Occurrences
<1>5. CASE c # b /\ c # ids[i]
  <2>1. J = I
    BY <1>1, <1>5
  <2> HIDE DEF I, J
  <2>2. Cardinality(J) = Cardinality(I)
    BY <2>1
  <2> QED  BY <1>2, <1>5, <2>2 DEF I, J, new, Occurrences
<1> QED  BY <1>3, <1>4, <1>5

-----------------------------------------------------------------------------
(* The blocks are counted.                                                  *)

\* Allocated blocks a, counts f and tables t agree.
CountedIn(a, f, t) ==
  /\ f \in [Blocks -> Nat] /\ a = {b \in Blocks : f[b] > 0}
  /\ \A b \in Blocks : IsFiniteSet(UsesIn(t, b)) /\ f[b] = Cardinality(UsesIn(t, b))

PagedInv == PagedTypes /\ TabsTyped(tables) /\ CountedIn(alloc, ref, tables)

\* What is in a table is allocated.
LEMMA TablesAllocated ==
  ASSUME NEW a, NEW f, NEW t, CountedIn(a, f, t), TabsTyped(t), NEW r \in DOMAIN t
  PROVE  ToSet(t[r].ids) \subseteq a
<1> SUFFICES ASSUME NEW b \in ToSet(t[r].ids)  PROVE b \in a
  OBVIOUS
<1>1. b \in Blocks
  BY DEF TabsTyped, ToSet
<1>2. UsesIn(t, b) # {}
  BY UsedOrNot
<1>3. IsFiniteSet(UsesIn(t, b)) /\ f[b] = Cardinality(UsesIn(t, b)) /\ f[b] \in Nat
  BY <1>1 DEF CountedIn
<1>4. Cardinality(UsesIn(t, b)) # 0
  BY <1>2, <1>3, FS_EmptySet
<1> QED  BY <1>1, <1>3, <1>4 DEF CountedIn

\* A block that is not allocated is in no table.
LEMMA Unused ==
  ASSUME NEW a, NEW f, NEW t, CountedIn(a, f, t), TabsTyped(t), NEW b, b \notin a,
         NEW r \in DOMAIN t
  PROVE  b \notin ToSet(t[r].ids) /\ Occurrences(t[r].ids, b) = 0
<1>1. b \notin ToSet(t[r].ids)
  BY TablesAllocated
<1>2. t[r].ids \in Seq(Blocks)
  BY DEF TabsTyped
<1>3. Occurrences(t[r].ids, b) \in Nat /\ ~(Occurrences(t[r].ids, b) > 0)
  BY <1>1, <1>2, PlaceFacts
<1> QED  BY <1>1, <1>3

LEMMA CountGiven ==
  ASSUME NEW a, NEW f, NEW t, CountedIn(a, f, t), NEW r, NEW ids \in Seq(Blocks),
         ToSet(ids) \subseteq a, NEW u, GivesTable(t, r, ids, u),
         NEW g, g = [b \in Blocks |-> f[b] + Occurrences(ids, b)]
  PROVE  CountedIn(a, g, u)
<1>1. ASSUME NEW b \in Blocks
      PROVE  /\ f[b] \in Nat /\ Occurrences(ids, b) \in Nat /\ g[b] = f[b] + Occurrences(ids, b)
             /\ IsFiniteSet(UsesIn(t, b)) /\ f[b] = Cardinality(UsesIn(t, b))
             /\ b \in a <=> f[b] > 0
             /\ Occurrences(ids, b) > 0 => b \in a
  <2>1. Occurrences(ids, b) \in Nat /\ (Occurrences(ids, b) > 0 <=> b \in ToSet(ids))
    BY PlaceFacts
  <2> QED  BY <2>1 DEF CountedIn
<1>2. g \in [Blocks -> Nat]
  BY <1>1
<1>3. \A b \in Blocks : IsFiniteSet(UsesIn(u, b)) /\ g[b] = Cardinality(UsesIn(u, b))
  BY <1>1 DEF GivesTable
<1>4. \A b \in Blocks : b \in a <=> g[b] > 0
  BY <1>1
<1>5. a \subseteq Blocks
  BY DEF CountedIn
<1> QED  BY <1>2, <1>3, <1>4, <1>5 DEF CountedIn

\* What is left of the places of b when one table is taken away from u.
LeftOver(a, f, ids, u, b) ==
  /\ IsFiniteSet(UsesIn(u, b)) /\ f[b] \in Nat /\ Occurrences(ids, b) \in Nat
  /\ Cardinality(UsesIn(u, b)) = f[b] - Occurrences(ids, b)
  /\ Occurrences(ids, b) <= f[b]
  /\ b \notin a => f[b] = 0 /\ Occurrences(ids, b) = 0

LEMMA CountTaken ==
  ASSUME NEW a, NEW f, NEW t, CountedIn(a, f, t), TabsTyped(t), NEW r \in DOMAIN t,
         NEW u, TakesTable(t, r, u)
  PROVE  \A b \in Blocks : LeftOver(a, f, t[r].ids, u, b)
<1> TAKE b \in Blocks
<1>1. t[r].ids \in Seq(Blocks)
  BY DEF TabsTyped
<1>2. Occurrences(t[r].ids, b) \in Nat
  BY <1>1, PlaceFacts
<1>3. f[b] \in Nat /\ IsFiniteSet(UsesIn(t, b)) /\ f[b] = Cardinality(UsesIn(t, b))
  BY DEF CountedIn
<1>4. IsFiniteSet(UsesIn(u, b)) /\ Cardinality(UsesIn(u, b)) = f[b] - Occurrences(t[r].ids, b)
  BY <1>3 DEF TakesTable
<1>5. Cardinality(UsesIn(u, b)) \in Nat
  BY <1>4, FS_CardinalityType
<1>6. b \notin a => f[b] = 0
  BY <1>3 DEF CountedIn
<1>7. b \notin a => Occurrences(t[r].ids, b) = 0
  BY Unused
<1> QED  BY <1>2, <1>3, <1>4, <1>5, <1>6, <1>7 DEF LeftOver

-----------------------------------------------------------------------------
(* Every operation of the tier keeps the count.                             *)

LEMMA FetchCounts ==
  ASSUME PagedInv, NEW t \in Seq(Nat), NEW r, r \notin DOMAIN tables,
         PagedFetch(r, PagedServes(t))
  PROVE  PagedInv' /\ DOMAIN tables' \subseteq DOMAIN tables \cup {r}
<1> DEFINE s == PagedServes(t)
           ids == s.table.ids
<1>1. /\ s.table = Table(ids, s.table.num) /\ ids \in Seq(Blocks) /\ ToSet(ids) \subseteq alloc
      /\ ~s.found => ids = <<>>
  BY ServesFacts DEF PagedInv
<1>2. /\ ref' = [b \in Blocks |-> ref[b] + Occurrences(ids, b)]
      /\ tables' = IF s.found THEN With(tables, r, s.table) ELSE tables
      /\ alloc' = alloc
  BY DEF PagedFetch, Referenced
<1> HIDE DEF s
<1>3. TabsTyped(tables) /\ CountedIn(alloc, ref, tables)
  BY DEF PagedInv
<1>6. PagedTypes'
  BY DEF PagedInv, PagedFetch, PagedTypes
<1>4. CASE s.found
  <2>1. tables' = With(tables, r, Table(ids, s.table.num))
    BY <1>1, <1>2, <1>4
  <2>2. GivesTable(tables, r, ids, tables')
    BY <1>1, <1>3, <2>1, NewTable, Zenon
  <2>3. CountedIn(alloc, ref', tables')
    BY <1>1, <1>2, <1>3, <2>2, CountGiven, Zenon
  <2> QED  BY <1>2, <1>6, <2>2, <2>3 DEF GivesTable, PagedInv
<1>5. CASE ~s.found
  <2>1. ASSUME NEW b \in Blocks  PROVE Occurrences(ids, b) = 0
    <3>1. b \notin ToSet(ids)
      BY <1>1, <1>5 DEF ToSet
    <3>2. Occurrences(ids, b) \in Nat /\ ~(Occurrences(ids, b) > 0)
      BY <1>1, <3>1, PlaceFacts
    <3> QED  BY <3>2
  <2>2. ref' = ref
    BY <1>2, <1>3, <2>1 DEF CountedIn
  <2> QED  BY <1>2, <1>3, <1>5, <1>6, <2>2 DEF PagedInv
<1> QED  BY <1>4, <1>5

LEMMA StoreTableCounts ==
  ASSUME PagedInv, NEW r, StoreTable(r)
  PROVE  PagedInv' /\ DOMAIN tables' = DOMAIN tables \cup {r}
<1>1. PagedTypes'
  BY DEF PagedInv, StoreTable, PagedTypes
<1>2. TabsTyped(tables) /\ CountedIn(alloc, ref, tables) /\ alloc' = alloc /\ ref' = ref
  BY DEF PagedInv, StoreTable
<1>3. CASE HasTable(r)
  <2>1. tables' = tables
    BY <1>3 DEF StoreTable
  <2> QED  BY <1>1, <1>2, <1>3, <2>1 DEF PagedInv, HasTable
<1>4. CASE ~HasTable(r)
  <2>1. tables' = With(tables, r, Table(<<>>, 0)) /\ r \notin DOMAIN tables
    BY <1>4 DEF StoreTable, HasTable
  <2>2. <<>> \in Seq(Blocks) /\ ToSet(<<>>) \subseteq alloc
    BY DEF ToSet
  <2>3. GivesTable(tables, r, <<>>, tables')
    BY <1>2, <2>1, <2>2, NewTable, Zenon
  <2>4. ref = [b \in Blocks |-> ref[b] + Occurrences(<<>>, b)]
    <3>1. ASSUME NEW b \in Blocks  PROVE ref[b] = ref[b] + Occurrences(<<>>, b)
      <4>1. Occurrences(<<>>, b) \in Nat /\ ~(Occurrences(<<>>, b) > 0)
        <5>1. b \notin ToSet(<<>>)
          BY DEF ToSet
        <5> QED  BY <2>2, <5>1, PlaceFacts
      <4>2. ref[b] \in Nat
        BY <1>2 DEF CountedIn
      <4> QED  BY <4>1, <4>2
    <3> QED  BY <1>2, <3>1 DEF CountedIn
  <2>5. CountedIn(alloc, ref, tables')
    BY <1>2, <2>2, <2>3, <2>4, CountGiven, Zenon
  <2> QED  BY <1>1, <1>2, <2>3, <2>5 DEF GivesTable, PagedInv
<1> QED  BY <1>3, <1>4

\* A table is a record of its list and its number.
LEMMA TableParts ==
  ASSUME NEW t, TabsTyped(t), NEW r \in DOMAIN t
  PROVE  t[r] = Table(t[r].ids, t[r].num) /\ t[r].ids \in Seq(Blocks)
BY DEF TabsTyped

LEMMA StoreSharedCounts ==
  ASSUME PagedInv, NEW r \in DOMAIN tables, NEW t, StoreShared(r, t)
  PROVE  PagedInv' /\ DOMAIN tables' = DOMAIN tables
<1> DEFINE ids == tables[r].ids
<1>1. TabsTyped(tables) /\ CountedIn(alloc, ref, tables) /\ ids \in Seq(Blocks)
  BY TableParts DEF PagedInv
<1>2. PICK b \in CachedBlock(NextTokens(r, t)) :
        /\ ref' = [ref EXCEPT ![b] = @ + 1]
        /\ tables' = [tables EXCEPT ![r] = Extended(r, b, BlockSize)]
        /\ UNCHANGED <<fixed, data, filled, alloc, queue, hashTo, pindex, entries>>
  BY DEF StoreShared
<1>3. b \in alloc /\ b \in Blocks
  <2>1. b \in alloc
    BY DEF CachedBlock
  <2> QED  BY <1>1, <2>1 DEF CountedIn
<1>4. Append(ids, b) \in Seq(Blocks)
  BY <1>1, <1>3
<1>5. tables' = [tables EXCEPT ![r] = Table(Append(ids, b), tables[r].num + BlockSize)]
  BY <1>2 DEF Extended
<1>6. SwapsTable(tables, r, Append(ids, b), tables')
  BY <1>1, <1>4, <1>5, ChangeTable, Zenon
<1>7. ASSUME NEW c \in Blocks
      PROVE  /\ ref[c] \in Nat /\ ref'[c] = ref[c] + (IF c = b THEN 1 ELSE 0)
             /\ IsFiniteSet(UsesIn(tables', c)) /\ ref'[c] = Cardinality(UsesIn(tables', c))
             /\ c \in alloc <=> ref[c] > 0
  <2>1. /\ ref[c] \in Nat /\ IsFiniteSet(UsesIn(tables, c)) /\ ref[c] = Cardinality(UsesIn(tables, c))
        /\ c \in alloc <=> ref[c] > 0
    BY <1>1 DEF CountedIn
  <2>2. ref'[c] = ref[c] + (IF c = b THEN 1 ELSE 0)
    BY <1>1, <1>2, <2>1 DEF CountedIn
  <2>3. Occurrences(Append(ids, b), c) = Occurrences(ids, c) + (IF c = b THEN 1 ELSE 0)
    BY <1>1, <1>3, OccurrencesAppend
  <2>4. Occurrences(ids, c) \in Nat
    BY <1>1, PlaceFacts
  <2>5. /\ IsFiniteSet(UsesIn(tables', c))
        /\ Cardinality(UsesIn(tables', c))
             = Cardinality(UsesIn(tables, c)) - Occurrences(ids, c) + Occurrences(Append(ids, b), c)
    BY <1>6, <2>1 DEF SwapsTable
  <2> QED  BY <2>1, <2>2, <2>3, <2>4, <2>5
<1>8. CountedIn(alloc, ref', tables')
  <2>1. ref' \in [Blocks -> Nat]
    BY <1>1, <1>2, <1>3 DEF CountedIn
  <2>2. \A c \in Blocks : c \in alloc <=> ref'[c] > 0
    BY <1>3, <1>7
  <2>3. alloc \subseteq Blocks
    BY <1>1 DEF CountedIn
  <2> QED  BY <1>7, <2>1, <2>2, <2>3 DEF CountedIn
<1>9. PagedTypes' /\ alloc' = alloc
  BY <1>2 DEF PagedInv, PagedTypes
<1> QED  BY <1>6, <1>8, <1>9 DEF PagedInv, SwapsTable

\* A free block that is not pinned leaves the queue.
LEMMA BlockTaken ==
  ASSUME PagedTypes, NEW b \in Candidates,
         queue' = RemoveFirst(queue, b), alloc' = alloc \cup {b}
  PROVE  queue' \in Seq(Blocks) /\ IsInjective(queue') /\ ToSet(queue') = Blocks \ alloc'
<1>1. queue \in Seq(Blocks) /\ IsInjective(queue) /\ ToSet(queue) = Blocks \ alloc
  BY DEF PagedTypes
<1>2. /\ queue' \in Seq(Blocks) /\ ToSet(queue') = ToSet(queue) \ {b}
      /\ IsInjective(queue')
  BY <1>1, ToSetRemoveFirst
<1> QED  BY <1>1, <1>2

LEMMA StoreNewCounts ==
  ASSUME PagedInv, NEW r \in DOMAIN tables, NEW t, NEW k, StoreNew(r, t, k)
  PROVE  /\ PagedInv' /\ DOMAIN tables' = DOMAIN tables
         /\ \A b \in Blocks : data'[b] # data[b] => b \notin alloc /\ b \notin fixed
<1> DEFINE ids == tables[r].ids
           n == Len(NextTokens(r, t))
<1>1. PagedTypes /\ TabsTyped(tables) /\ CountedIn(alloc, ref, tables) /\ ids \in Seq(Blocks)
  BY TableParts DEF PagedInv
<1>2. \E b, x, h :
        /\ b \in Candidates
        /\ queue' = RemoveFirst(queue, b) /\ alloc' = alloc \cup {b}
        /\ ref' = [ref EXCEPT ![b] = 1] /\ data' = [data EXCEPT ![b] = x]
        /\ hashTo' = IF h THEN With(hashTo, NextTokens(r, t), b) ELSE hashTo
        /\ tables' = [tables EXCEPT ![r] = Table(Append(ids, b), tables[r].num + n)]
        /\ UNCHANGED <<fixed, pindex, entries>>
  <2> DEFINE chunk == NextTokens(r, t)
             first == tables[r].num + 1
             slice == SubSeq(k, first, IF first + Len(chunk) - 1 < Len(k)
                                       THEN first + Len(chunk) - 1 ELSE Len(k))
  <2>1. PICK b \in Candidates :
          /\ queue' = RemoveFirst(queue, b) /\ alloc' = alloc \cup {b}
          /\ ref' = [ref EXCEPT ![b] = 1]
          /\ data' = [data EXCEPT ![b] = IF slice = <<>> THEN @ ELSE slice]
          /\ hashTo' = IF Len(chunk) = BlockSize THEN With(hashTo, chunk, b) ELSE hashTo
          /\ tables' = [tables EXCEPT ![r] = Extended(r, b, Len(chunk))]
    BY DEF StoreNew
  <2>2. UNCHANGED <<fixed, pindex, entries>>
    BY DEF StoreNew
  <2>3. data' = [data EXCEPT ![b] = IF slice = <<>> THEN data[b] ELSE slice]
    BY <2>1
  <2>4. tables' = [tables EXCEPT ![r] = Table(Append(ids, b), tables[r].num + n)]
    BY <2>1 DEF Extended
  <2> HIDE DEF slice
  <2> QED  BY <2>1, <2>2, <2>3, <2>4
<1>3. PICK b, x, h :
        /\ b \in Candidates
        /\ queue' = RemoveFirst(queue, b) /\ alloc' = alloc \cup {b}
        /\ ref' = [ref EXCEPT ![b] = 1] /\ data' = [data EXCEPT ![b] = x]
        /\ hashTo' = IF h THEN With(hashTo, NextTokens(r, t), b) ELSE hashTo
        /\ tables' = [tables EXCEPT ![r] = Table(Append(ids, b), tables[r].num + n)]
        /\ UNCHANGED <<fixed, pindex, entries>>
  BY <1>2
<1>4. b \in Blocks /\ b \notin alloc /\ b \notin fixed
  BY <1>1, <1>3, CandidateFacts
<1>5. Append(ids, b) \in Seq(Blocks)
  BY <1>1, <1>4
<1>6. SwapsTable(tables, r, Append(ids, b), tables')
  BY <1>1, <1>3, <1>5, ChangeTable, Zenon
<1>7. ref' \in [Blocks -> Nat]
  BY <1>1, <1>3 DEF CountedIn
<1>8. ASSUME NEW c \in Blocks
      PROVE  /\ IsFiniteSet(UsesIn(tables', c)) /\ ref'[c] = Cardinality(UsesIn(tables', c))
             /\ c \in alloc' <=> ref'[c] > 0
  <2>1. /\ ref[c] \in Nat /\ IsFiniteSet(UsesIn(tables, c)) /\ ref[c] = Cardinality(UsesIn(tables, c))
        /\ c \in alloc <=> ref[c] > 0
    BY <1>1 DEF CountedIn
  <2>2. ref'[c] = IF c = b THEN 1 ELSE ref[c]
    BY <1>1, <1>3, <2>1 DEF CountedIn
  <2>3. Occurrences(Append(ids, b), c) = Occurrences(ids, c) + (IF c = b THEN 1 ELSE 0)
    BY <1>1, <1>4, OccurrencesAppend
  <2>4. Occurrences(ids, c) \in Nat
    BY <1>1, PlaceFacts
  <2>5. /\ IsFiniteSet(UsesIn(tables', c))
        /\ Cardinality(UsesIn(tables', c))
             = Cardinality(UsesIn(tables, c)) - Occurrences(ids, c) + Occurrences(Append(ids, b), c)
    BY <1>6, <2>1 DEF SwapsTable
  <2>6. CASE c = b
    BY <1>3, <1>4, <2>1, <2>2, <2>3, <2>4, <2>5, <2>6
  <2>7. CASE c # b
    BY <1>3, <2>1, <2>2, <2>3, <2>4, <2>5, <2>7
  <2> QED  BY <2>6, <2>7
<1>9. CountedIn(alloc', ref', tables')
  <2>1. alloc' \subseteq Blocks
    BY <1>1, <1>3, <1>4 DEF CountedIn
  <2> QED  BY <1>7, <1>8, <2>1 DEF CountedIn
<1>10. PagedTypes'
  <2>1. queue' \in Seq(Blocks) /\ IsInjective(queue') /\ ToSet(queue') = Blocks \ alloc'
    BY <1>1, <1>3, BlockTaken
  <2>2. data' = [c \in Blocks |-> data'[c]]
    BY <1>1, <1>3 DEF PagedTypes
  <2>3. \A c \in DOMAIN hashTo' : hashTo'[c] \in Blocks
    BY <1>1, <1>3, <1>4 DEF PagedTypes, With
  <2>4. fixed' \subseteq Blocks /\ alloc' \subseteq Blocks
    BY <1>1, <1>3, <1>4 DEF PagedTypes
  <2>5. \A p \in DOMAIN pindex' : pindex'[p] \in Seq(Blocks)
    BY <1>1, <1>3 DEF PagedTypes
  <2> QED  BY <2>1, <2>2, <2>3, <2>4, <2>5 DEF PagedTypes
<1>11. ASSUME NEW c \in Blocks, data'[c] # data[c]  PROVE c = b
  BY <1>1, <1>3, <1>11 DEF PagedTypes
<1> QED  BY <1>4, <1>6, <1>9, <1>10, <1>11 DEF PagedInv, SwapsTable

LEMMA CopyCounts ==
  ASSUME PagedInv, NEW r \in DOMAIN tables, NEW i \in DOMAIN tables[r].ids, CopyBlock(r, i)
  PROVE  /\ PagedInv' /\ DOMAIN tables' = DOMAIN tables
         /\ DOMAIN tables'[r].ids = DOMAIN tables[r].ids
         /\ \A b \in Blocks : data'[b] # data[b] => b \notin alloc /\ b \notin fixed
<1> DEFINE ids == tables[r].ids
           old == ids[i]
<1>1. /\ PagedTypes /\ TabsTyped(tables) /\ CountedIn(alloc, ref, tables)
      /\ tables[r] = Table(ids, tables[r].num) /\ ids \in Seq(Blocks)
  BY TableParts DEF PagedInv
<1>2. old \in alloc /\ ref[old] > 1
  BY DEF CopyBlock, MustCopy
<1>3. PICK b \in Candidates :
        /\ queue' = RemoveFirst(queue, b) /\ alloc' = alloc \cup {b}
        /\ ref' = [ref EXCEPT ![b] = 1, ![old] = @ - 1]
        /\ data' = [data EXCEPT ![b] = data[old]]
        /\ tables' = [tables EXCEPT ![r].ids[i] = b]
        /\ UNCHANGED <<fixed, hashTo, pindex, entries>>
  BY DEF CopyBlock
<1>4. b \in Blocks /\ b \notin alloc /\ b \notin fixed /\ b # old /\ old \in Blocks
  <2>1. b \in Blocks /\ b \notin alloc /\ b \notin fixed
    BY <1>1, CandidateFacts
  <2> QED  BY <1>1, <1>2, <2>1
<1> DEFINE new == [ids EXCEPT ![i] = b]
<1>5. new \in Seq(Blocks) /\ DOMAIN new = DOMAIN ids
  BY <1>1, <1>4
<1>6. tables' = [tables EXCEPT ![r] = Table(new, tables[r].num)]
  <2>1. [tables[r] EXCEPT !.ids = new] = Table(new, tables[r].num)
    BY <1>1 DEF Table
  <2>2. tables' = [tables EXCEPT ![r] = [tables[r] EXCEPT !.ids = new]]
    BY <1>3
  <2> HIDE DEF new
  <2> QED  BY <2>1, <2>2
<1> HIDE DEF new
<1>7. SwapsTable(tables, r, new, tables')
  BY <1>1, <1>5, <1>6, ChangeTable, Zenon
<1>8. ref' \in [Blocks -> Nat] /\ \A c \in Blocks : ref'[c] = IF c = b THEN 1 ELSE IF c = old THEN ref[old] - 1 ELSE ref[c]
  <2>1. ref \in [Blocks -> Nat]
    BY <1>1 DEF CountedIn
  <2> HIDE DEF old
  <2> QED  BY <1>2, <1>3, <1>4, <2>1
<1>9. ASSUME NEW c \in Blocks
      PROVE  /\ IsFiniteSet(UsesIn(tables', c)) /\ ref'[c] = Cardinality(UsesIn(tables', c))
             /\ c \in alloc' <=> ref'[c] > 0
  <2>1. /\ ref[c] \in Nat /\ IsFiniteSet(UsesIn(tables, c)) /\ ref[c] = Cardinality(UsesIn(tables, c))
        /\ c \in alloc <=> ref[c] > 0
    BY <1>1 DEF CountedIn
  <2>2. Occurrences(new, c)
          = Occurrences(ids, c) + (IF c = b THEN 1 ELSE 0) - (IF c = old THEN 1 ELSE 0)
    BY <1>1, <1>4, OccurrencesReplace DEF new
  <2>3. Occurrences(ids, c) \in Nat
    BY <1>1, PlaceFacts
  <2>4. /\ IsFiniteSet(UsesIn(tables', c))
        /\ Cardinality(UsesIn(tables', c))
             = Cardinality(UsesIn(tables, c)) - Occurrences(ids, c) + Occurrences(new, c)
    BY <1>7, <2>1 DEF SwapsTable
  <2> HIDE DEF old, ids
  <2>5. CASE c = b
    BY <1>3, <1>4, <1>8, <2>1, <2>2, <2>3, <2>4, <2>5
  <2>6. CASE c = old
    BY <1>2, <1>3, <1>4, <1>8, <2>1, <2>2, <2>3, <2>4, <2>6
  <2>7. CASE c # b /\ c # old
    BY <1>3, <1>8, <2>1, <2>2, <2>3, <2>4, <2>7
  <2> QED  BY <2>5, <2>6, <2>7
<1>10. CountedIn(alloc', ref', tables')
  <2>1. alloc' \subseteq Blocks
    BY <1>1, <1>3, <1>4 DEF CountedIn
  <2> QED  BY <1>8, <1>9, <2>1 DEF CountedIn
<1>11. PagedTypes'
  <2>1. queue' \in Seq(Blocks) /\ IsInjective(queue') /\ ToSet(queue') = Blocks \ alloc'
    BY <1>1, <1>3, BlockTaken
  <2>2. data' = [c \in Blocks |-> data'[c]]
    BY <1>1, <1>3 DEF PagedTypes
  <2>3. \A c \in DOMAIN hashTo' : hashTo'[c] \in Blocks
    BY <1>1, <1>3 DEF PagedTypes
  <2>4. fixed' \subseteq Blocks /\ alloc' \subseteq Blocks
    BY <1>1, <1>3, <1>4 DEF PagedTypes
  <2>5. \A p \in DOMAIN pindex' : pindex'[p] \in Seq(Blocks)
    BY <1>1, <1>3 DEF PagedTypes
  <2> QED  BY <2>1, <2>2, <2>3, <2>4, <2>5 DEF PagedTypes
<1>12. ASSUME NEW c \in Blocks, data'[c] # data[c]  PROVE c = b
  BY <1>1, <1>3, <1>12 DEF PagedTypes
<1>13. tables'[r].ids = new
  BY <1>7 DEF SwapsTable
<1> QED  BY <1>4, <1>5, <1>7, <1>10, <1>11, <1>12, <1>13 DEF PagedInv, SwapsTable

LEMMA StoreDoneCounts ==
  ASSUME PagedInv, NEW r \in DOMAIN tables, NEW t, StoreDone(r, t)
  PROVE  PagedInv'
<1> DEFINE ids == tables[r].ids
           end(i)  == IF i * BlockSize < Len(t) THEN i * BlockSize ELSE Len(t)
           ends(p) == {i \in DOMAIN ids : SubSeq(t, 1, end(i)) = p}
           new     == {SubSeq(t, 1, end(i)) : i \in DOMAIN ids}
<1>1. /\ pindex' = [p \in DOMAIN pindex \cup new |->
                     IF p \in new THEN SubSeq(ids, 1, Max(ends(p))) ELSE pindex[p]]
      /\ UNCHANGED <<ref, fixed, data, filled, alloc, queue, hashTo, tables>>
  BY DEF StoreDone
<1>2. ids \in Seq(Blocks)
  BY TableParts DEF PagedInv
<1>3. ASSUME NEW p \in new  PROVE SubSeq(ids, 1, Max(ends(p))) \in Seq(Blocks)
  <2>1. ends(p) # {}
    BY DEF end
  <2>2. ends(p) \in SUBSET (1..Len(ids)) /\ Len(ids) \in Nat
    BY <1>2
  <2> HIDE DEF ends, ids
  <2>3. Max(ends(p)) \in ends(p)
    BY <2>1, <2>2, MaxInSet, Zenon
  <2>4. Max(ends(p)) \in 1..Len(ids)
    BY <2>2, <2>3
  <2> QED  BY <1>2, <2>4
<1>4. PagedTypes
  BY DEF PagedInv
<1>5. \A p \in DOMAIN pindex' : pindex'[p] \in Seq(Blocks)
  <2> HIDE DEF new, ends, ids
  <2> QED  BY <1>1, <1>3, <1>4 DEF PagedTypes
<1>6. PagedTypes'
  <2> HIDE DEF new, ends, ids
  <2> QED  BY <1>1, <1>4, <1>5 DEF PagedTypes
<1> HIDE DEF new, ends, ids
<1> QED  BY <1>1, <1>6 DEF PagedInv

LEMMA ForkCounts ==
  ASSUME PagedInv, NEW r \in DOMAIN tables, NEW n, n \notin DOMAIN tables, PagedFork(r, n)
  PROVE  PagedInv' /\ DOMAIN tables' = DOMAIN tables \cup {n}
<1> DEFINE ids == tables[r].ids
<1>1. /\ PagedTypes /\ TabsTyped(tables) /\ CountedIn(alloc, ref, tables)
      /\ tables[r] = Table(ids, tables[r].num) /\ ids \in Seq(Blocks)
      /\ ToSet(ids) \subseteq alloc
  BY TableParts, TablesAllocated DEF PagedInv
<1>2. /\ ref' = [b \in Blocks |-> IF b \in alloc THEN ref[b] + Occurrences(ids, b) ELSE ref[b]]
      /\ tables' = With(tables, n, Table(ids, tables[r].num))
      /\ UNCHANGED <<fixed, data, filled, alloc, queue, hashTo, pindex>>
  BY <1>1 DEF PagedFork
<1>3. ref' = [b \in Blocks |-> ref[b] + Occurrences(ids, b)]
  <2>1. ASSUME NEW b \in Blocks, b \notin alloc  PROVE ref[b] = ref[b] + Occurrences(ids, b)
    <3>1. Occurrences(ids, b) = 0
      BY <1>1, <2>1, Unused
    <3>2. ref[b] \in Nat
      BY <1>1 DEF CountedIn
    <3> QED  BY <3>1, <3>2
  <2> HIDE DEF ids
  <2> QED  BY <1>2, <2>1
<1>4. GivesTable(tables, n, ids, tables')
  BY <1>1, <1>2, NewTable, Zenon
<1>5. CountedIn(alloc, ref', tables')
  BY <1>1, <1>3, <1>4, CountGiven, Zenon
<1>6. PagedTypes' /\ alloc' = alloc
  BY <1>1, <1>2 DEF PagedTypes
<1> QED  BY <1>4, <1>5, <1>6 DEF PagedInv, GivesTable

LEMMA ReleaseCounts ==
  ASSUME PagedInv, entries \subseteq DOMAIN tables, NEW r, PagedRelease(r)
  PROVE  PagedInv' /\ r \in entries /\ DOMAIN tables' = DOMAIN tables \ {r}
<1> DEFINE ids == tables[r].ids
<1>1. r \in entries /\ r \in DOMAIN tables /\ HasTable(r)
  BY DEF PagedRelease, HasTable
<1>2. /\ PagedTypes /\ TabsTyped(tables) /\ CountedIn(alloc, ref, tables) /\ ids \in Seq(Blocks)
  BY <1>1, TableParts DEF PagedInv
<1>3. PICK s \in SetToSeqs(Freed(ids)) :
        /\ tables' = Restrict(tables, DOMAIN tables \ {r})
        /\ ref' = [b \in Blocks |-> IF b \in Freed(ids) THEN 0
                                    ELSE IF b \in alloc THEN ref[b] - Occurrences(ids, b)
                                    ELSE ref[b]]
        /\ alloc' = alloc \ Freed(ids) /\ queue' = queue \o s
        /\ UNCHANGED <<fixed, data, filled, hashTo, pindex>>
  BY <1>1 DEF PagedRelease, FreeOrder
<1>4. TakesTable(tables, r, tables')
  BY <1>1, <1>2, <1>3, DropTable, Zenon
<1>5. \A b \in Blocks : LeftOver(alloc, ref, ids, tables', b)
  BY <1>1, <1>2, <1>4, CountTaken, Zenon
<1>6. Freed(ids) \subseteq alloc /\ alloc \subseteq Blocks
  BY <1>2 DEF Freed, PagedTypes
<1>7. ASSUME NEW b \in Blocks
      PROVE  /\ ref'[b] \in Nat /\ ref'[b] = Cardinality(UsesIn(tables', b))
             /\ b \in alloc' <=> ref'[b] > 0
  <2>1. b \in Freed(ids) <=> b \in alloc /\ ref[b] <= Occurrences(ids, b)
    <3>1. b \in ToSet(ids) \/ ~(Occurrences(ids, b) > 0)
      BY <1>2, PlaceFacts
    <3>2. b \in alloc => ref[b] > 0
      BY <1>2 DEF CountedIn
    <3>3. ref[b] \in Nat /\ Occurrences(ids, b) \in Nat
      BY <1>5 DEF LeftOver
    <3> HIDE DEF ids
    <3> QED  BY <3>1, <3>2, <3>3 DEF Freed
  <2>2. ref'[b] = IF b \in Freed(ids) THEN 0
                  ELSE IF b \in alloc THEN ref[b] - Occurrences(ids, b) ELSE ref[b]
    BY <1>3
  <2>3. b \in alloc' <=> b \in alloc /\ b \notin Freed(ids)
    BY <1>3
  <2> HIDE DEF ids
  <2> QED  BY <1>5, <2>1, <2>2, <2>3 DEF LeftOver
<1>8. CountedIn(alloc', ref', tables')
  <2>1. ref' \in [Blocks -> Nat] /\ alloc' \subseteq Blocks
    BY <1>3, <1>6, <1>7
  <2> QED  BY <1>5, <1>7, <2>1 DEF CountedIn, LeftOver
<1>9. PagedTypes'
  <2>1. IsFiniteSet(Freed(ids))
    BY <1>6, PagedAssumption, FS_Subset
  <2>2. s \in Seq(Blocks) /\ IsInjective(s) /\ ToSet(s) = Freed(ids)
    <3>1. s \in Seq(Freed(ids)) /\ IsInjective(s) /\ ToSet(s) = Freed(ids)
      BY <2>1, SetToSeqsFacts
    <3> QED  BY <1>6, <3>1
  <2>3. queue \in Seq(Blocks) /\ IsInjective(queue) /\ ToSet(queue) = Blocks \ alloc
    BY <1>2 DEF PagedTypes
  <2>4. ToSet(queue) \cap ToSet(s) = {}
    BY <1>6, <2>2, <2>3
  <2>5. /\ queue' \in Seq(Blocks) /\ IsInjective(queue')
        /\ ToSet(queue') = ToSet(queue) \cup ToSet(s)
    BY <1>3, <2>2, <2>3, <2>4, ToSetConcat
  <2>6. ToSet(queue') = Blocks \ alloc'
    BY <1>3, <1>6, <2>2, <2>3, <2>5
  <2> QED  BY <1>2, <1>3, <2>5, <2>6 DEF PagedTypes
<1> QED  BY <1>1, <1>4, <1>8, <1>9 DEF PagedInv, TakesTable

\* The tier as it is made and as it is cleared.
LEMMA NothingUsed ==
  ASSUME NEW f, f = [b \in Blocks |-> 0], NEW t, t = <<>>
  PROVE  TabsTyped(t) /\ CountedIn({}, f, t)
<1>1. DOMAIN t = {}
  OBVIOUS
<1>2. TabsTyped(t)
  <2>1. t = [r \in DOMAIN t |-> Table(t[r].ids, t[r].num)]
    BY <1>1
  <2> QED  BY <1>1, <2>1 DEF TabsTyped
<1>3. \A b : UsesIn(t, b) = {}
  BY <1>1 DEF UsesIn
<1>4. \A b \in Blocks : IsFiniteSet(UsesIn(t, b)) /\ f[b] = Cardinality(UsesIn(t, b))
  BY <1>3, FS_EmptySet
<1> QED  BY <1>2, <1>4 DEF CountedIn

LEMMA BlockOrderFacts ==
  BlockOrder \in Seq(Blocks) /\ IsInjective(BlockOrder) /\ ToSet(BlockOrder) = Blocks
BY PagedAssumption, SetToSeqFacts, Zenon DEF BlockOrder

LEMMA ClearCounts ==
  ASSUME PagedClear
  PROVE  PagedInv' /\ tables' = <<>> /\ entries' = {} /\ fixed' = {}
<1>1. /\ ref' = [b \in Blocks |-> 0] /\ fixed' = {} /\ data' = [b \in Blocks |-> <<>>]
      /\ alloc' = {} /\ queue' = BlockOrder
      /\ hashTo' = <<>> /\ pindex' = <<>> /\ tables' = <<>> /\ entries' = {}
  BY DEF PagedClear, PagedFresh
<1>2. TabsTyped(tables') /\ CountedIn(alloc', ref', tables')
  BY <1>1, NothingUsed
<1>3. PagedTypes'
  BY <1>1, BlockOrderFacts DEF PagedTypes
<1> QED  BY <1>1, <1>2, <1>3 DEF PagedInv

LEMMA InitCounts ==
  ASSUME PagedInit
  PROVE  PagedInv
<1>1. /\ ref = [b \in Blocks |-> 0] /\ fixed = {} /\ data = [b \in Blocks |-> <<>>]
      /\ alloc = {} /\ queue = BlockOrder /\ hashTo = <<>> /\ pindex = <<>> /\ tables = <<>>
  BY DEF PagedInit
<1>2. TabsTyped(tables) /\ CountedIn(alloc, ref, tables)
  BY <1>1, NothingUsed
<1>3. PagedTypes
  BY <1>1, BlockOrderFacts DEF PagedTypes
<1> QED  BY <1>2, <1>3 DEF PagedInv

LEMMA PinCounts ==
  ASSUME PagedInv, NEW t, PagedPin(t) \/ PagedUnpin(t)
  PROVE  PagedInv'
<1>1. /\ fixed' \subseteq fixed \cup Pins(t)
      /\ UNCHANGED <<ref, data, filled, alloc, queue, hashTo, pindex, tables, entries>>
  BY DEF PagedPin, PagedUnpin
<1>2. Pins(t) \subseteq alloc
  BY DEF Pins
<1> QED  BY <1>1, <1>2 DEF PagedInv, PagedTypes

-----------------------------------------------------------------------------
(* The calls: who has a table, and which call is under way.                 *)

FlowInv ==
  /\ DOMAIN tables \subseteq Reqs /\ entries \subseteq DOMAIN tables
  /\ phase \in [Reqs -> Phases] /\ \A r \in DOMAIN tables : phase[r] # "new"
  /\ busy = [op |-> busy.op, req |-> busy.req, at |-> busy.at]
  /\ busy.op # "idle" => busy.req \in DOMAIN tables
  /\ busy.op = "copy" => busy.at \in DOMAIN tables[busy.req].ids

\* The tier hears nothing.
LEMMA PagedSame ==
  ASSUME PagedInv, UNCHANGED pagedVars
  PROVE  PagedInv' /\ tables' = tables /\ entries' = entries /\ data' = data /\ fixed' = fixed
BY DEF pagedVars, PagedInv, PagedTypes

\* Which steps touch the blocks, and how.
PagedStepOk ==
  /\ PagedInv'
  /\ \/ \A b \in Blocks : data'[b] # data[b] => b \notin alloc /\ b \notin fixed
     \/ tables' = <<>> /\ fixed' = {}

LEMMA QuietStep ==
  ASSUME PagedInv, FlowInv, UNCHANGED pagedVars, UNCHANGED busy, phase' \in [Reqs -> Phases],
         \A r \in Reqs : phase'[r] = "new" => phase[r] = "new"
  PROVE  PagedStepOk /\ FlowInv'
<1>1. PagedInv' /\ tables' = tables /\ entries' = entries /\ data' = data /\ fixed' = fixed
  BY PagedSame
<1> QED  BY <1>1 DEF PagedStepOk, FlowInv

\* The phase of one request changes, to one that is not "new".
LEMMA PhaseMoves ==
  ASSUME phase \in [Reqs -> Phases], NEW r \in Reqs, NEW p \in Phases, p # "new",
         phase' = [phase EXCEPT ![r] = p]
  PROVE  /\ phase' \in [Reqs -> Phases] /\ phase'[r] = p
         /\ \A x \in Reqs : phase'[x] = "new" => phase[x] = "new"
BY DEF Phases

LEMMA PromptFacts ==
  ASSUME NEW r \in Reqs
  PROVE  Prompt[r] \in Seq(Nat) /\ Prompt[r] # <<>>
BY PromptAssumption

LEMMA AddKeeps ==
  ASSUME PagedInv, FlowInv, NEW r \in Reqs, Add(r)
  PROVE  PagedStepOk /\ FlowInv'
<1>1. /\ phase[r] = "new" /\ busy = Idle /\ phase' = [phase EXCEPT ![r] = "waiting"]
      /\ busy' = busy
  BY DEF Add, Goes
<1>2. /\ phase' \in [Reqs -> Phases] /\ phase'[r] = "waiting"
      /\ \A x \in Reqs : phase'[x] = "new" => phase[x] = "new"
  BY <1>1, PhaseMoves DEF FlowInv, Phases
<1>3. CASE UNCHANGED pagedVars
  BY <1>1, <1>2, <1>3, QuietStep
<1>4. CASE PagedFetch(r, PagedServes(Prompt[r]))
  <2>1. r \notin DOMAIN tables
    BY <1>1 DEF FlowInv
  <2>2. PagedInv' /\ DOMAIN tables' \subseteq DOMAIN tables \cup {r}
    BY <1>4, <2>1, PromptFacts, FetchCounts
  <2>3. data' = data /\ entries' = entries
    BY <1>4 DEF PagedFetch
  <2>4. DOMAIN tables \subseteq DOMAIN tables'
    BY <1>4 DEF PagedFetch, With
  <2> QED  BY <1>1, <1>2, <2>2, <2>3, <2>4 DEF PagedStepOk, FlowInv, Idle
<1> QED  BY <1>3, <1>4 DEF Add

LEMMA FinishKeeps ==
  ASSUME PagedInv, FlowInv, NEW r \in Reqs, NEW x, Finish(r, x)
  PROVE  PagedStepOk /\ FlowInv'
<1>1. phase' = [phase EXCEPT ![r] = "done"] /\ busy = Idle
  BY DEF Finish, Goes
<1>2. /\ phase' \in [Reqs -> Phases] /\ phase'[r] = "done"
      /\ \A y \in Reqs : phase'[y] = "new" => phase[y] = "new"
  BY <1>1, PhaseMoves DEF FlowInv, Phases
<1>3. CASE UNCHANGED <<pagedVars, busy>>
  BY <1>2, <1>3, QuietStep
<1>4. CASE StoreTable(r) /\ busy' = [op |-> "store", req |-> r, at |-> 0]
  <2>1. PagedInv' /\ DOMAIN tables' = DOMAIN tables \cup {r}
    BY <1>4, StoreTableCounts
  <2>2. data' = data /\ entries' = entries
    BY <1>4 DEF StoreTable
  <2>3. busy'.op = "store" /\ busy'.req = r /\ busy'.at = 0
    BY <1>4
  <2> QED  BY <1>2, <1>4, <2>1, <2>2, <2>3 DEF PagedStepOk, FlowInv
<1> QED  BY <1>3, <1>4 DEF Finish

LEMMA RecoverKeeps ==
  ASSUME FlowInv, Recover
  PROVE  PagedStepOk /\ FlowInv'
<1>1. PagedInv' /\ tables' = <<>> /\ entries' = {} /\ fixed' = {}
  BY ClearCounts DEF Recover
<1>2. DOMAIN tables' = {}
  BY <1>1
<1>3. busy = Idle /\ busy' = busy
  BY DEF Recover
<1>4. phase' \in [Reqs -> Phases]
  BY DEF Recover, FlowInv, Phases
<1> QED  BY <1>1, <1>2, <1>3, <1>4 DEF PagedStepOk, FlowInv, Idle

LEMMA PagedStoreKeeps ==
  ASSUME PagedInv, FlowInv, PagedStore
  PROVE  PagedStepOk /\ FlowInv'
<1> DEFINE r == busy.req
           t == Full(r)
<1>1. busy.op = "store" /\ r \in DOMAIN tables /\ phase' = phase
  BY DEF PagedStore, FlowInv
<1>2. CASE StoreShared(r, t) /\ UNCHANGED busy
  <2>1. PagedInv' /\ DOMAIN tables' = DOMAIN tables
    BY <1>1, <1>2, StoreSharedCounts
  <2>2. data' = data /\ entries' = entries
    BY <1>2 DEF StoreShared
  <2> QED  BY <1>1, <1>2, <2>1, <2>2 DEF PagedStepOk, FlowInv
<1>3. CASE StoreNew(r, t, kv[r]) /\ UNCHANGED busy
  <2>1. /\ PagedInv' /\ DOMAIN tables' = DOMAIN tables
        /\ \A b \in Blocks : data'[b] # data[b] => b \notin alloc /\ b \notin fixed
    BY <1>1, <1>3, StoreNewCounts
  <2>2. entries' = entries
    BY <1>3 DEF StoreNew
  <2> QED  BY <1>1, <1>3, <2>1, <2>2 DEF PagedStepOk, FlowInv
<1>4. CASE StoreDone(r, t) /\ busy' = Idle
  <2>1. PagedInv'
    BY <1>1, <1>4, StoreDoneCounts
  <2>2. data' = data /\ tables' = tables /\ entries' = entries \cup {r}
    BY <1>4 DEF StoreDone
  <2> QED  BY <1>1, <1>4, <2>1, <2>2 DEF PagedStepOk, FlowInv, Idle
<1>5. CASE busy' = Idle /\ UNCHANGED pagedVars
  <2>1. PagedInv' /\ tables' = tables /\ entries' = entries /\ data' = data
    BY <1>5, PagedSame
  <2> QED  BY <1>1, <1>5, <2>1 DEF PagedStepOk, FlowInv, Idle
<1> QED  BY <1>2, <1>3, <1>4, <1>5 DEF PagedStore

LEMMA PagedCopyKeeps ==
  ASSUME PagedInv, FlowInv, PagedCopy
  PROVE  PagedStepOk /\ FlowInv'
<1> DEFINE r == busy.req
           ids == tables[r].ids
           next == IF busy.at < Len(ids) THEN [busy EXCEPT !.at = @ + 1] ELSE Idle
<1>1. busy.op = "copy" /\ r \in DOMAIN tables /\ busy.at \in DOMAIN ids /\ phase' = phase
  BY DEF PagedCopy, FlowInv
<1>2. ids \in Seq(Blocks)
  BY <1>1, TableParts DEF PagedInv
<1>3. /\ next = [op |-> next.op, req |-> next.req, at |-> next.at]
      /\ next.op # "idle" => next.req = r /\ next.at \in DOMAIN ids
  <2>1. CASE busy.at < Len(ids)
    <3> DEFINE j == busy.at + 1
    <3>1. j \in DOMAIN ids
      BY <1>1, <1>2, <2>1
    <3>2. next = [op |-> busy.op, req |-> r, at |-> j]
      BY <2>1 DEF FlowInv
    <3> HIDE DEF j, ids, next
    <3> QED  BY <3>1, <3>2
  <2>2. CASE ~(busy.at < Len(ids))
    <3>1. next = Idle
      BY <2>2
    <3> HIDE DEF next
    <3> QED  BY <3>1 DEF Idle
  <2> QED  BY <2>1, <2>2
<1> HIDE DEF next
<1>4. CASE CopyBlock(r, busy.at) /\ busy' = next
  <2>1. /\ PagedInv' /\ DOMAIN tables' = DOMAIN tables /\ DOMAIN tables'[r].ids = DOMAIN ids
        /\ \A b \in Blocks : data'[b] # data[b] => b \notin alloc /\ b \notin fixed
    BY <1>1, <1>4, CopyCounts
  <2>2. entries' = entries
    BY <1>4 DEF CopyBlock
  <2> HIDE DEF ids
  <2> QED  BY <1>1, <1>3, <1>4, <2>1, <2>2 DEF PagedStepOk, FlowInv
<1>5. CASE busy' \in {next, Idle} /\ UNCHANGED pagedVars
  <2>1. PagedInv' /\ tables' = tables /\ entries' = entries /\ data' = data
    BY <1>5, PagedSame
  <2> QED  BY <1>1, <1>3, <1>5, <2>1 DEF PagedStepOk, FlowInv, Idle
<1>6. \/ CopyBlock(r, busy.at) /\ busy' = next
      \/ busy' \in {next, Idle} /\ UNCHANGED pagedVars
  BY DEF PagedCopy, next
<1> QED  BY <1>4, <1>5, <1>6

LEMMA EmbedderKeeps ==
  ASSUME PagedInv, FlowInv,
         \/ \E r \in Reqs : Release(r) \/ CopyOnWrite(r) \/ \E n \in Reqs : Fork(r, n)
         \/ \E t \in Texts : Pin(t) \/ Unpin(t)
  PROVE  PagedStepOk /\ FlowInv'
<1>0. phase \in [Reqs -> Phases] /\ entries \subseteq DOMAIN tables
  BY DEF FlowInv
<1>1. ASSUME NEW r \in Reqs, Release(r)  PROVE PagedStepOk /\ FlowInv'
  <2>1. PagedRelease(r) /\ phase' = phase /\ busy = Idle /\ busy' = busy
    BY <1>1 DEF Release, Calls
  <2>2. PagedInv' /\ r \in entries /\ DOMAIN tables' = DOMAIN tables \ {r}
    BY <1>0, <2>1, ReleaseCounts
  <2>3. data' = data /\ entries' = entries \ {r}
    BY <2>1 DEF PagedRelease
  <2> QED  BY <2>1, <2>2, <2>3 DEF PagedStepOk, FlowInv, Idle
<1>2. ASSUME NEW r \in Reqs, CopyOnWrite(r)  PROVE PagedStepOk /\ FlowInv'
  <2>1. /\ UNCHANGED pagedVars /\ phase' = phase /\ r \in entries /\ tables[r].ids # <<>>
        /\ busy' = [op |-> "copy", req |-> r, at |-> 1]
    BY <1>2 DEF CopyOnWrite
  <2>2. PagedInv' /\ tables' = tables /\ entries' = entries /\ data' = data
    BY <2>1, PagedSame
  <2>3. r \in DOMAIN tables /\ 1 \in DOMAIN tables[r].ids
    <3>1. r \in DOMAIN tables
      BY <1>0, <2>1
    <3>2. tables[r].ids \in Seq(Blocks)
      BY <3>1, TableParts DEF PagedInv
    <3> QED  BY <2>1, <3>1, <3>2
  <2>4. busy'.op = "copy" /\ busy'.req = r /\ busy'.at = 1
    BY <2>1
  <2> QED  BY <2>1, <2>2, <2>3, <2>4 DEF PagedStepOk, FlowInv
<1>3. ASSUME NEW r \in Reqs, NEW n \in Reqs, Fork(r, n)  PROVE PagedStepOk /\ FlowInv'
  <2>1. /\ PagedFork(r, n) /\ phase[n] = "new" /\ phase' = [phase EXCEPT ![n] = "forked"]
        /\ busy = Idle /\ busy' = busy /\ r \in entries
    BY <1>3 DEF Fork, Calls, PagedFork
  <2>2. r \in DOMAIN tables /\ n \notin DOMAIN tables
    BY <2>1 DEF FlowInv
  <2>3. PagedInv' /\ DOMAIN tables' = DOMAIN tables \cup {n}
    BY <2>1, <2>2, ForkCounts
  <2>4. data' = data /\ entries' = entries \cup {n}
    BY <2>1 DEF PagedFork
  <2>5. /\ phase' \in [Reqs -> Phases] /\ phase'[n] = "forked"
        /\ \A x \in Reqs : phase'[x] = "new" => phase[x] = "new"
    BY <1>0, <2>1, PhaseMoves DEF Phases
  <2> QED  BY <2>1, <2>3, <2>4, <2>5 DEF PagedStepOk, FlowInv, Idle
<1>4. ASSUME NEW t, Pin(t) \/ Unpin(t)  PROVE PagedStepOk /\ FlowInv'
  <2>1. phase' = phase /\ busy' = busy
    BY <1>4 DEF Pin, Unpin
  <2>2. CASE UNCHANGED pagedVars
    BY <1>0, <2>1, <2>2, QuietStep
  <2>3. CASE PagedPin(t) \/ PagedUnpin(t)
    <3>1. PagedInv'
      BY <2>3, PinCounts
    <3>2. data' = data /\ tables' = tables /\ entries' = entries
      BY <2>3 DEF PagedPin, PagedUnpin
    <3> QED  BY <2>1, <3>1, <3>2 DEF PagedStepOk, FlowInv
  <2> QED  BY <1>4, <2>2, <2>3 DEF Pin, Unpin
<1> QED  BY <1>1, <1>2, <1>3, <1>4

LEMMA PagedNext ==
  ASSUME PagedInv, FlowInv, [Next]_vars
  PROVE  PagedStepOk /\ FlowInv'
<1>0. phase \in [Reqs -> Phases]
  BY DEF FlowInv
<1>1. ASSUME NEW r \in Reqs, Insert(r)  PROVE PagedStepOk /\ FlowInv'
  <2>1. UNCHANGED pagedVars /\ UNCHANGED busy /\ phase' = [phase EXCEPT ![r] = "running"]
    BY <1>1 DEF Insert, Goes
  <2>2. /\ phase' \in [Reqs -> Phases]
        /\ \A x \in Reqs : phase'[x] = "new" => phase[x] = "new"
    BY <1>0, <2>1, PhaseMoves DEF Phases
  <2> QED  BY <2>1, <2>2, QuietStep
<1>2. ASSUME NEW r \in Reqs, Abort(r)  PROVE PagedStepOk /\ FlowInv'
  <2>1. UNCHANGED pagedVars /\ UNCHANGED busy /\ phase' = [phase EXCEPT ![r] = "gone"]
    BY <1>2 DEF Abort
  <2>2. /\ phase' \in [Reqs -> Phases]
        /\ \A x \in Reqs : phase'[x] = "new" => phase[x] = "new"
    BY <1>0, <2>1, PhaseMoves DEF Phases
  <2> QED  BY <2>1, <2>2, QuietStep
<1>3. ASSUME \/ \E r \in Reqs, x \in Vocab : Decode(r, x)
             \/ UNCHANGED vars
      PROVE  PagedStepOk /\ FlowInv'
  <2>1. UNCHANGED pagedVars /\ UNCHANGED busy /\ phase' = phase
    BY <1>3 DEF Decode, vars, flowVars
  <2> QED  BY <1>0, <2>1, QuietStep
<1>4. ASSUME NEW r \in Reqs, Add(r)  PROVE PagedStepOk /\ FlowInv'
  BY <1>4, AddKeeps
<1>5. ASSUME NEW r \in Reqs, NEW x \in Vocab, Finish(r, x)  PROVE PagedStepOk /\ FlowInv'
  BY <1>5, FinishKeeps
<1>6. CASE Recover
  BY <1>6, RecoverKeeps
<1>7. CASE PagedStore
  BY <1>7, PagedStoreKeeps
<1>8. CASE PagedCopy
  BY <1>8, PagedCopyKeeps
<1>9. ASSUME \/ \E r \in Reqs : Release(r) \/ CopyOnWrite(r) \/ \E n \in Reqs : Fork(r, n)
             \/ \E t \in Texts : Pin(t) \/ Unpin(t)
      PROVE  PagedStepOk /\ FlowInv'
  BY <1>9, EmbedderKeeps
<1> QED  BY <1>1, <1>2, <1>3, <1>4, <1>5, <1>6, <1>7, <1>8, <1>9 DEF Next

\* The count of every block is that of its places in tables, and the tables are
\* those of calls under way or past, whatever the serving path and the embedder do.
THEOREM PagedInvariant == Spec => [](PagedInv /\ FlowInv)
<1>1. Init => PagedInv /\ FlowInv
  <2> SUFFICES ASSUME Init  PROVE PagedInv /\ FlowInv
    OBVIOUS
  <2>1. PagedInv
    BY InitCounts DEF Init
  <2>2. DOMAIN tables = {} /\ entries = {} /\ busy = Idle /\ phase \in [Reqs -> Phases]
    BY DEF Init, PagedInit, Phases
  <2> QED  BY <2>1, <2>2 DEF FlowInv, Idle
<1>2. PagedInv /\ FlowInv /\ [Next]_vars => (PagedInv /\ FlowInv)'
  BY PagedNext DEF PagedStepOk
<1> QED  BY <1>1, <1>2, PTL DEF Spec

\* The blocks are shared out between the free queue and allocated_blocks, and
\* each is referenced as often as the tables say.
THEOREM BlocksAreCounted == Spec => []PagedAccounts
<1>1. PagedInv => PagedAccounts
  <2> SUFFICES ASSUME PagedInv  PROVE PagedAccounts
    OBVIOUS
  <2>1. Len(queue) = Cardinality(ToSet(queue)) /\ ToSet(queue) = Blocks \ alloc
    BY InjectiveCard DEF PagedInv, PagedTypes
  <2>2. \A b : Uses(b) = UsesIn(tables, b)
    BY DEF Uses, Places, UsesIn, PlacesIn
  <2> QED  BY <2>1, <2>2 DEF PagedInv, CountedIn, PagedAccounts
<1> QED  BY <1>1, PagedInvariant, PTL

\* Nobody writes to a block that a request keeps in its table: what is handed
\* out is free, and what is free is in no table.
THEOREM SharedBlocksAreStable == Spec => SharedIsStable
<1>1. PagedInv /\ FlowInv /\ [Next]_vars =>
        [\A r \in DOMAIN tables \cap DOMAIN tables' :
           \A b \in ToSet(tables[r].ids) \cap ToSet(tables'[r].ids) : data'[b] = data[b]]_vars
  <2> SUFFICES ASSUME PagedInv, FlowInv, [Next]_vars,
                      NEW r \in DOMAIN tables \cap DOMAIN tables',
                      NEW b \in ToSet(tables[r].ids) \cap ToSet(tables'[r].ids)
               PROVE  data'[b] = data[b]
    OBVIOUS
  <2>1. b \in alloc /\ b \in Blocks
    BY TablesAllocated DEF PagedInv, CountedIn
  <2>2. \/ \A c \in Blocks : data'[c] # data[c] => c \notin alloc /\ c \notin fixed
        \/ tables' = <<>>
    BY PagedNext DEF PagedStepOk
  <2> QED  BY <2>1, <2>2
<1> QED  BY <1>1, PagedInvariant, PTL DEF Spec, SharedIsStable

-----------------------------------------------------------------------------
(* The trie: its LRU list, its pinned set, its dicts and its counter.       *)

\* Rows, and the states made of them.
Row == Seq(Nat) \ {<<>>}
KVs == Seq(Row)

EntriesTyped == \A k \in Entries : k \in Row /\ kvOf[k] \in KVs

TrieInv ==
  /\ lru \in Seq(Entries) /\ IsInjective(lru)
  /\ ToSet(lru) \cup pinned = Entries /\ ToSet(lru) \cap pinned = {}
  /\ IsFiniteSet(pinned) /\ Cardinality(pinned) <= MaxEntries
  /\ Cardinality(Entries) <= MaxEntries
  /\ EntriesTyped
  /\ nodes = UNION {PathOf(k) : k \in Entries}
  /\ IsFiniteSet(Held(kvOf)) /\ total = Cardinality(Held(kvOf)) /\ total <= MaxBytes

\* Nothing that is pinned leaves or changes.
TrieStepOk == TrieInv' /\ \A k \in pinned \cap pinned' : k \in Entries' /\ kvOf'[k] = kvOf[k]

LEMMA MovedFacts ==
  ASSUME NEW S, NEW s \in Seq(S), IsInjective(s), NEW k \in S
  PROVE  /\ Moved(s, k) \in Seq(S) /\ IsInjective(Moved(s, k))
         /\ ToSet(Moved(s, k)) = ToSet(s) \cup {k}
<1> DEFINE d == RemoveFirst(s, k)
<1>1. d \in Seq(S) /\ ToSet(d) = ToSet(s) \ {k} /\ IsInjective(d)
  BY ToSetRemoveFirst
<1> HIDE DEF d
<1>2. /\ Append(d, k) \in Seq(S) /\ IsInjective(Append(d, k))
      /\ ToSet(Append(d, k)) = ToSet(d) \cup {k}
  BY <1>1, ToSetAppend
<1> QED  BY <1>1, <1>2 DEF d, Moved

LEMMA FoundFacts ==
  ASSUME NEW t, NEW k \in Found(t)
  PROVE  k \in Entries
BY DEF Found, NextBelow, Extensions

LEMMA TouchKeeps ==
  ASSUME TrieInv, NEW t, NEW s \in TrieServes(t), TrieTouch(s.used)
  PROVE  TrieStepOk /\ kvOf' = kvOf
<1> DEFINE u == s.used
<1>1. u \subseteq Entries \ pinned
  <2>1. ASSUME NEW k \in Entries  PROVE Hit(k, t).used \subseteq Entries \ pinned
    BY <2>1 DEF Hit
  <2>2. \/ \E k \in Found(t) : s = Hit(k, t)
        \/ s = [kv |-> NoKV, rest |-> t, used |-> {}]
    BY DEF TrieServes
  <2> QED  BY <2>1, <2>2, FoundFacts
<1>2. UNCHANGED <<nodes, kvOf, pinned, total>> /\ Entries' = Entries
  BY DEF TrieTouch, Entries
<1> HIDE DEF u
<1>3. lru' = IF u = {} THEN lru ELSE Moved(lru, CHOOSE k \in u : TRUE)
  BY DEF TrieTouch, u
<1>4. lru' \in Seq(Entries) /\ IsInjective(lru') /\ ToSet(lru') = ToSet(lru)
  <2>1. CASE u = {}
    BY <1>3, <2>1 DEF TrieInv
  <2>2. CASE u # {}
    <3>1. PICK k \in u : lru' = Moved(lru, k)
      BY <1>3, <2>2
    <3>2. k \in Entries /\ k \in ToSet(lru)
      BY <1>1, <3>1 DEF TrieInv
    <3>3. /\ Moved(lru, k) \in Seq(Entries) /\ IsInjective(Moved(lru, k))
          /\ ToSet(Moved(lru, k)) = ToSet(lru) \cup {k}
      BY <3>2, MovedFacts DEF TrieInv
    <3> QED  BY <3>1, <3>2, <3>3
  <2> QED  BY <2>1, <2>2
<1>5. TrieInv'
  <2>1. EntriesTyped' /\ Held(kvOf)' = Held(kvOf) /\ (UNION {PathOf(k) : k \in Entries})' = nodes'
    BY <1>2 DEF EntriesTyped, TrieInv, Held
  <2> QED  BY <1>2, <1>4, <2>1 DEF TrieInv
<1> QED  BY <1>2, <1>5 DEF TrieStepOk, TrieInv

\* The rows of the entries K among the states st.
HeldOf(st, K) == UNION {{k} \X DOMAIN st[k] : k \in K}

LEMMA HeldFacts ==
  ASSUME NEW st, NEW K
  PROVE  /\ Held(Restrict(st, K)) = HeldOf(st, K)
         /\ Held(st) = HeldOf(st, DOMAIN st)
         /\ \A g : (\A k \in K : g[k] = st[k]) => HeldOf(g, K) = HeldOf(st, K)
         /\ \A J : J \subseteq K => HeldOf(st, J) \subseteq HeldOf(st, K)
BY DEF Held, HeldOf, Restrict

\* One entry less, and one more.
LEMMA HeldCounts ==
  ASSUME NEW st, NEW K, NEW k, st[k] \in KVs, IsFiniteSet(HeldOf(st, K))
  PROVE  /\ k \in K => /\ IsFiniteSet(HeldOf(st, K \ {k}))
                       /\ Cardinality(HeldOf(st, K)) \in Nat
                       /\ Cardinality(HeldOf(st, K \ {k})) \in Nat
                       /\ Cardinality(HeldOf(st, K \ {k})) = Cardinality(HeldOf(st, K)) - Len(st[k])
         /\ k \notin K => /\ IsFiniteSet(HeldOf(st, K \cup {k}))
                          /\ Cardinality(HeldOf(st, K \cup {k})) = Cardinality(HeldOf(st, K)) + Len(st[k])
<1> DEFINE P == {k} \X DOMAIN st[k]
<1>1. IsFiniteSet(P) /\ Cardinality(P) = Len(st[k]) /\ Len(st[k]) \in Nat
  <2>1. DOMAIN st[k] = 1..Len(st[k]) /\ Len(st[k]) \in Nat
    BY DEF KVs
  <2> DEFINE n == Len(st[k])
             f == [i \in 1..n |-> <<k, i>>]
  <2>2. f \in Bijection(1..n, P)
    <3>1. f \in [1..n -> P]
      BY <2>1
    <3>2. \A x, y \in 1..n : f[x] = f[y] => x = y
      OBVIOUS
    <3>3. \A y \in P : \E x \in 1..n : f[x] = y
      BY <2>1
    <3> HIDE DEF f, P, n
    <3> QED  BY <3>1, <3>2, <3>3 DEF Bijection, Injection, Surjection, IsInjective
  <2>3. ExistsBijection(1..n, P)
    BY <2>2, Zenon DEF ExistsBijection
  <2>4. IsFiniteSet(1..n) /\ Cardinality(1..n) = n
    BY <2>1, FS_Interval
  <2> QED  BY <2>1, <2>3, <2>4, FS_Bijection, ZenonT(30)
<1>2. ASSUME k \in K
      PROVE  /\ HeldOf(st, K) = HeldOf(st, K \ {k}) \cup P
             /\ HeldOf(st, K \ {k}) \cap P = {}
  BY <1>2 DEF HeldOf
<1>3. ASSUME k \notin K
      PROVE  /\ HeldOf(st, K \cup {k}) = HeldOf(st, K) \cup P
             /\ HeldOf(st, K) \cap P = {}
  BY <1>3 DEF HeldOf
<1> HIDE DEF P
<1>4. ASSUME NEW A, NEW B, IsFiniteSet(A), A = B \cup P, B \cap P = {}
      PROVE  /\ IsFiniteSet(B) /\ Cardinality(A) \in Nat /\ Cardinality(B) \in Nat
             /\ Cardinality(B) = Cardinality(A) - Len(st[k])
  <2>1. B \in SUBSET A
    BY <1>4
  <2>2. IsFiniteSet(B)
    BY <1>4, <2>1, FS_Subset
  <2>3. Cardinality(A) = Cardinality(B) + Cardinality(P) - Cardinality(B \cap P)
    BY <1>1, <1>4, <2>2, FS_Union
  <2>4. Cardinality(B \cap P) = 0
    BY <1>4, FS_EmptySet
  <2>5. Cardinality(A) \in Nat /\ Cardinality(B) \in Nat
    BY <1>4, <2>2, FS_CardinalityType
  <2> QED  BY <1>1, <2>2, <2>3, <2>4, <2>5
<1>5. ASSUME NEW B, IsFiniteSet(B), B \cap P = {}
      PROVE  IsFiniteSet(B \cup P) /\ Cardinality(B \cup P) = Cardinality(B) + Len(st[k])
  <2>1. /\ IsFiniteSet(B \cup P)
        /\ Cardinality(B \cup P) = Cardinality(B) + Cardinality(P) - Cardinality(B \cap P)
    BY <1>1, <1>5, FS_Union
  <2>2. Cardinality(B \cap P) = 0
    BY <1>5, FS_EmptySet
  <2>3. Cardinality(B) \in Nat
    BY <1>5, FS_CardinalityType
  <2> QED  BY <1>1, <2>1, <2>2, <2>3
<1>6. CASE k \in K
  <2> DEFINE A == HeldOf(st, K)
             B == HeldOf(st, K \ {k})
  <2>1. A = B \cup P /\ B \cap P = {} /\ IsFiniteSet(A)
    BY <1>2, <1>6
  <2> HIDE DEF A, B
  <2>2. /\ IsFiniteSet(B) /\ Cardinality(A) \in Nat /\ Cardinality(B) \in Nat
        /\ Cardinality(B) = Cardinality(A) - Len(st[k])
    BY <1>4, <2>1
  <2> QED  BY <1>6, <2>2 DEF A, B
<1>7. CASE k \notin K
  <2> DEFINE A == HeldOf(st, K \cup {k})
             B == HeldOf(st, K)
  <2>1. A = B \cup P /\ B \cap P = {} /\ IsFiniteSet(B)
    BY <1>3, <1>7
  <2> HIDE DEF A, B
  <2>2. IsFiniteSet(A) /\ Cardinality(A) = Cardinality(B) + Len(st[k])
    BY <1>5, <2>1
  <2> QED  BY <1>7, <2>2 DEF A, B
<1> QED  BY <1>6, <1>7

\* Prefixes of prefixes.
LEMMA PrefixTrans ==
  ASSUME NEW a \in Seq(Nat), NEW b \in Seq(Nat), NEW c \in Seq(Nat),
         IsPrefix(a, b), IsPrefix(b, c)
  PROVE  IsPrefix(a, c)
<1>1. /\ Len(a) \in Nat /\ Len(b) \in Nat /\ Len(c) \in Nat
      /\ Len(a) <= Len(b) /\ Len(b) <= Len(c)
      /\ SubSeq(a, 1, Len(a)) = SubSeq(b, 1, Len(a))
      /\ SubSeq(b, 1, Len(b)) = SubSeq(c, 1, Len(b))
  BY DEF IsPrefix
<1>2. \A i \in 1..Len(b) : SubSeq(b, 1, Len(b))[i] = b[i] /\ SubSeq(c, 1, Len(b))[i] = c[i]
  BY <1>1, SubSeqFacts
<1>3. \A i \in 1..Len(a) : i \in 1..Len(b) /\ b[i] = c[i]
  BY <1>1, <1>2, SMTT(20)
<1>4. /\ SubSeq(b, 1, Len(a)) \in Seq(Nat) /\ Len(SubSeq(b, 1, Len(a))) = Len(a)
      /\ \A i \in 1..Len(a) : SubSeq(b, 1, Len(a))[i] = b[i]
  BY <1>1, SubSeqFacts
<1>5. Len(a) <= Len(c)
  BY <1>1
<1>5a. /\ SubSeq(c, 1, Len(a)) \in Seq(Nat) /\ Len(SubSeq(c, 1, Len(a))) = Len(a)
       /\ \A i \in 1..Len(a) : SubSeq(c, 1, Len(a))[i] = c[i]
  <2> DEFINE n == Len(a)
  <2>1. n \in Nat /\ n <= Len(c)
    BY <1>1, <1>5
  <2> HIDE DEF n
  <2>2. /\ SubSeq(c, 1, n) \in Seq(Nat) /\ Len(SubSeq(c, 1, n)) = n
        /\ \A i \in 1..n : SubSeq(c, 1, n)[i] = c[i]
    BY <2>1, SubSeqFacts
  <2> QED  BY <2>2 DEF n
<1>6. SubSeq(b, 1, Len(a)) = SubSeq(c, 1, Len(a))
  BY <1>3, <1>4, <1>5a, SameSeq
<1> QED  BY <1>1, <1>5, <1>6 DEF IsPrefix

\* The path to k: the prefixes of k but the root.
LEMMA PathFacts ==
  ASSUME NEW k \in Seq(Nat), NEW p
  PROVE  /\ p \in PathOf(k) => p \in Row /\ IsPrefix(p, k)
         /\ p \in Row /\ IsPrefix(p, k) => p \in PathOf(k)
<1>1. ASSUME p \in PathOf(k)  PROVE p \in Row /\ IsPrefix(p, k)
  <2>1. PICK l \in 0..Len(k) : p = SubSeq(k, 1, l) /\ p # <<>>
    BY <1>1 DEF PathOf, Prefixes
  <2>2. l \in Nat /\ l <= Len(k)
    BY <2>1
  <2>3. p \in Seq(Nat) /\ Len(p) = l
    BY <2>1, <2>2, SubSeqFacts
  <2>4. SubSeq(p, 1, Len(p)) = p
    BY <2>3
  <2> QED  BY <2>1, <2>2, <2>3, <2>4 DEF Row, IsPrefix
<1>2. ASSUME p \in Row, IsPrefix(p, k)  PROVE p \in PathOf(k)
  <2>1. p \in Seq(Nat) /\ p # <<>>
    BY <1>2 DEF Row
  <2>2. SubSeq(p, 1, Len(p)) = p
    BY <2>1
  <2>3. Len(p) \in 0..Len(k) /\ p = SubSeq(k, 1, Len(p))
    <3>1. Len(p) \in Nat /\ Len(k) \in Nat /\ Len(p) <= Len(k)
      BY <1>2, <2>1 DEF IsPrefix
    <3> QED  BY <1>2, <2>2, <3>1 DEF IsPrefix
  <2> QED  BY <2>1, <2>3 DEF PathOf, Prefixes
<1> QED  BY <1>1, <1>2

\* The dicts that are left when an entry goes are those on the way to another.
DictsLeft(N, K, k) == N \ {p \in PathOf(k) : /\ \A e \in K \ {k} : ~IsPrefix(p, e)
                                            /\ \A q \in N \ PathOf(k) : ~IsPrefix(p, q)}

LEMMA DeletePaths ==
  ASSUME NEW K, K \subseteq Row, NEW k \in Row, NEW N, N = UNION {PathOf(e) : e \in K}
  PROVE  DictsLeft(N, K, k) = UNION {PathOf(e) : e \in K \ {k}}
<1> DEFINE G == {p \in PathOf(k) : /\ \A e \in K \ {k} : ~IsPrefix(p, e)
                                   /\ \A q \in N \ PathOf(k) : ~IsPrefix(p, q)}
           M == UNION {PathOf(e) : e \in K \ {k}}
<1>0. \A e \in K : e \in Seq(Nat) /\ k \in Seq(Nat)
  BY DEF Row
<1>1. ASSUME NEW p \in N \ G  PROVE p \in M
  <2>1. CASE p \notin PathOf(k)
    <3>1. PICK e \in K : p \in PathOf(e)
      OBVIOUS
    <3> QED  BY <2>1, <3>1
  <2>2. CASE p \in PathOf(k)
    <3>1. p \in Row
      BY <2>2, PathFacts DEF Row
    <3>2. CASE \E e \in K \ {k} : IsPrefix(p, e)
      BY <1>0, <3>1, <3>2, PathFacts
    <3>3. CASE \E q \in N \ PathOf(k) : IsPrefix(p, q)
      <4>1. PICK q \in N \ PathOf(k) : IsPrefix(p, q)
        BY <3>3
      <4>2. PICK e \in K : q \in PathOf(e)
        BY <4>1
      <4>3. e # k /\ e \in Seq(Nat) /\ q \in Seq(Nat) /\ p \in Seq(Nat) /\ IsPrefix(q, e)
        BY <1>0, <3>1, <4>1, <4>2, PathFacts DEF Row
      <4>4. IsPrefix(p, e)
        BY <4>1, <4>3, PrefixTrans
      <4> QED  BY <3>1, <4>2, <4>3, <4>4, PathFacts
    <3> QED  BY <2>2, <3>2, <3>3
  <2> QED  BY <2>1, <2>2
<1>2. ASSUME NEW p \in M  PROVE p \in N \ G
  <2>1. PICK e \in K \ {k} : p \in PathOf(e)
    OBVIOUS
  <2>2. IsPrefix(p, e)
    BY <1>0, <2>1, PathFacts
  <2> QED  BY <2>1, <2>2
<1> QED  BY <1>1, <1>2 DEF DictsLeft

\* The key stored joins the list, unless it is pinned.
LEMMA LruWithFacts ==
  ASSUME TrieInv, NEW t
  PROVE  LET all == LruWith(t)
             S   == Entries \cup {t}
         IN  /\ all \in Seq(S) /\ IsInjective(all)
             /\ ToSet(all) \cup pinned = S /\ ToSet(all) \cap pinned = {}
<1> DEFINE S == Entries \cup {t}
           all == LruWith(t)
<1>0. lru \in Seq(S) /\ t \in S /\ IsInjective(lru)
  BY SeqMonotonic DEF TrieInv
<1>1. CASE t \in pinned
  <2>1. S = Entries /\ all = lru
    BY <1>1 DEF TrieInv, LruWith
  <2> HIDE DEF all
  <2> QED  BY <1>0, <2>1 DEF TrieInv, all
<1>2. CASE t \notin pinned
  <2>1. /\ Moved(lru, t) \in Seq(S) /\ IsInjective(Moved(lru, t))
        /\ ToSet(Moved(lru, t)) = ToSet(lru) \cup {t}
    <3> HIDE DEF S
    <3> QED  BY <1>0, MovedFacts
  <2>2. all = Moved(lru, t)
    BY <1>2 DEF LruWith
  <2> HIDE DEF all
  <2>3. ToSet(all) \cup pinned = S /\ ToSet(all) \cap pinned = {}
    BY <1>2, <2>1, <2>2 DEF TrieInv
  <2> QED  BY <2>1, <2>2, <2>3 DEF all
<1> QED  BY <1>1, <1>2

\* What the first evictions leave: the other entries, the dicts on the way to
\* them, and the bytes of theirs.
LEMMA EvictionFacts ==
  ASSUME TrieInv, NEW t \in Row, NEW x \in KVs
  PROVE  LET all   == LruWith(t)
             after == Evictions(t, x)
         IN  \A i \in 0..Len(all) :
               /\ after[i].kv = (Entries \cup {t}) \ ToSet(SubSeq(all, 1, i))
               /\ after[i].nodes = UNION {PathOf(k) : k \in after[i].kv}
               /\ IsFiniteSet(HeldOf(Stored(t, x), after[i].kv))
               /\ after[i].total = Cardinality(HeldOf(Stored(t, x), after[i].kv))
<1> DEFINE D == Entries \cup {t}
           all == LruWith(t)
           N == Len(all)
           st == Stored(t, x)
           sz == [k \in D |-> Len(st[k])]
           A == nodes \cup PathOf(t)
           before == [kv |-> D, nodes |-> A, size |-> sz,
                      total |-> IF t \in Entries THEN total ELSE total + Len(x)]
           S == [kv : SUBSET D, nodes : SUBSET A, total : Nat, size : {sz}]
           step == [y \in (1..N) \X S |-> Delete(y[2], all[y[1]])]
           Def(f) == [n \in 0..N |-> IF n = 0 THEN before ELSE Delete(f[n - 1], all[n])]
           after == CHOOSE f : f = Def(f)
<1>1. /\ all \in Seq(D) /\ IsInjective(all) /\ N \in Nat
      /\ \A n \in 1..N : all[n] \in D
  <2>1. all \in Seq(D) /\ IsInjective(all)
    BY LruWithFacts
  <2> HIDE DEF all, D
  <2> QED  BY <2>1
<1>2. DOMAIN st = D /\ \A k \in D : k \in Row /\ st[k] \in KVs /\ Len(st[k]) \in Nat
  <2>1. \A y \in KVs : Len(y) \in Nat
    BY DEF KVs
  <2>2. DOMAIN st = D /\ \A k \in D : st[k] = IF k \in Entries THEN kvOf[k] ELSE x
    BY DEF Stored
  <2> QED  BY <2>1, <2>2 DEF TrieInv, EntriesTyped
<1>3. Evictions(t, x) = after
  BY <1>2 DEF Evictions
<1> HIDE DEF st, all, D
<1>4. sz \in [D -> Nat] /\ \A k \in D : sz[k] = Len(st[k])
  BY <1>2
<1>5. /\ IsFiniteSet(HeldOf(st, D)) /\ before.total = Cardinality(HeldOf(st, D))
      /\ before.total \in Nat
  <2>1. IsFiniteSet(Held(kvOf)) /\ total = Cardinality(Held(kvOf))
    BY DEF TrieInv
  <2>2. Held(kvOf) = HeldOf(kvOf, Entries)
    BY HeldFacts DEF Entries
  <2>3. HeldOf(kvOf, Entries) = HeldOf(st, Entries)
    <3>1. \A k \in Entries : kvOf[k] = st[k]
      BY DEF st, Stored
    <3> QED  BY <3>1, HeldFacts
  <2>4. before.total = IF t \in Entries THEN total ELSE total + Len(x)
    OBVIOUS
  <2>5. CASE t \in Entries
    <3>1. D = Entries
      BY <2>5 DEF D
    <3>2. IsFiniteSet(HeldOf(st, D)) /\ before.total = Cardinality(HeldOf(st, D))
      BY <2>1, <2>2, <2>3, <2>4, <2>5, <3>1
    <3> QED  BY <3>2, FS_CardinalityType
  <2>6. CASE t \notin Entries
    <3>1. st[t] = x /\ D = Entries \cup {t}
      BY <2>6 DEF D, st, Stored
    <3>2. IsFiniteSet(HeldOf(st, Entries)) /\ total = Cardinality(HeldOf(st, Entries))
      BY <2>1, <2>2, <2>3
    <3>3. /\ IsFiniteSet(HeldOf(st, Entries \cup {t}))
          /\ Cardinality(HeldOf(st, Entries \cup {t})) = Cardinality(HeldOf(st, Entries)) + Len(x)
      BY <2>6, <3>1, <3>2, HeldCounts
    <3>4. IsFiniteSet(HeldOf(st, D)) /\ before.total = Cardinality(HeldOf(st, D))
      BY <2>4, <2>6, <3>1, <3>2, <3>3
    <3> QED  BY <3>4, FS_CardinalityType
  <2> QED  BY <2>5, <2>6
<1>6. before \in S
  <2> DEFINE b == before.total
  <2>1. before = [kv |-> D, nodes |-> A, size |-> sz, total |-> b]
    OBVIOUS
  <2> HIDE DEF b, sz, A
  <2>2. b \in Nat
    BY <1>5 DEF b
  <2> HIDE DEF before
  <2> QED  BY <2>1, <2>2
<1> DEFINE Deleted(d, y, k) ==
             /\ d \in S /\ d.kv = y.kv \ {k} /\ d.nodes = DictsLeft(y.nodes, y.kv, k)
             /\ d.total = IF Len(st[k]) < y.total THEN y.total - Len(st[k]) ELSE 0
<1>7. ASSUME NEW y \in S, NEW k \in D
      PROVE  Deleted(Delete(y, k), y, k)
  <2> DEFINE a == y.kv \ {k}
             b == y.nodes \ {p \in PathOf(k) :
                                /\ \A e \in y.kv \ {k} : ~IsPrefix(p, e)
                                /\ \A q \in y.nodes \ PathOf(k) : ~IsPrefix(p, q)}
             c == IF y.size[k] < y.total THEN y.total - y.size[k] ELSE 0
             d == Delete(y, k)
  <2>1. d = [kv |-> a, nodes |-> b, total |-> c, size |-> y.size]
    BY DEF Delete
  <2>2. y.kv \subseteq D /\ y.nodes \subseteq A /\ y.total \in Nat /\ y.size = sz
    OBVIOUS
  <2>3. a \subseteq D /\ b \subseteq A
    BY <2>2
  <2>4. y.size[k] = Len(st[k]) /\ Len(st[k]) \in Nat
    BY <1>2, <1>4, <2>2
  <2>5. c \in Nat /\ c = IF Len(st[k]) < y.total THEN y.total - Len(st[k]) ELSE 0
    BY <2>2, <2>4
  <2> HIDE DEF a, b, c, d, sz, A
  <2>6. d \in S /\ d.kv = a /\ d.nodes = b /\ d.total = c
    BY <2>1, <2>2, <2>3, <2>5
  <2>7. b = DictsLeft(y.nodes, y.kv, k)
    BY DEF b, DictsLeft
  <2> QED  BY <2>5, <2>6, <2>7 DEF a, d
<1> HIDE DEF S, before, sz, Deleted
<1>8. step \in [(1..N) \X S -> S] /\ \A n \in 1..N, y \in S : step[<<n, y>>] = Delete(y, all[n])
  <2>1. ASSUME NEW y \in (1..N) \X S  PROVE Delete(y[2], all[y[1]]) \in S
    <3>1. y[1] \in 1..N /\ y[2] \in S
      OBVIOUS
    <3> QED  BY <1>1, <1>7, <3>1 DEF Deleted
  <2>2. step \in [(1..N) \X S -> S]
    BY <2>1
  <2>3. \A n \in 1..N, y \in S : step[<<n, y>>] = Delete(y, all[n])
    OBVIOUS
  <2> HIDE DEF step, N
  <2> QED  BY <2>2, <2>3
<1> HIDE DEF step
<1>9. PICK g : Recurs(g, N, S, before, step)
  <2> HIDE DEF N
  <2> QED  BY <1>1, <1>6, <1>8, Recursion
<1>10. g \in [0..N -> S] /\ \A n \in 0..N : g[n] = IF n = 0 THEN before ELSE Delete(g[n - 1], all[n])
  <2>1. ASSUME NEW n \in 1..N  PROVE g[n] = Delete(g[n - 1], all[n])
    <3>1. n - 1 \in 0..N /\ g \in [0..N -> S] /\ g[n] = step[<<n, g[n - 1]>>]
      BY <1>1, <1>9 DEF Recurs
    <3> QED  BY <1>8, <3>1
  <2>2. \A n \in 0..N : n = 0 \/ n \in 1..N
    BY <1>1
  <2> QED  BY <1>9, <2>1, <2>2 DEF Recurs
<1>11. g = Def(g)
  BY <1>10
<1>12. after = Def(after)
  <2> HIDE DEF Def
  <2> QED  BY <1>11
<1>13. \A n \in 0..N : after[n] = IF n = 0 THEN before ELSE Delete(after[n - 1], all[n])
  <2> HIDE DEF after
  <2> QED  BY <1>12
<1> HIDE DEF after
<1> DEFINE Sound(i) == /\ after[i] \in S
                       /\ after[i].kv = D \ ToSet(SubSeq(all, 1, i))
                       /\ after[i].nodes = UNION {PathOf(k) : k \in after[i].kv}
                       /\ IsFiniteSet(HeldOf(st, after[i].kv))
                       /\ after[i].total = Cardinality(HeldOf(st, after[i].kv))
           T == {n \in 0..N : Sound(n)}
<1>14. 0 \in T
  <2>1. after[0] = before /\ 0 \in 0..N
    BY <1>1, <1>13
  <2>2. before.kv = D /\ before.nodes = A
    BY DEF before
  <2>3. ToSet(SubSeq(all, 1, 0)) = {}
    <3>1. SubSeq(all, 1, 0) = <<>>
      BY <1>1
    <3> QED  BY <3>1 DEF ToSet
  <2>4. A = UNION {PathOf(k) : k \in D}
    BY DEF D, TrieInv
  <2> HIDE DEF A
  <2> QED  BY <1>5, <1>6, <2>1, <2>2, <2>3, <2>4
<1>15. ASSUME NEW n \in 0..N, n \in T, n < N  PROVE n + 1 \in T
  <2> DEFINE y == after[n]
             k == all[n + 1]
             z == after[n + 1]
  <2>1. n + 1 \in 1..N /\ n + 1 \in 0..N /\ (n + 1) - 1 = n /\ n + 1 # 0 /\ n \in Nat
    BY <1>1, <1>15
  <2>2. z = Delete(y, k) /\ k \in D
    BY <1>1, <1>13, <2>1
  <2>3. Sound(n)
    BY <1>15
  <2>4. /\ ToSet(SubSeq(all, 1, n + 1)) = ToSet(SubSeq(all, 1, n)) \cup {k}
        /\ k \notin ToSet(SubSeq(all, 1, n))
    <3> DEFINE a == SubSeq(all, 1, n)
               b == SubSeq(all, 1, n + 1)
    <3>1. a \in Seq(D) /\ Len(a) = n /\ \A i \in 1..n : a[i] = all[i]
      BY <1>1, <2>1, SubSeqFacts
    <3>2. b \in Seq(D) /\ Len(b) = n + 1 /\ \A i \in 1..n + 1 : b[i] = all[i]
      BY <1>1, <2>1, SubSeqFacts
    <3> HIDE DEF a, b
    <3>3. DOMAIN a = 1..n /\ DOMAIN b = 1..(n + 1) /\ DOMAIN all = 1..N
      BY <1>1, <3>1, <3>2
    <3>4. \A i \in 1..(n + 1) : i \in 1..n \/ i = n + 1
      BY <2>1
    <3>5. \A i \in 1..n : i \in 1..(n + 1) /\ i \in 1..N /\ i # n + 1
      BY <2>1
    <3>5a. n + 1 \in 1..(n + 1)
      BY <2>1
    <3>6. ToSet(b) = ToSet(a) \cup {k}
      BY <3>1, <3>2, <3>3, <3>4, <3>5, <3>5a DEF ToSet
    <3>7. k \notin ToSet(a)
      BY <1>1, <2>1, <3>1, <3>3, <3>5 DEF ToSet, IsInjective
    <3> QED  BY <3>6, <3>7 DEF a, b
  <2>5. Deleted(z, y, k) /\ y \in S
    BY <1>7, <2>2, <2>3
  <2> HIDE DEF y, k, z
  <2> DEFINE K == y.kv
             M == y.nodes
  <2>6. /\ K = D \ ToSet(SubSeq(all, 1, n)) /\ M = UNION {PathOf(e) : e \in K}
        /\ IsFiniteSet(HeldOf(st, K)) /\ y.total = Cardinality(HeldOf(st, K))
    BY <2>3 DEF y
  <2>6a. /\ z \in S /\ z.kv = K \ {k} /\ z.nodes = DictsLeft(M, K, k)
         /\ z.total = IF Len(st[k]) < y.total THEN y.total - Len(st[k]) ELSE 0
    BY <2>5 DEF Deleted
  <2> HIDE DEF K, M
  <2>7. k \in K /\ k \in Row /\ K \subseteq Row /\ st[k] \in KVs
    BY <1>2, <2>2, <2>4, <2>6
  <2>8. z.kv = D \ ToSet(SubSeq(all, 1, n + 1))
    BY <2>4, <2>6, <2>6a
  <2>9. z.nodes = UNION {PathOf(e) : e \in z.kv}
    <3>1. DictsLeft(M, K, k) = UNION {PathOf(e) : e \in K \ {k}}
      BY <2>6, <2>7, DeletePaths, Zenon
    <3> QED  BY <2>6a, <3>1
  <2>10. /\ IsFiniteSet(HeldOf(st, z.kv)) /\ Cardinality(HeldOf(st, z.kv)) \in Nat
         /\ y.total \in Nat
         /\ Cardinality(HeldOf(st, z.kv)) = y.total - Len(st[k])
    <3>1. /\ IsFiniteSet(HeldOf(st, K \ {k})) /\ Cardinality(HeldOf(st, K)) \in Nat
          /\ Cardinality(HeldOf(st, K \ {k})) \in Nat
          /\ Cardinality(HeldOf(st, K \ {k})) = Cardinality(HeldOf(st, K)) - Len(st[k])
      BY <2>6, <2>7, HeldCounts
    <3> QED  BY <2>6, <2>6a, <3>1
  <2>11. z.total = Cardinality(HeldOf(st, z.kv))
    <3>1. Len(st[k]) \in Nat
      BY <1>2, <2>2
    <3>2. \A u, v, w \in Nat : w = u - v => w = IF v < u THEN u - v ELSE 0
      BY SMT
    <3> QED  BY <2>6a, <2>10, <3>1, <3>2
  <2>12. Sound(n + 1)
    BY <2>6a, <2>8, <2>9, <2>10, <2>11 DEF z
  <2> HIDE DEF Sound
  <2> QED  BY <2>1, <2>12
<1>16. \A n \in 0..N : n \in T
  <2>1. T \in SUBSET (0..N)
    OBVIOUS
  <2> HIDE DEF T, N
  <2> QED  BY <1>1, <1>14, <1>15, <2>1, Climb
<1> QED  BY <1>3, <1>16 DEF D, all, st

\* Entries leave from the front of the list, and only until the caps hold.
LEMMA TrieStoreKeeps ==
  ASSUME TrieInv, NEW t \in Row, NEW x \in KVs, TrieStore(t, x)
  PROVE  /\ TrieStepOk
         /\ \A k \in Entries' : IF k \in Entries THEN kvOf'[k] = kvOf[k] ELSE k = t /\ kvOf'[k] = x
<1> DEFINE stored == Stored(t, x)
           all == LruWith(t)
           after == Evictions(t, x)
           over(i)  == OverCap(Len(all) - i + Cardinality(pinned), after[i].total)
           Stops(i) == (i = Len(all) \/ ~over(i)) /\ \A j \in 0..(i - 1) : over(j)
           n == CHOOSE i \in 0..Len(all) : Stops(i)
<1>1. /\ kvOf' = Restrict(stored, after[n].kv) /\ nodes' = after[n].nodes /\ total' = after[n].total
      /\ lru' = SubSeq(all, n + 1, Len(all)) /\ pinned' = pinned
  BY DEF TrieStore
<1> DEFINE S == Entries \cup {t}
<1>2. /\ all \in Seq(S) /\ IsInjective(all)
      /\ ToSet(all) \cup pinned = S /\ ToSet(all) \cap pinned = {}
  BY LruWithFacts
<1>2a. \A i \in 0..Len(all) :
         /\ after[i].kv = S \ ToSet(SubSeq(all, 1, i))
         /\ after[i].nodes = UNION {PathOf(k) : k \in after[i].kv}
         /\ IsFiniteSet(HeldOf(stored, after[i].kv))
         /\ after[i].total = Cardinality(HeldOf(stored, after[i].kv))
  BY EvictionFacts
<1>3. n \in 0..Len(all) /\ (n = Len(all) \/ ~over(n))
  <2> HIDE DEF over, all, after
  <2> DEFINE L == Len(all)
             T == {i \in 0..L : i = L \/ ~over(i)}
  <2>1. L \in Nat
    BY <1>2
  <2>2. T \in SUBSET Nat /\ L \in T
    BY <2>1
  <2>3. PICK i \in T : \A y \in T : i <= y
    <3> HIDE DEF T
    <3> QED  BY <2>2, NonemptyHasMin
  <2>4. i \in 0..L /\ (i = L \/ ~over(i))
    BY <2>3
  <2>5. ASSUME NEW j \in 0..(i - 1)  PROVE over(j)
    <3>1. j \in 0..L /\ j # L /\ ~(i <= j)
      BY <2>1, <2>4
    <3>2. j \notin T
      <4> HIDE DEF T
      <4> QED  BY <2>3, <3>1
    <3> QED  BY <3>1, <3>2
  <2>6. Stops(i)
    BY <2>4, <2>5
  <2> HIDE DEF Stops
  <2>7. n \in 0..L /\ Stops(n)
    BY <2>4, <2>6
  <2> QED  BY <2>7 DEF Stops
<1>4. DOMAIN stored = S /\ \A k \in S : stored[k] = IF k \in Entries THEN kvOf[k] ELSE x
  BY DEF Stored
<1> DEFINE gone == ToSet(SubSeq(all, 1, n))
<1> HIDE DEF all, n, after, over, stored, S
<1>5. /\ lru' \in Seq(S) /\ Len(lru') = Len(all) - n /\ IsInjective(lru')
      /\ gone \cap ToSet(lru') = {} /\ gone \cup ToSet(lru') = ToSet(all)
  BY <1>1, <1>2, <1>3, CutInTwo
<1>5a. /\ after[n].kv = S \ gone /\ after[n].nodes = UNION {PathOf(k) : k \in after[n].kv}
       /\ IsFiniteSet(HeldOf(stored, after[n].kv))
       /\ after[n].total = Cardinality(HeldOf(stored, after[n].kv))
  BY <1>2a, <1>3
<1>6. Entries' = S \ gone /\ \A k \in S \ gone : kvOf'[k] = stored[k]
  BY <1>1, <1>5a DEF Entries, Restrict
<1> HIDE DEF gone
<1>7. ToSet(lru') \cup pinned = Entries' /\ ToSet(lru') \cap pinned = {}
  BY <1>2, <1>5, <1>6
<1>8. Len(lru') + Cardinality(pinned) <= MaxEntries
  <2>1. Len(all) \in Nat /\ n \in Nat /\ Cardinality(pinned) \in Nat
    BY <1>2, <1>3, FS_CardinalityType DEF TrieInv
  <2>2. CASE n = Len(all)
    BY <1>5, <2>1, <2>2 DEF TrieInv
  <2>3. CASE ~over(n)
    BY <1>5, <2>1, <2>3, PrefixAssumption DEF over, OverCap
  <2> QED  BY <1>3, <2>2, <2>3
<1>9. Cardinality(Entries') <= MaxEntries
  <2>1. IsFiniteSet(ToSet(lru')) /\ Cardinality(ToSet(lru')) = Len(lru')
    BY <1>5, InjectiveCard
  <2>2. IsFiniteSet(pinned) /\ Cardinality(pinned) \in Nat
    BY FS_CardinalityType DEF TrieInv
  <2>3. Cardinality(ToSet(lru') \cup pinned)
          = Cardinality(ToSet(lru')) + Cardinality(pinned) - Cardinality(ToSet(lru') \cap pinned)
    BY <2>1, <2>2, FS_Union, Zenon
  <2>4. Cardinality(ToSet(lru') \cap pinned) = 0
    BY <1>7, FS_EmptySet
  <2>5. Cardinality(Entries') = Len(lru') + Cardinality(pinned)
    <3>1. Len(lru') \in Nat
      BY <1>5
    <3>2. \A x1, x2, x3 \in Int : x3 = 0 => x1 + x2 - x3 = x1 + x2
      BY SMT
    <3>3. Cardinality(ToSet(lru') \cup pinned) = Len(lru') + Cardinality(pinned)
      BY <2>1, <2>2, <2>3, <2>4, <3>1, <3>2
    <3> QED  BY <1>7, <3>3
  <2> QED  BY <1>8, <2>5
<1>10. lru' \in Seq(Entries')
  <2>1. \A i \in 1..Len(lru') : lru'[i] \in ToSet(lru')
    BY <1>5 DEF ToSet
  <2>2. \A i \in 1..Len(lru') : lru'[i] \in Entries'
    BY <1>7, <2>1
  <2>3. lru' \in [1..Len(lru') -> Entries'] /\ Len(lru') \in Nat
    BY <1>5, <2>2
  <2> QED  BY <2>3
<1>11. ASSUME NEW k \in Entries'
       PROVE  IF k \in Entries THEN kvOf'[k] = kvOf[k] ELSE k = t /\ kvOf'[k] = x
  BY <1>4, <1>6 DEF S
<1>12. ASSUME NEW k \in pinned  PROVE k \in Entries' /\ kvOf'[k] = kvOf[k]
  <2>1. k \in Entries' /\ k \in Entries
    BY <1>7 DEF TrieInv
  <2> QED  BY <1>11, <2>1
<1>13. EntriesTyped'
  BY <1>6, <1>11 DEF EntriesTyped, TrieInv, S
<1>14. nodes' = UNION {PathOf(k) : k \in Entries'}
  BY <1>1, <1>5a, <1>6
<1>15. IsFiniteSet(Held(kvOf')) /\ total' = Cardinality(Held(kvOf'))
  BY <1>1, <1>5a, HeldFacts
<1>16. total' <= MaxBytes
  <2>1. IsFiniteSet(Held(kvOf)) /\ total = Cardinality(Held(kvOf)) /\ total <= MaxBytes
    BY DEF TrieInv
  <2>2. CASE n = Len(all)
    <3>1. SubSeq(all, 1, n) = all
      BY <1>2, <2>2
    <3>2. gone = ToSet(all)
      BY <3>1 DEF gone
    <3>3. Entries' = pinned /\ pinned \subseteq Entries
      BY <1>2, <1>6, <3>2 DEF TrieInv
    <3>4. Held(kvOf') = HeldOf(stored, pinned)
      <4>1. after[n].kv = pinned
        BY <1>5a, <1>6, <3>3
      <4> QED  BY <1>1, <4>1, HeldFacts
    <3>5. HeldOf(stored, pinned) = HeldOf(kvOf, pinned)
      <4>1. \A k \in pinned : kvOf[k] = stored[k]
        BY <1>4, <3>3 DEF S
      <4> QED  BY <4>1, HeldFacts
    <3>6. HeldOf(kvOf, pinned) \subseteq Held(kvOf)
      BY <3>3, HeldFacts DEF Entries
    <3>7. Cardinality(Held(kvOf')) <= Cardinality(Held(kvOf))
      BY <2>1, <3>4, <3>5, <3>6, FS_Subset
    <3>8. Cardinality(Held(kvOf')) \in Nat /\ Cardinality(Held(kvOf)) \in Nat
      BY <1>15, <2>1, FS_CardinalityType
    <3> QED  BY <1>15, <2>1, <3>7, <3>8, PrefixAssumption
  <2>3. CASE ~over(n)
    <3>1. total' \in Nat
      BY <1>15, FS_CardinalityType
    <3>2. ~(total' > MaxBytes)
      BY <1>1, <2>3 DEF over, OverCap
    <3> QED  BY <3>1, <3>2, PrefixAssumption
  <2> QED  BY <1>3, <2>2, <2>3
<1>17. TrieInv'
  BY <1>1, <1>5, <1>7, <1>9, <1>10, <1>13, <1>14, <1>15, <1>16 DEF TrieInv
<1> QED  BY <1>11, <1>12, <1>17 DEF TrieStepOk

LEMMA TriePinKeeps ==
  ASSUME TrieInv, NEW t, TriePin(t) \/ TrieUnpin(t)
  PROVE  TrieStepOk /\ kvOf' = kvOf
<1>1. kvOf' = kvOf /\ Entries' = Entries
  BY DEF TriePin, TrieUnpin, Entries
<1>1a. /\ EntriesTyped' /\ nodes' = UNION {PathOf(k) : k \in Entries'}
       /\ IsFiniteSet(Held(kvOf')) /\ total' = Cardinality(Held(kvOf')) /\ total' <= MaxBytes
  BY <1>1 DEF TriePin, TrieUnpin, TrieInv, EntriesTyped
<1>2. lru \in Seq(Entries) /\ IsInjective(lru)
  BY DEF TrieInv
<1>3. CASE TriePin(t)
  <2>1. /\ t \in pinned \/ Cardinality(pinned) < MaxEntries
        /\ t \in Entries /\ lru' = RemoveFirst(lru, t) /\ pinned' = pinned \cup {t}
    BY <1>3 DEF TriePin
  <2>2. lru' \in Seq(Entries) /\ ToSet(lru') = ToSet(lru) \ {t} /\ IsInjective(lru')
    BY <1>2, <2>1, ToSetRemoveFirst
  <2>3. IsFiniteSet(pinned') /\ Cardinality(pinned') <= MaxEntries
    <3>1. /\ IsFiniteSet(pinned) /\ Cardinality(pinned) \in Nat
          /\ Cardinality(pinned) <= MaxEntries /\ MaxEntries \in Nat
      BY FS_CardinalityType, PrefixAssumption DEF TrieInv
    <3>2. CASE t \in pinned
      <4>1. pinned' = pinned
        BY <2>1, <3>2
      <4> QED  BY <3>1, <4>1
    <3>3. CASE t \notin pinned
      <4>1. IsFiniteSet(pinned') /\ Cardinality(pinned') = Cardinality(pinned) + 1
        BY <2>1, <3>1, <3>3, FS_AddElement
      <4>2. Cardinality(pinned) < MaxEntries
        BY <1>3, <3>3 DEF TriePin
      <4> QED  BY <3>1, <4>1, <4>2
    <3> QED  BY <3>2, <3>3
  <2>4. ToSet(lru') \cup pinned' = Entries /\ ToSet(lru') \cap pinned' = {}
    BY <2>1, <2>2 DEF TrieInv
  <2>5. TrieInv'
    BY <1>1, <1>1a, <2>2, <2>3, <2>4 DEF TrieInv
  <2> QED  BY <1>1, <2>5 DEF TrieStepOk, TrieInv
<1>4. CASE TrieUnpin(t)
  <2>1. t \in pinned /\ t \in Entries /\ pinned' = pinned \ {t} /\ lru' = Moved(lru, t)
    BY <1>4 DEF TrieUnpin, TrieInv
  <2>2. lru' \in Seq(Entries) /\ IsInjective(lru') /\ ToSet(lru') = ToSet(lru) \cup {t}
    BY <1>2, <2>1, MovedFacts
  <2>3. IsFiniteSet(pinned') /\ Cardinality(pinned') <= MaxEntries
    <3>1. /\ IsFiniteSet(pinned) /\ Cardinality(pinned) \in Nat
          /\ Cardinality(pinned) <= MaxEntries /\ MaxEntries \in Nat
      BY FS_CardinalityType, PrefixAssumption DEF TrieInv
    <3>2. IsFiniteSet(pinned') /\ Cardinality(pinned') = Cardinality(pinned) - 1
      BY <2>1, <3>1, FS_RemoveElement
    <3> QED  BY <3>1, <3>2
  <2>4. ToSet(lru') \cup pinned' = Entries /\ ToSet(lru') \cap pinned' = {}
    BY <2>1, <2>2 DEF TrieInv
  <2>5. TrieInv'
    BY <1>1, <1>1a, <2>2, <2>3, <2>4 DEF TrieInv
  <2> QED  BY <1>1, <2>5 DEF TrieStepOk, TrieInv
<1> QED  BY <1>3, <1>4

LEMMA TrieEmpty ==
  ASSUME NEW f, NEW l, NEW p, NEW n, NEW x, f = <<>>, l = <<>>, p = {}, n = {}, x = 0
  PROVE  /\ DOMAIN f = {}
         /\ l \in Seq({}) /\ IsInjective(l) /\ ToSet(l) \cup p = {} /\ ToSet(l) \cap p = {}
         /\ IsFiniteSet(p) /\ Cardinality(p) <= MaxEntries /\ Cardinality({}) <= MaxEntries
         /\ n = UNION {PathOf(k) : k \in {}}
         /\ IsFiniteSet(Held(f)) /\ x = Cardinality(Held(f)) /\ x <= MaxBytes
<1>1. IsInjective(l) /\ ToSet(l) = {} /\ DOMAIN f = {} /\ l \in Seq({})
  BY DEF IsInjective, ToSet
<1>2. IsFiniteSet({}) /\ Cardinality({}) = 0 /\ MaxEntries \in Nat /\ MaxBytes \in Nat
  BY FS_EmptySet, PrefixAssumption
<1>3. Held(f) = {}
  BY <1>1 DEF Held
<1>4. UNION {PathOf(k) : k \in {}} = {}
  OBVIOUS
<1> QED  BY <1>1, <1>2, <1>3, <1>4

LEMMA TrieSame ==
  ASSUME TrieInv, UNCHANGED trieVars
  PROVE  TrieStepOk /\ kvOf' = kvOf
<1>1. UNCHANGED <<nodes, kvOf, lru, pinned, total>>
  BY DEF trieVars
<1>2. Entries' = Entries /\ EntriesTyped'
  BY <1>1 DEF Entries, EntriesTyped, TrieInv
<1>3. TrieInv'
  BY <1>1, <1>2 DEF TrieInv
<1>4. \A k \in pinned \cap pinned' : k \in Entries
  BY DEF TrieInv
<1> QED  BY <1>1, <1>2, <1>3, <1>4 DEF TrieStepOk

-----------------------------------------------------------------------------
(* Rows.                                                                    *)

LEMMA RowsFacts ==
  ASSUME NEW a \in Seq(Nat)
  PROVE  /\ Rows(a) \in Seq(Seq(Nat)) /\ Len(Rows(a)) = Len(a)
         /\ \A i \in 1..Len(a) : Rows(a)[i] = SubSeq(a, 1, i) /\ Last(Rows(a)[i]) = a[i]
         /\ Context(Rows(a)) = a
<1>1. Len(a) \in Nat
  OBVIOUS
<1>2. ASSUME NEW i \in 1..Len(a)
      PROVE  /\ SubSeq(a, 1, i) \in Seq(Nat) /\ Len(SubSeq(a, 1, i)) = i
             /\ Last(SubSeq(a, 1, i)) = a[i]
  <2>1. i \in Nat /\ i <= Len(a) /\ i \in 1..i
    BY <1>1
  <2>2. /\ SubSeq(a, 1, i) \in Seq(Nat) /\ Len(SubSeq(a, 1, i)) = i
        /\ \A j \in 1..i : SubSeq(a, 1, i)[j] = a[j]
    BY <2>1, SubSeqFacts
  <2> QED  BY <2>1, <2>2 DEF Last
<1> DEFINE s == Rows(a)
<1>3. s = [i \in 1..Len(a) |-> SubSeq(a, 1, i)]
  BY DEF Rows
<1>4. s \in [1..Len(a) -> Seq(Nat)] /\ \A i \in 1..Len(a) : s[i] = SubSeq(a, 1, i)
  BY <1>2, <1>3
<1> HIDE DEF s
<1>5. s \in Seq(Seq(Nat)) /\ Len(s) = Len(a) /\ DOMAIN s = 1..Len(a)
  BY <1>1, <1>4
<1>6. \A i \in 1..Len(a) : Last(s[i]) = a[i]
  BY <1>2, <1>4
<1>7. Context(s) = a
  <2>1. Context(s) = [i \in 1..Len(a) |-> Last(s[i])]
    BY <1>5 DEF Context
  <2>2. Context(s) = [i \in 1..Len(a) |-> a[i]]
    BY <1>6, <2>1
  <2> QED  BY <2>2
<1> QED  BY <1>4, <1>5, <1>6, <1>7 DEF s

\* A prefix of a concatenation.
LEMMA ConcatPrefix ==
  ASSUME NEW a \in Seq(Nat), NEW b \in Seq(Nat)
  PROVE  /\ \A i \in 0..Len(a) : SubSeq(a \o b, 1, i) = SubSeq(a, 1, i)
         /\ \A j \in 0..Len(b) : SubSeq(a \o b, 1, Len(a) + j) = a \o SubSeq(b, 1, j)
<1> DEFINE c == a \o b
           n == Len(a)
<1>1. c \in Seq(Nat) /\ Len(c) = n + Len(b) /\ n \in Nat /\ Len(b) \in Nat
  BY ConcatFacts
<1>2. \A i \in 1..n : c[i] = a[i]
  BY ConcatFacts
<1>2a. \A i \in 1..Len(b) : c[n + i] = b[i]
  BY ConcatFacts
<1> HIDE DEF c
<1>3. ASSUME NEW i \in 0..n  PROVE SubSeq(c, 1, i) = SubSeq(a, 1, i)
  <2>1. i \in Nat /\ i <= n /\ i <= Len(c) /\ \A j \in 1..i : j \in 1..n
    BY <1>1
  <2>2. /\ SubSeq(c, 1, i) \in Seq(Nat) /\ Len(SubSeq(c, 1, i)) = i
        /\ \A j \in 1..i : SubSeq(c, 1, i)[j] = c[j]
    BY <1>1, <2>1, SubSeqFacts
  <2>3. /\ SubSeq(a, 1, i) \in Seq(Nat) /\ Len(SubSeq(a, 1, i)) = i
        /\ \A j \in 1..i : SubSeq(a, 1, i)[j] = a[j]
    BY <2>1, SubSeqFacts
  <2> QED  BY <1>2, <2>1, <2>2, <2>3, SameSeq
<1>4. ASSUME NEW j \in 0..Len(b)  PROVE SubSeq(c, 1, n + j) = a \o SubSeq(b, 1, j)
  <2> DEFINE d == SubSeq(b, 1, j)
             e == SubSeq(c, 1, n + j)
  <2>1. j \in Nat /\ j <= Len(b) /\ n + j \in Nat /\ n + j <= Len(c)
    BY <1>1
  <2>2. d \in Seq(Nat) /\ Len(d) = j /\ \A i \in 1..j : d[i] = b[i]
    BY <2>1, SubSeqFacts
  <2>3. e \in Seq(Nat) /\ Len(e) = n + j /\ \A i \in 1..n + j : e[i] = c[i]
    BY <1>1, <2>1, SubSeqFacts
  <2> HIDE DEF d, e
  <2>4. /\ a \o d \in Seq(Nat) /\ Len(a \o d) = n + j
        /\ \A i \in 1..n : (a \o d)[i] = a[i]
    BY <2>2, ConcatFacts
  <2>5. \A i \in 1..j : (a \o d)[n + i] = d[i]
    BY <2>2, ConcatFacts
  <2>6. ASSUME NEW i \in 1..n + j  PROVE e[i] = (a \o d)[i]
    <3>1. CASE i <= n
      <4>1. i \in 1..n
        BY <1>1, <2>1, <3>1
      <4> QED  BY <1>2, <2>3, <2>4, <4>1
    <3>2. CASE ~(i <= n)
      <4>1. i - n \in 1..j /\ n + (i - n) = i /\ i - n \in 1..Len(b)
        BY <1>1, <2>1, <3>2
      <4>2. c[n + (i - n)] = b[i - n] /\ (a \o d)[n + (i - n)] = d[i - n]
        BY <1>2a, <2>5, <4>1
      <4> QED  BY <2>2, <2>3, <4>1, <4>2
    <3> QED  BY <3>1, <3>2
  <2>7. e = a \o d
    BY <2>3, <2>4, <2>6, SameSeq
  <2> QED  BY <2>7 DEF d, e
<1> QED  BY <1>3, <1>4 DEF c

\* Tokens through the model on top of the rows of others.
LEMMA FeedRows ==
  ASSUME NEW a \in Seq(Nat), NEW b \in Seq(Nat)
  PROVE  FeedAll(Rows(a), b) = Rows(a \o b)
<1> DEFINE n == Len(a)
           t == [i \in DOMAIN b |-> a \o SubSeq(b, 1, i)]
           l == Rows(a) \o t
           c == a \o b
<1>1. FeedAll(Rows(a), b) = l
  BY RowsFacts DEF FeedAll
<1>2. c \in Seq(Nat) /\ Len(c) = n + Len(b) /\ n \in Nat /\ Len(b) \in Nat
  BY ConcatFacts
<1>3. /\ \A i \in 1..n : SubSeq(c, 1, i) = SubSeq(a, 1, i)
      /\ \A j \in 1..Len(b) : SubSeq(c, 1, n + j) = a \o SubSeq(b, 1, j)
  BY <1>2, ConcatPrefix, SMTT(20)
<1>4. /\ t \in Seq(Seq(Nat)) /\ Len(t) = Len(b)
      /\ \A j \in 1..Len(b) : t[j] = a \o SubSeq(b, 1, j)
  <2>1. ASSUME NEW j \in 1..Len(b)  PROVE a \o SubSeq(b, 1, j) \in Seq(Nat)
    <3>1. j \in Nat /\ j <= Len(b)
      BY <1>2
    <3>2. SubSeq(b, 1, j) \in Seq(Nat)
      BY <3>1, SubSeqFacts
    <3> QED  BY <3>2, ConcatFacts
  <2>2. DOMAIN b = 1..Len(b)
    OBVIOUS
  <2>3. t \in [1..Len(b) -> Seq(Nat)]
    BY <2>1, <2>2
  <2> QED  BY <1>2, <2>2, <2>3
<1> HIDE DEF t, c
<1>5. /\ Rows(a) \in Seq(Seq(Nat)) /\ Len(Rows(a)) = n
      /\ \A i \in 1..n : Rows(a)[i] = SubSeq(a, 1, i)
  BY RowsFacts
<1>6. /\ l \in Seq(Seq(Nat)) /\ Len(l) = n + Len(b)
      /\ \A i \in 1..n : l[i] = Rows(a)[i]
      /\ \A j \in 1..Len(b) : l[n + j] = t[j]
  <2> DEFINE S == Seq(Nat)
             u == Rows(a)
  <2>1. u \in Seq(S) /\ t \in Seq(S)
    BY <1>4, <1>5
  <2>2. Len(u) = n /\ Len(t) = Len(b)
    BY <1>4, <1>5
  <2> HIDE DEF S, u
  <2>3. /\ u \o t \in Seq(S) /\ Len(u \o t) = Len(u) + Len(t)
        /\ \A i \in 1..Len(u) : (u \o t)[i] = u[i]
        /\ \A i \in 1..Len(t) : (u \o t)[Len(u) + i] = t[i]
    BY <2>1, ConcatFacts
  <2> HIDE DEF n
  <2> QED  BY <2>2, <2>3 DEF S, u
<1>8. /\ Rows(c) \in Seq(Seq(Nat)) /\ Len(Rows(c)) = n + Len(b)
      /\ \A i \in 1..n + Len(b) : Rows(c)[i] = SubSeq(c, 1, i)
  BY <1>2, RowsFacts
<1> HIDE DEF l
<1>9. ASSUME NEW i \in 1..n + Len(b)  PROVE l[i] = Rows(c)[i]
  <2>1. CASE i <= n
    <3>1. i \in 1..n
      BY <1>2, <2>1
    <3> QED  BY <1>3, <1>5, <1>6, <1>8, <3>1
  <2>2. CASE ~(i <= n)
    <3>1. i - n \in 1..Len(b) /\ n + (i - n) = i
      BY <1>2, <2>2
    <3>2. l[n + (i - n)] = t[i - n] /\ t[i - n] = SubSeq(c, 1, n + (i - n))
      BY <1>3, <1>4, <1>6, <3>1
    <3> QED  BY <1>8, <3>1, <3>2
  <2> QED  BY <2>1, <2>2
<1>10. l = Rows(c)
  BY <1>6, <1>8, <1>9, SameSeq
<1> QED  BY <1>1, <1>10 DEF c

\* Trimming rows takes the last tokens away.
LEMMA TrimRows ==
  ASSUME NEW a \in Seq(Nat), NEW n \in 0..Len(a)
  PROVE  Trim(Rows(a), Len(a) - n) = Rows(SubSeq(a, 1, n))
<1> DEFINE s == SubSeq(a, 1, n)
           l == SubSeq(Rows(a), 1, n)
<1>1. n \in Nat /\ n <= Len(a) /\ Len(a) \in Nat /\ Len(a) - (Len(a) - n) = n
  OBVIOUS
<1>2. s \in Seq(Nat) /\ Len(s) = n /\ \A i \in 1..n : s[i] = a[i]
  BY <1>1, SubSeqFacts
<1>3. /\ Rows(a) \in Seq(Seq(Nat)) /\ Len(Rows(a)) = Len(a)
      /\ \A i \in 1..Len(a) : Rows(a)[i] = SubSeq(a, 1, i)
  BY RowsFacts
<1>4. Trim(Rows(a), Len(a) - n) = l
  BY <1>1, <1>3 DEF Trim
<1>5. l \in Seq(Seq(Nat)) /\ Len(l) = n /\ \A i \in 1..n : l[i] = Rows(a)[i]
  BY <1>1, <1>3, SubSeqFacts
<1> HIDE DEF s, l
<1>6. /\ Rows(s) \in Seq(Seq(Nat)) /\ Len(Rows(s)) = n
      /\ \A i \in 1..n : Rows(s)[i] = SubSeq(s, 1, i)
  BY <1>2, RowsFacts
<1>7. ASSUME NEW i \in 1..n  PROVE SubSeq(s, 1, i) = SubSeq(a, 1, i)
  <2>1. i \in Nat /\ i <= n /\ i <= Len(a) /\ \A j \in 1..i : j \in 1..n
    BY <1>1
  <2>2. /\ SubSeq(s, 1, i) \in Seq(Nat) /\ Len(SubSeq(s, 1, i)) = i
        /\ \A j \in 1..i : SubSeq(s, 1, i)[j] = s[j]
    BY <1>2, <2>1, SubSeqFacts
  <2>3. /\ SubSeq(a, 1, i) \in Seq(Nat) /\ Len(SubSeq(a, 1, i)) = i
        /\ \A j \in 1..i : SubSeq(a, 1, i)[j] = a[j]
    BY <2>1, SubSeqFacts
  <2> QED  BY <1>2, <2>1, <2>2, <2>3, SameSeq
<1>8. \A i \in 1..n : l[i] = Rows(s)[i]
  <2> TAKE i \in 1..n
  <2>1. i \in 1..Len(a)
    BY <1>1
  <2>2. l[i] = SubSeq(a, 1, i)
    BY <1>3, <1>5, <2>1
  <2> QED  BY <1>6, <1>7, <2>2
<1>9. l = Rows(s)
  BY <1>5, <1>6, <1>8, SameSeq
<1> QED  BY <1>4, <1>9 DEF s

-----------------------------------------------------------------------------
(* What the trie hands out.                                                 *)

\* rows k and tokens q together are those of t.
Covers(k, q, t) == \E n \in 0..Len(t) : k = Rows(SubSeq(t, 1, n)) /\ q = SubSeq(t, n + 1, Len(t))

LEMMA CoversNone ==
  ASSUME NEW t \in Seq(Nat)
  PROVE  Covers(NoKV, t, t)
<1>1. Len(t) \in Nat /\ 0 \in 0..Len(t) /\ 0 + 1 = 1
  OBVIOUS
<1>2. SubSeq(t, 1, 0) = <<>> /\ SubSeq(t, 1, Len(t)) = t
  OBVIOUS
<1>3. Rows(<<>>) = <<>>
  BY DEF Rows
<1> QED  BY <1>1, <1>2, <1>3 DEF Covers, NoKV

\* _search stops at a prefix.
LEMMA ReachedFacts ==
  ASSUME NEW t \in Seq(Nat)
  PROVE  Reached(t) \in Prefixes(t)
<1> DEFINE L == Len(t)
           p(l) == SubSeq(t, 1, l)
           T == {l \in 0..L : p(l) = <<>> \/ p(l) \in nodes}
           D == {L - l : l \in T}
<1>1. L \in Nat /\ \A l \in 0..L : Len(p(l)) = l
  BY SubSeqFacts
<1>2. 0 \in T
  BY <1>1
<1>3. \A l \in T : l \in Int /\ L - l \in Nat /\ L - l \in D
  BY <1>1
<1>4. D \in SUBSET Nat /\ D # {}
  BY <1>2, <1>3
<1>5. PICK d \in D : \A e \in D : d <= e
  <2> HIDE DEF D
  <2> QED  BY <1>4, NonemptyHasMin
<1>6. PICK m \in T : d = L - m
  BY <1>5
<1>7. \A l \in T : l <= m
  <2> SUFFICES ASSUME NEW l \in T  PROVE l <= m
    OBVIOUS
  <2>1. L - m <= L - l
    BY <1>3, <1>5, <1>6
  <2>2. l \in Int /\ m \in Int /\ L \in Int
    BY <1>1, <1>3, <1>6
  <2> HIDE DEF L, T
  <2> QED  BY <2>1, <2>2
<1>8. \A q \in PathOf(t) \cap nodes : Len(q) <= Len(p(m))
  <2> SUFFICES ASSUME NEW q \in PathOf(t) \cap nodes  PROVE Len(q) <= Len(p(m))
    OBVIOUS
  <2>1. PICK l \in 0..L : q = p(l)
    BY DEF PathOf, Prefixes
  <2>2. l \in T
    BY <2>1
  <2>3. Len(q) = l /\ Len(p(m)) = m
    BY <1>1, <1>6, <2>1
  <2> QED  BY <1>7, <2>2, <2>3
<1>9. p(m) \in Prefixes(t) /\ (p(m) = <<>> \/ p(m) \in nodes)
  BY <1>6 DEF Prefixes
<1> HIDE DEF p
<1> QED  BY <1>8, <1>9, Zenon DEF Reached

LEMMA PrefixFacts ==
  ASSUME NEW k \in Seq(Nat), NEW t \in Seq(Nat)
  PROVE  /\ IsPrefix(k, t) => Len(k) \in 0..Len(t) /\ k = SubSeq(t, 1, Len(k))
         /\ IsPrefix(t, t)
         /\ k \in Prefixes(t) => IsPrefix(k, t)
<1>1. SubSeq(k, 1, Len(k)) = k /\ Len(k) \in Nat /\ Len(t) \in Nat
  OBVIOUS
<1>2. ASSUME k \in Prefixes(t)  PROVE IsPrefix(k, t)
  <2>1. PICK l \in 0..Len(t) : k = SubSeq(t, 1, l)
    BY <1>2 DEF Prefixes
  <2>2. l \in Nat /\ l <= Len(t)
    BY <2>1
  <2>3. Len(k) = l
    BY <2>1, <2>2, SubSeqFacts
  <2> QED  BY <1>1, <2>1, <2>2, <2>3 DEF IsPrefix
<1>3. IsPrefix(t, t)
  BY DEF IsPrefix
<1>4. IsPrefix(k, t) => Len(k) \in 0..Len(t) /\ k = SubSeq(t, 1, Len(k))
  BY <1>1 DEF IsPrefix
<1> QED  BY <1>2, <1>3, <1>4

-----------------------------------------------------------------------------
(* Types: what the requests, the tiers and the blocks hold.                 *)

LEMMA RowsTyped ==
  ASSUME NEW a \in Seq(Nat)
  PROVE  Rows(a) \in KVs
<1>1. ASSUME NEW i \in 1..Len(a)  PROVE SubSeq(a, 1, i) \in Row
  <2>1. i \in Nat /\ i <= Len(a) /\ i # 0
    OBVIOUS
  <2>2. SubSeq(a, 1, i) \in Seq(Nat) /\ Len(SubSeq(a, 1, i)) = i
    BY <2>1, SubSeqFacts
  <2> QED  BY <2>1, <2>2 DEF Row
<1>2. Len(a) \in Nat
  OBVIOUS
<1>3. Rows(a) \in [1..Len(a) -> Row]
  BY <1>1 DEF Rows
<1> QED  BY <1>2, <1>3 DEF KVs

LEMMA TrimTyped ==
  ASSUME NEW k \in KVs, NEW n \in Nat
  PROVE  Trim(k, n) \in KVs
<1>1. Len(k) \in Nat /\ Len(k) - n \in Int /\ Len(k) - n <= Len(k)
  BY DEF KVs
<1> QED  BY <1>1, SubSeqType DEF Trim, KVs

LEMMA FeedTyped ==
  ASSUME NEW k \in KVs, NEW t \in Seq(Nat)
  PROVE  FeedAll(k, t) \in KVs
<1> DEFINE c == Context(k)
           f == [i \in DOMAIN t |-> c \o SubSeq(t, 1, i)]
<1>1. c \in Seq(Nat)
  <2>1. DOMAIN k = 1..Len(k) /\ Len(k) \in Nat /\ \A i \in 1..Len(k) : k[i] \in Row
    BY DEF KVs
  <2>2. \A y \in Row : Last(y) \in Nat
    BY DEF Row, Last
  <2>3. c \in [1..Len(k) -> Nat]
    BY <2>1, <2>2 DEF Context
  <2> QED  BY <2>1, <2>3
<1> HIDE DEF c
<1>2. ASSUME NEW i \in DOMAIN t  PROVE c \o SubSeq(t, 1, i) \in Row
  <2>1. i \in Nat /\ i <= Len(t) /\ i # 0
    OBVIOUS
  <2>2. SubSeq(t, 1, i) \in Seq(Nat) /\ Len(SubSeq(t, 1, i)) = i
    BY <2>1, SubSeqFacts
  <2>3. c \o SubSeq(t, 1, i) \in Seq(Nat) /\ Len(c \o SubSeq(t, 1, i)) = Len(c) + i
    BY <1>1, <2>2, ConcatFacts
  <2>4. Len(c) \in Nat
    BY <1>1
  <2>5. Len(c \o SubSeq(t, 1, i)) # 0
    BY <2>1, <2>3, <2>4
  <2> QED  BY <2>3, <2>5 DEF Row
<1>3. f \in KVs
  <2>1. DOMAIN t = 1..Len(t) /\ Len(t) \in Nat
    OBVIOUS
  <2>2. f \in [1..Len(t) -> Row]
    BY <1>2, <2>1
  <2> HIDE DEF f
  <2> QED  BY <2>1, <2>2 DEF KVs
<1>4. FeedAll(k, t) = k \o f
  BY DEF FeedAll, c
<1> HIDE DEF f
<1> QED  BY <1>3, <1>4, ConcatFacts DEF KVs

LEMMA ServesTyped ==
  ASSUME EntriesTyped, NEW t \in Seq(Nat), NEW s \in TrieServes(t)
  PROVE  s.kv \in KVs /\ s.rest \in Seq(Nat)
<1>0. <<>> \in KVs /\ <<>> \in Seq(Nat) /\ Len(t) \in Nat
  BY DEF KVs
<1>1. ASSUME NEW k \in Found(t)  PROVE Hit(k, t).kv \in KVs /\ Hit(k, t).rest \in Seq(Nat)
  <2>1. k \in Entries /\ k \in Seq(Nat) /\ kvOf[k] \in KVs /\ Len(k) \in Nat
    BY FoundFacts DEF EntriesTyped, Row
  <2>2. CASE IsPrefix(k, t)
    <3>1. Hit(k, t).kv = kvOf[k] /\ Hit(k, t).rest = SubSeq(t, Len(k) + 1, Len(t))
      BY <2>2 DEF Hit
    <3>2. SubSeq(t, Len(k) + 1, Len(t)) \in Seq(Nat)
      BY <1>0, <2>1, SubSeqType
    <3> QED  BY <2>1, <3>1, <3>2
  <2>3. CASE ~IsPrefix(k, t)
    <3>1. Reached(t) \in Prefixes(t) /\ IsPrefix(t, t)
      BY ReachedFacts, PrefixFacts
    <3>2. k \in NextBelow(t)
      BY <2>1, <2>3, <3>1, PrefixFacts DEF Found
    <3>3. Len(t) <= Len(k)
      BY <3>2 DEF NextBelow, Extensions, IsStrictPrefix, IsPrefix
    <3>4. Len(k) - Len(t) \in Nat
      BY <1>0, <2>1, <3>3
    <3>5. Hit(k, t).kv = Trim(kvOf[k], Len(k) - Len(t)) /\ Hit(k, t).rest = <<>>
      BY <2>3 DEF Hit
    <3> QED  BY <1>0, <2>1, <3>4, <3>5, TrimTyped
  <2> QED  BY <2>2, <2>3
<1>2. \/ \E k \in Found(t) : s = Hit(k, t)
      \/ s = [kv |-> NoKV, rest |-> t, used |-> {}]
  BY DEF TrieServes
<1> QED  BY <1>0, <1>1, <1>2 DEF NoKV

BlockTypes ==
  /\ data \in [Blocks -> KVs] /\ filled \in [Blocks -> 0..BlockSize]
  /\ \A c \in DOMAIN hashTo : Len(c) = BlockSize
  /\ \A p \in DOMAIN pindex : p \in Seq(Nat)
  /\ \A r \in DOMAIN tables : tables[r].num \in Nat

\* The sum of counts is a number.
LEMMA TokenCountFacts ==
  ASSUME filled \in [Blocks -> Nat], NEW ids \in Seq(Blocks)
  PROVE  TokenCount(ids) \in Nat
<1> DEFINE N == Len(ids)
           step == [x \in (1..N) \X Nat |-> x[2] + filled[ids[x[1]]]]
           Def(f) == [n \in 0..N |-> IF n = 0 THEN 0 ELSE f[n - 1] + filled[ids[n]]]
           sum == CHOOSE f : f = Def(f)
<1>1. N \in Nat /\ \A n \in 1..N : filled[ids[n]] \in Nat
  OBVIOUS
<1>2. step \in [(1..N) \X Nat -> Nat] /\ \A n \in 1..N, q \in Nat : step[<<n, q>>] = q + filled[ids[n]]
  <2>1. ASSUME NEW x \in (1..N) \X Nat  PROVE x[2] + filled[ids[x[1]]] \in Nat
    <3>1. x[1] \in 1..N /\ x[2] \in Nat
      OBVIOUS
    <3> QED  BY <1>1, <3>1
  <2>2. step \in [(1..N) \X Nat -> Nat]
    BY <2>1
  <2>3. \A n \in 1..N, q \in Nat : step[<<n, q>>] = q + filled[ids[n]]
    OBVIOUS
  <2> HIDE DEF step, N
  <2> QED  BY <2>2, <2>3
<1> HIDE DEF step
<1>3. PICK g : Recurs(g, N, Nat, 0, step)
  <2>1. 0 \in Nat
    OBVIOUS
  <2> HIDE DEF N
  <2> QED  BY <1>1, <1>2, <2>1, Recursion
<1>4. g \in [0..N -> Nat] /\ \A n \in 0..N : g[n] = IF n = 0 THEN 0 ELSE g[n - 1] + filled[ids[n]]
  <2>1. ASSUME NEW n \in 1..N  PROVE g[n] = g[n - 1] + filled[ids[n]]
    <3>1. n - 1 \in 0..N /\ g \in [0..N -> Nat] /\ g[n] = step[<<n, g[n - 1]>>]
      BY <1>1, <1>3 DEF Recurs
    <3>2. g[n - 1] \in Nat
      BY <3>1
    <3> QED  BY <1>2, <3>1, <3>2
  <2>2. \A n \in 0..N : n = 0 \/ n \in 1..N
    BY <1>1
  <2> QED  BY <1>3, <2>1, <2>2 DEF Recurs
<1>5. g = Def(g)
  BY <1>4
<1>6. sum = Def(sum)
  <2> HIDE DEF Def
  <2> QED  BY <1>5
<1>7. TokenCount(ids) = sum[N]
  BY DEF TokenCount
<1>8. \A n \in 0..N : sum[n] = IF n = 0 THEN 0 ELSE sum[n - 1] + filled[ids[n]]
  <2> HIDE DEF sum
  <2> QED  BY <1>6
<1> HIDE DEF sum
<1> DEFINE T == {n \in 0..N : sum[n] \in Nat}
<1>9. ASSUME NEW n \in 0..N, n \in T, n < N  PROVE n + 1 \in T
  <2>1. n + 1 \in 1..N /\ n + 1 \in 0..N /\ (n + 1) - 1 = n /\ n + 1 # 0
    BY <1>1, <1>9
  <2>2. sum[n + 1] = sum[n] + filled[ids[n + 1]]
    BY <1>8, <2>1
  <2> QED  BY <1>1, <1>9, <2>1, <2>2
<1>10. N \in T
  <2>1. T \in SUBSET (0..N) /\ 0 \in T /\ N \in 0..N
    BY <1>1, <1>8
  <2> HIDE DEF T, N
  <2> QED  BY <1>1, <1>9, <2>1, Climb
<1> QED  BY <1>7, <1>10

\* What the blocks hold, one after the other.
LEMMA ReconstructedTyped ==
  ASSUME data \in [Blocks -> KVs], NEW ids \in Seq(Blocks)
  PROVE  Reconstructed(ids) \in KVs
<1> DEFINE ss == [i \in DOMAIN ids |-> data[ids[i]]]
<1>1. <<>> \in KVs
  BY DEF KVs
<1>2. DOMAIN ids = 1..Len(ids) /\ Len(ids) \in Nat /\ \A i \in DOMAIN ids : data[ids[i]] \in KVs
  OBVIOUS
<1>3. ss \in [1..Len(ids) -> KVs]
  BY <1>2
<1> HIDE DEF ss
<1>4. ss \in Seq(KVs)
  BY <1>2, <1>3
<1>5. FlattenSeq(ss) \in KVs
  BY <1>4, FlattenType DEF KVs
<1> QED  BY <1>1, <1>5 DEF Reconstructed, ss

LEMMA PagedServesTyped ==
  ASSUME PagedTypes, BlockTypes, NEW t \in Seq(Nat)
  PROVE  LET s == PagedServes(t)
         IN  s.kv \in KVs /\ s.rest \in Seq(Nat) /\ s.table.num \in Nat
<1> DEFINE shared == SharedPrefix(t)
           match == BestMatch(t)
           hit(ids, n) ==
             [found |-> TRUE, table |-> Table(Live(ids), TokenCount(Live(ids))),
              kv |-> Reconstructed(Live(ids)),
              rest |-> IF Reconstructed(Live(ids)) # <<>> THEN SubSeq(t, n + 1, Len(t)) ELSE t]
           miss == [found |-> FALSE, table |-> Table(<<>>, 0), kv |-> <<>>, rest |-> t]
           Right(s) == s.kv \in KVs /\ s.rest \in Seq(Nat) /\ s.table.num \in Nat
<1>1. ASSUME NEW ids \in Seq(Blocks), NEW n \in Nat  PROVE Right(hit(ids, n))
  <2> DEFINE l == Live(ids)
             x == TokenCount(l)
             y == Reconstructed(l)
             z == IF y # <<>> THEN SubSeq(t, n + 1, Len(t)) ELSE t
             s == [found |-> TRUE, table |-> [ids |-> l, num |-> x], kv |-> y, rest |-> z]
  <2>1. l \in Seq(Blocks)
    BY LiveFacts
  <2>2. hit(ids, n) = s
    BY DEF Table
  <2> HIDE DEF l
  <2>3. x \in Nat
    <3>1. filled \in [Blocks -> Nat]
      BY PagedAssumption DEF BlockTypes
    <3> QED  BY <2>1, <3>1, TokenCountFacts
  <2>4. y \in KVs
    BY <2>1, ReconstructedTyped DEF BlockTypes
  <2>5. z \in Seq(Nat)
    <3>1. SubSeq(t, n + 1, Len(t)) \in Seq(Nat)
      <4>1. n + 1 \in Nat \ {0} /\ Len(t) \in Int /\ Len(t) <= Len(t)
        OBVIOUS
      <4> QED  BY <4>1, SubSeqType
    <3> QED  BY <3>1
  <2> HIDE DEF x, y, z, hit
  <2>6. s.table.num = x /\ s.kv = y /\ s.rest = z
    OBVIOUS
  <2> HIDE DEF s
  <2> QED  BY <2>2, <2>3, <2>4, <2>5, <2>6
<1>2. Right(miss)
  BY DEF KVs, Table
<1>3. PagedServes(t) = IF shared # <<>> THEN hit(shared, Len(shared) * BlockSize)
                       ELSE IF match # {} THEN LET p == CHOOSE q \in match : TRUE IN hit(pindex[p], Len(p))
                       ELSE miss
  BY DEF PagedServes
<1>4. shared \in Seq(Blocks) /\ Len(shared) * BlockSize \in Nat
  <2>1. shared \in Seq(Blocks)
    BY SharedFacts
  <2> HIDE DEF shared
  <2>2. Len(shared) \in Nat /\ BlockSize \in Nat
    BY <2>1, PagedAssumption
  <2> QED  BY <2>1, <2>2
<1>5. match # {} => \E p : /\ p = (CHOOSE q \in match : TRUE)
                           /\ pindex[p] \in Seq(Blocks) /\ Len(p) \in Nat
  <2>1. match \subseteq DOMAIN pindex
    BY DEF BestMatch
  <2> HIDE DEF match
  <2>2. \A p \in DOMAIN pindex : pindex[p] \in Seq(Blocks) /\ Len(p) \in Nat
    BY DEF PagedTypes, BlockTypes
  <2> QED  BY <2>1, <2>2
<1> HIDE DEF shared, match, hit, miss, Right
<1>6. Right(PagedServes(t))
  <2>1. CASE shared # <<>>
    BY <1>1, <1>3, <1>4, <2>1
  <2>2. CASE shared = <<>> /\ match # {}
    BY <1>1, <1>3, <1>5, <2>2
  <2>3. CASE shared = <<>> /\ match = {}
    BY <1>2, <1>3, <2>3
  <2> QED  BY <2>1, <2>2, <2>3
<1> QED  BY <1>6 DEF Right

-----------------------------------------------------------------------------
(* Every step keeps the types.                                              *)

FlowTypes ==
  /\ tier \in Tiers /\ kv \in [Reqs -> KVs] /\ rest \in [Reqs -> Seq(Nat)]
  /\ out \in [Reqs -> Seq(Nat)] /\ kept \in [Reqs -> Nat]
  /\ \A r \in Reqs : kept[r] <= Len(out[r])
  /\ busy.op \in {"idle", "store", "copy"} /\ busy.req \in Reqs \cup {NoReq}

Typed == FlowTypes /\ BlockTypes

LEMMA BlocksSame ==
  ASSUME BlockTypes, UNCHANGED <<data, filled, hashTo, pindex, tables>>
  PROVE  BlockTypes'
BY DEF BlockTypes

\* Only a call starts or ends.
LEMMA FlowSame ==
  ASSUME FlowTypes, UNCHANGED <<tier, kv, rest, out, kept>>,
         \/ busy' = busy \/ busy' = Idle
         \/ busy'.op \in {"idle", "store", "copy"} /\ busy'.req \in Reqs
  PROVE  FlowTypes'
BY DEF FlowTypes, Idle

\* A table of its own for a request.
LEMMA TableTypes ==
  ASSUME BlockTypes, UNCHANGED <<data, filled, hashTo, pindex>>, NEW r, NEW ids, NEW n \in Nat,
         tables' = With(tables, r, Table(ids, n))
  PROVE  BlockTypes'
<1>1. \A x \in DOMAIN tables' : tables'[x].num \in Nat
  <2>1. DOMAIN tables' = DOMAIN tables \cup {r}
    BY DEF With
  <2>2. ASSUME NEW x \in DOMAIN tables'  PROVE tables'[x].num \in Nat
    <3>1. CASE x = r
      BY <3>1 DEF With, Table
    <3>2. CASE x # r
      BY <2>1, <3>2 DEF With, BlockTypes
    <3> QED  BY <3>1, <3>2
  <2> QED  BY <2>2
<1> QED  BY <1>1 DEF BlockTypes

LEMMA AddTypes ==
  ASSUME PagedTypes, EntriesTyped, Typed, NEW r \in Reqs, Add(r)
  PROVE  Typed'
<1>1. Prompt[r] \in Seq(Nat) /\ UNCHANGED <<tier, out, kept, busy>>
  BY PromptFacts DEF Add
<1>2. CASE tier = "trie"
  <2>1. PICK s \in TrieServes(Prompt[r]) :
          kv' = [kv EXCEPT ![r] = s.kv] /\ rest' = [rest EXCEPT ![r] = s.rest]
    BY <1>2 DEF Add
  <2>2. s.kv \in KVs /\ s.rest \in Seq(Nat)
    BY <1>1, <2>1, ServesTyped
  <2>3. FlowTypes'
    BY <1>1, <2>1, <2>2 DEF Typed, FlowTypes
  <2>4. UNCHANGED pagedVars
    BY <1>2 DEF Add
  <2>5. BlockTypes'
    BY <2>4, BlocksSame DEF Typed, pagedVars
  <2> QED  BY <2>3, <2>5 DEF Typed
<1>3. CASE tier # "trie"
  <2> DEFINE s == PagedServes(Prompt[r])
  <2>1. /\ kv' = [kv EXCEPT ![r] = s.kv] /\ rest' = [rest EXCEPT ![r] = s.rest]
        /\ PagedFetch(r, s)
    BY <1>3 DEF Add
  <2>2. s.kv \in KVs /\ s.rest \in Seq(Nat) /\ s.table.num \in Nat
    BY <1>1, PagedServesTyped DEF Typed
  <2>3. s.table = Table(s.table.ids, s.table.num)
    BY <1>1, ServesFacts
  <2> HIDE DEF s
  <2>4. FlowTypes'
    BY <1>1, <2>1, <2>2 DEF Typed, FlowTypes
  <2>5. /\ UNCHANGED <<data, filled, hashTo, pindex>>
        /\ tables' = tables \/ tables' = With(tables, r, s.table)
    BY <2>1 DEF PagedFetch
  <2>6. BlockTypes'
    BY <2>2, <2>3, <2>5, BlocksSame, TableTypes DEF Typed
  <2> QED  BY <2>4, <2>6 DEF Typed
<1> QED  BY <1>2, <1>3

LEMMA InsertTypes ==
  ASSUME Typed, NEW r \in Reqs, Insert(r)
  PROVE  Typed'
<1>1. Prompt[r] \in Seq(Nat) /\ Prompt[r] # <<>> /\ UNCHANGED <<tier, out, kept, busy>> /\ UNCHANGED pagedVars
  BY PromptFacts DEF Insert
<1>2. kv[r] \in KVs /\ rest[r] \in Seq(Nat)
  BY DEF Typed, FlowTypes
<1>3. Start(r) \in KVs
  <2>1. <<Last(Prompt[r])>> \in Seq(Nat)
    <3>1. Last(Prompt[r]) \in Nat
      BY <1>1 DEF Last
    <3> QED  BY <3>1
  <2>2. Trim(kv[r], 1) \in KVs
    BY <1>2, TrimTyped
  <2>3. /\ FeedAll(kv[r], rest[r]) \in KVs /\ FeedAll(kv[r], <<Last(Prompt[r])>>) \in KVs
        /\ FeedAll(Trim(kv[r], 1), <<Last(Prompt[r])>>) \in KVs
    BY <1>2, <2>1, <2>2, FeedTyped
  <2> QED  BY <2>3 DEF Start
<1>4. Rows(Prompt[r]) \in KVs
  BY <1>1, RowsTyped
<1>5. \/ kv' = [kv EXCEPT ![r] = Start(r)] /\ rest' = rest
      \/ kv' = [kv EXCEPT ![r] = Rows(Prompt[r])] /\ rest' = [rest EXCEPT ![r] = Prompt[r]]
  BY DEF Insert
<1>6. FlowTypes'
  BY <1>1, <1>3, <1>4, <1>5 DEF Typed, FlowTypes
<1>7. BlockTypes'
  BY <1>1, BlocksSame DEF Typed, pagedVars
<1> QED  BY <1>6, <1>7 DEF Typed

LEMMA SampledTypes ==
  ASSUME FlowTypes, NEW r \in Reqs, NEW x \in Vocab, Sampled(r, x), UNCHANGED <<tier, rest, kept>>,
         busy' = busy \/ (busy'.op \in {"idle", "store", "copy"} /\ busy'.req \in Reqs)
  PROVE  FlowTypes'
<1>1. /\ x \in Nat /\ kv[r] \in KVs /\ out[r] \in Seq(Nat)
      /\ out' = [out EXCEPT ![r] = Append(out[r], x)]
      /\ kv' = [kv EXCEPT ![r] = Feed(kv[r], x)]
  BY PromptAssumption DEF FlowTypes, Sampled
<1>2. Append(out[r], x) \in Seq(Nat) /\ Len(Append(out[r], x)) = Len(out[r]) + 1 /\ <<x>> \in Seq(Nat)
  BY <1>1
<1>3. Feed(kv[r], x) \in KVs
  BY <1>1, <1>2, FeedTyped DEF Feed
<1>4. out' \in [Reqs -> Seq(Nat)] /\ kv' \in [Reqs -> KVs]
  BY <1>1, <1>2, <1>3 DEF FlowTypes
<1>5. ASSUME NEW y \in Reqs  PROVE kept'[y] <= Len(out'[y])
  <2>1. kept[y] \in Nat /\ kept[y] <= Len(out[y]) /\ Len(out[r]) \in Nat
    BY DEF FlowTypes
  <2>2. CASE y = r
    BY <1>1, <1>2, <2>1, <2>2 DEF FlowTypes
  <2>3. CASE y # r
    BY <1>1, <2>1, <2>3 DEF FlowTypes
  <2> QED  BY <2>2, <2>3
<1> QED  BY <1>4, <1>5 DEF FlowTypes

LEMMA FinishTypes ==
  ASSUME Typed, NEW r \in Reqs, NEW x \in Vocab, Finish(r, x)
  PROVE  Typed'
<1>1. /\ Sampled(r, x) /\ UNCHANGED <<tier, rest, kept>>
      /\ busy' = busy \/ busy' = [op |-> "store", req |-> r, at |-> 0]
      /\ UNCHANGED pagedVars \/ StoreTable(r)
  BY DEF Finish
<1>2. busy' = busy \/ (busy'.op = "store" /\ busy'.req = r)
  BY <1>1
<1>3. FlowTypes'
  BY <1>1, <1>2, SampledTypes DEF Typed
<1>4. /\ UNCHANGED <<data, filled, hashTo, pindex>>
      /\ tables' = tables \/ tables' = With(tables, r, Table(<<>>, 0))
  BY <1>1 DEF StoreTable, pagedVars
<1>5. BlockTypes'
  BY <1>4, BlocksSame, TableTypes DEF Typed
<1> QED  BY <1>3, <1>5 DEF Typed

LEMMA RecoverTypes ==
  ASSUME Typed, Recover
  PROVE  Typed'
<1> DEFINE hit == {r \in Reqs : phase[r] = "running"}
<1>1. /\ kv'   = [r \in Reqs |-> IF r \in hit THEN NoKV ELSE kv[r]]
      /\ rest' = [r \in Reqs |-> IF r \in hit THEN Prompt[r] ELSE rest[r]]
      /\ kept' = [r \in Reqs |-> IF r \in hit THEN Len(out[r]) ELSE kept[r]]
      /\ UNCHANGED <<tier, out, busy>> /\ PagedClear
  BY DEF Recover
<1>2. NoKV \in KVs /\ \A r \in Reqs : Prompt[r] \in Seq(Nat) /\ Len(out[r]) \in Nat
  BY PromptFacts DEF NoKV, KVs, Typed, FlowTypes
<1> HIDE DEF hit
<1>3. kv' \in [Reqs -> KVs] /\ rest' \in [Reqs -> Seq(Nat)] /\ kept' \in [Reqs -> Nat]
  BY <1>1, <1>2 DEF Typed, FlowTypes
<1>4. \A r \in Reqs : kept'[r] <= Len(out'[r])
  BY <1>1, <1>2 DEF Typed, FlowTypes
<1>5. FlowTypes'
  BY <1>1, <1>3, <1>4 DEF Typed, FlowTypes
<1>6. BlockTypes'
  <2>1. /\ data' = [b \in Blocks |-> <<>>] /\ filled' = [b \in Blocks |-> 0]
        /\ hashTo' = <<>> /\ pindex' = <<>> /\ tables' = <<>>
    BY <1>1 DEF PagedClear, PagedFresh
  <2>2. <<>> \in KVs /\ 0 \in 0..BlockSize
    BY PagedAssumption DEF KVs
  <2> QED  BY <2>1, <2>2 DEF BlockTypes
<1> QED  BY <1>5, <1>6 DEF Typed

\* What store_cache puts into a block.
LEMMA NextTokensFacts ==
  ASSUME BlockTypes, NEW r \in DOMAIN tables, NEW t \in Seq(Nat)
  PROVE  NextTokens(r, t) \in Seq(Nat) /\ Len(NextTokens(r, t)) \in 0..BlockSize
<1> DEFINE n == tables[r].num
           e == IF n + BlockSize < Len(t) THEN n + BlockSize ELSE Len(t)
<1>1. n \in Nat
  BY DEF BlockTypes
<1> HIDE DEF n
<1>2. BlockSize \in Nat /\ Len(t) \in Nat /\ n + 1 \in Nat \ {0}
  BY <1>1, PagedAssumption
<1>3. e \in Int /\ e <= Len(t) /\ e <= n + BlockSize
  BY <1>1, <1>2
<1>4. NextTokens(r, t) = SubSeq(t, n + 1, e)
  BY DEF NextTokens, n
<1> HIDE DEF e
<1>5. /\ SubSeq(t, n + 1, e) \in Seq(Nat) /\ Len(SubSeq(t, n + 1, e)) \in Nat
      /\ Len(SubSeq(t, n + 1, e)) = IF n + 1 <= e THEN e - (n + 1) + 1 ELSE 0
  BY <1>2, <1>3, SubSeqType
<1>6. Len(SubSeq(t, n + 1, e)) <= BlockSize
  BY <1>1, <1>2, <1>3, <1>5
<1> QED  BY <1>2, <1>4, <1>5, <1>6

LEMMA StoreNewTypes ==
  ASSUME PagedTypes, BlockTypes, NEW r \in DOMAIN tables, NEW t \in Seq(Nat), NEW k \in KVs,
         StoreNew(r, t, k)
  PROVE  BlockTypes'
<1> DEFINE chunk == NextTokens(r, t)
           first == tables[r].num + 1
           end   == IF first + Len(chunk) - 1 < Len(k) THEN first + Len(chunk) - 1 ELSE Len(k)
           slice == SubSeq(k, first, end)
<1>1. PICK b \in Candidates :
        /\ filled' = [filled EXCEPT ![b] = Len(chunk)]
        /\ data' = [data EXCEPT ![b] = IF slice = <<>> THEN @ ELSE slice]
        /\ hashTo' = IF Len(chunk) = BlockSize THEN With(hashTo, chunk, b) ELSE hashTo
        /\ tables' = [tables EXCEPT ![r] = Table(Append(tables[r].ids, b), tables[r].num + Len(chunk))]
        /\ pindex' = pindex
  BY DEF StoreNew, Extended
<1>2. b \in Blocks
  BY <1>1, CandidateFacts
<1>3. chunk \in Seq(Nat) /\ Len(chunk) \in 0..BlockSize /\ Len(chunk) \in Nat
  <2>1. chunk \in Seq(Nat) /\ Len(chunk) \in 0..BlockSize
    BY NextTokensFacts
  <2> HIDE DEF chunk
  <2> QED  BY <2>1
<1> HIDE DEF chunk
<1>4. slice \in KVs
  <2>1. first \in Nat \ {0}
    BY DEF BlockTypes
  <2>2. Len(k) \in Nat
    BY DEF KVs
  <2> HIDE DEF first
  <2>3. end \in Int /\ end <= Len(k)
    BY <1>3, <2>1, <2>2
  <2> HIDE DEF end
  <2> QED  BY <2>1, <2>3, SubSeqType DEF KVs
<1> HIDE DEF slice
<1>5. data' \in [Blocks -> KVs] /\ filled' \in [Blocks -> 0..BlockSize]
  BY <1>1, <1>2, <1>3, <1>4 DEF BlockTypes
<1>6. \A c \in DOMAIN hashTo' : Len(c) = BlockSize
  BY <1>1 DEF BlockTypes, With
<1>7. \A x \in DOMAIN tables' : tables'[x].num \in Nat
  <2>1. DOMAIN tables' = DOMAIN tables
    BY <1>1
  <2>2. tables'[r].num = tables[r].num + Len(chunk)
    BY <1>1 DEF Table
  <2>3. \A x \in DOMAIN tables : x # r => tables'[x] = tables[x]
    BY <1>1
  <2>4. \A x \in DOMAIN tables : tables[x].num \in Nat
    BY DEF BlockTypes
  <2>5. tables[r].num + Len(chunk) \in Nat
    BY <1>3, <2>4
  <2> QED  BY <2>1, <2>2, <2>3, <2>4, <2>5
<1> QED  BY <1>1, <1>5, <1>6, <1>7 DEF BlockTypes

LEMMA StoreSharedTypes ==
  ASSUME BlockTypes, NEW r \in DOMAIN tables, NEW t, StoreShared(r, t)
  PROVE  BlockTypes'
<1>1. PICK b : /\ tables' = [tables EXCEPT ![r] = Table(Append(tables[r].ids, b), tables[r].num + BlockSize)]
               /\ UNCHANGED <<data, filled, hashTo, pindex>>
  BY DEF StoreShared, Extended
<1>2. \A x \in DOMAIN tables' : tables'[x].num \in Nat
  <2>1. DOMAIN tables' = DOMAIN tables
    BY <1>1
  <2>2. tables'[r].num = tables[r].num + BlockSize
    BY <1>1 DEF Table
  <2>3. \A x \in DOMAIN tables : x # r => tables'[x] = tables[x]
    BY <1>1
  <2>4. \A x \in DOMAIN tables : tables[x].num \in Nat
    BY DEF BlockTypes
  <2>5. tables[r].num + BlockSize \in Nat
    BY <2>4, PagedAssumption
  <2> QED  BY <2>1, <2>2, <2>3, <2>4, <2>5
<1> QED  BY <1>1, <1>2 DEF BlockTypes

LEMMA StoreDoneTypes ==
  ASSUME PagedInv, BlockTypes, NEW r \in DOMAIN tables, NEW t \in Seq(Nat), StoreDone(r, t)
  PROVE  BlockTypes'
<1> DEFINE ids == tables[r].ids
           end(i) == IF i * BlockSize < Len(t) THEN i * BlockSize ELSE Len(t)
           new == {SubSeq(t, 1, end(i)) : i \in DOMAIN ids}
<1>1. DOMAIN pindex' = DOMAIN pindex \cup new /\ UNCHANGED <<data, filled, hashTo, tables>>
  BY DEF StoreDone
<1>2. ids \in Seq(Blocks)
  BY TableParts DEF PagedInv
<1> HIDE DEF ids
<1>3. ASSUME NEW i \in DOMAIN ids  PROVE SubSeq(t, 1, end(i)) \in Seq(Nat)
  <2>1. i \in Nat /\ BlockSize \in Nat /\ Len(t) \in Nat /\ 1 \in Nat \ {0}
    BY <1>2, PagedAssumption
  <2>2. i * BlockSize \in Nat
    BY <2>1
  <2>3. end(i) \in Int /\ end(i) <= Len(t)
    BY <2>1, <2>2
  <2> HIDE DEF end
  <2> QED  BY <2>1, <2>3, SubSeqType
<1> HIDE DEF end
<1>4. \A p \in DOMAIN pindex' : p \in Seq(Nat)
  BY <1>1, <1>3 DEF BlockTypes
<1> QED  BY <1>1, <1>4 DEF BlockTypes

LEMMA PagedStoreTypes ==
  ASSUME PagedInv, FlowInv, Typed, PagedStore
  PROVE  Typed'
<1> DEFINE r == busy.req
           t == Full(r)
<1>1. r \in DOMAIN tables /\ r \in Reqs
  BY DEF PagedStore, FlowInv
<1> HIDE DEF r
<1>2. t \in Seq(Nat) /\ kv[r] \in KVs
  <2>1. Prompt[r] \in Seq(Nat) /\ out[r] \in Seq(Nat) /\ kv[r] \in KVs
    BY <1>1, PromptFacts DEF Typed, FlowTypes
  <2> QED  BY <2>1, ConcatFacts DEF Full
<1> HIDE DEF t
<1>3. /\ UNCHANGED <<tier, kv, rest, out, kept>> /\ (busy' = busy \/ busy' = Idle)
      /\ \/ StoreShared(r, t) \/ StoreNew(r, t, kv[r]) \/ StoreDone(r, t)
         \/ UNCHANGED pagedVars
  BY DEF PagedStore, r, t
<1>4. FlowTypes'
  BY <1>3, FlowSame DEF Typed
<1>5. BlockTypes'
  <2>1. CASE StoreShared(r, t)
    BY <1>1, <2>1, StoreSharedTypes DEF Typed
  <2>2. CASE StoreNew(r, t, kv[r])
    BY <1>1, <1>2, <2>2, StoreNewTypes DEF Typed, PagedInv
  <2>3. CASE StoreDone(r, t)
    BY <1>1, <1>2, <2>3, StoreDoneTypes DEF Typed
  <2>4. CASE UNCHANGED pagedVars
    BY <2>4, BlocksSame DEF Typed, pagedVars
  <2> QED  BY <1>3, <2>1, <2>2, <2>3, <2>4
<1> QED  BY <1>4, <1>5 DEF Typed

LEMMA PagedCopyTypes ==
  ASSUME PagedInv, FlowInv, Typed, PagedCopy
  PROVE  Typed'
<1> DEFINE r == busy.req
           i == busy.at
<1>1. r \in DOMAIN tables /\ r \in Reqs /\ i \in DOMAIN tables[r].ids
  BY DEF PagedCopy, FlowInv
<1>2. busy' = Idle \/ busy' = [busy EXCEPT !.at = @ + 1]
  BY DEF PagedCopy
<1>3. busy' = Idle \/ (busy'.op = busy.op /\ busy'.req = r)
  <2>1. busy = [op |-> busy.op, req |-> r, at |-> i]
    BY DEF FlowInv
  <2> HIDE DEF r, i
  <2> QED  BY <1>2, <2>1
<1>4. UNCHANGED <<tier, kv, rest, out, kept>> /\ (CopyBlock(r, i) \/ UNCHANGED pagedVars)
  BY DEF PagedCopy
<1>5. FlowTypes'
  BY <1>1, <1>3, <1>4, FlowSame DEF Typed, FlowTypes
<1>6. CASE CopyBlock(r, i)
  <2> DEFINE old == tables[r].ids[i]
  <2>1. PICK b \in Candidates :
          /\ filled' = [filled EXCEPT ![b] = filled[old]]
          /\ data' = [data EXCEPT ![b] = data[old]]
          /\ tables' = [tables EXCEPT ![r].ids[i] = b]
          /\ UNCHANGED <<hashTo, pindex>>
    BY <1>6 DEF CopyBlock
  <2>2. old \in Blocks
    <3>1. tables[r].ids \in Seq(Blocks)
      BY <1>1, TableParts DEF PagedInv
    <3> QED  BY <1>1, <3>1
  <2> HIDE DEF old
  <2>3. b \in Blocks
    BY <2>1, CandidateFacts DEF PagedInv
  <2>4. data' \in [Blocks -> KVs] /\ filled' \in [Blocks -> 0..BlockSize]
    BY <2>1, <2>2, <2>3 DEF Typed, BlockTypes
  <2>5. \A x \in DOMAIN tables' : tables'[x].num \in Nat
    <3>1. tables[r] = Table(tables[r].ids, tables[r].num)
      BY <1>1, TableParts DEF PagedInv
    <3> DEFINE u == [tables[r].ids EXCEPT ![i] = b]
               m == tables[r].num
    <3>2. tables'[r] = [tables[r] EXCEPT !.ids = u]
      BY <1>1, <2>1
    <3>3. tables'[r].num = m
      <4>1. tables[r] = [ids |-> tables[r].ids, num |-> m]
        BY <3>1 DEF Table
      <4> HIDE DEF u
      <4> QED  BY <3>2, <4>1
    <3>4. DOMAIN tables' = DOMAIN tables /\ \A x \in DOMAIN tables : x # r => tables'[x] = tables[x]
      BY <2>1
    <3>5. \A x \in DOMAIN tables : tables[x].num \in Nat
      BY DEF Typed, BlockTypes
    <3> QED  BY <3>3, <3>4, <3>5
  <2>6. BlockTypes'
    BY <2>1, <2>4, <2>5 DEF Typed, BlockTypes
  <2> QED  BY <1>5, <2>6 DEF Typed
<1>7. CASE UNCHANGED pagedVars
  BY <1>5, <1>7, BlocksSame DEF Typed, pagedVars
<1> QED  BY <1>4, <1>6, <1>7

LEMMA EmbedderTypes ==
  ASSUME PagedInv, FlowInv, Typed,
         \/ \E r \in Reqs : Release(r) \/ CopyOnWrite(r) \/ \E n \in Reqs : Fork(r, n)
         \/ \E t \in Texts : Pin(t) \/ Unpin(t)
  PROVE  Typed'
<1>1. ASSUME NEW r \in Reqs, Release(r)  PROVE Typed'
  <2>1. /\ UNCHANGED <<tier, kv, rest, out, kept, busy, data, filled, hashTo, pindex>>
        /\ tables' = Restrict(tables, DOMAIN tables \ {r})
    BY <1>1 DEF Release, Calls, PagedRelease
  <2>2. FlowTypes'
    BY <2>1, FlowSame DEF Typed
  <2>3. \A x \in DOMAIN tables' : x \in DOMAIN tables /\ tables'[x] = tables[x]
    BY <2>1 DEF Restrict
  <2> QED  BY <2>1, <2>2, <2>3 DEF Typed, BlockTypes
<1>2. ASSUME NEW r \in Reqs, CopyOnWrite(r)  PROVE Typed'
  <2>1. /\ UNCHANGED <<tier, kv, rest, out, kept>> /\ UNCHANGED pagedVars
        /\ busy' = [op |-> "copy", req |-> r, at |-> 1]
    BY <1>2 DEF CopyOnWrite, Calls
  <2>2. busy'.op = "copy" /\ busy'.req = r
    BY <2>1
  <2> QED  BY <2>1, <2>2, FlowSame, BlocksSame DEF Typed, pagedVars
<1>3. ASSUME NEW r \in Reqs, NEW n \in Reqs, Fork(r, n)  PROVE Typed'
  <2>1. /\ UNCHANGED <<tier, kv, rest, out, kept, busy, data, filled, hashTo, pindex>>
        /\ tables' = With(tables, n, tables[r]) /\ r \in entries
    BY <1>3 DEF Fork, Calls, PagedFork
  <2>2. r \in DOMAIN tables /\ tables[r].num \in Nat
    BY <2>1 DEF FlowInv, Typed, BlockTypes
  <2>3. tables[r] = Table(tables[r].ids, tables[r].num)
    BY <2>2, TableParts DEF PagedInv
  <2>4. FlowTypes'
    BY <2>1, FlowSame DEF Typed
  <2>5. BlockTypes'
    BY <2>1, <2>2, <2>3, TableTypes DEF Typed
  <2> QED  BY <2>4, <2>5 DEF Typed
<1>4. ASSUME NEW t, Pin(t) \/ Unpin(t)  PROVE Typed'
  <2>1. UNCHANGED <<tier, kv, rest, out, kept, busy, data, filled, hashTo, pindex, tables>>
    BY <1>4 DEF Pin, Unpin, Calls, PagedPin, PagedUnpin, pagedVars
  <2> QED  BY <2>1, FlowSame, BlocksSame DEF Typed
<1> QED  BY <1>1, <1>2, <1>3, <1>4

LEMMA TypedNext ==
  ASSUME PagedInv, FlowInv, EntriesTyped, Typed, [Next]_vars
  PROVE  Typed'
<1>1. ASSUME NEW r \in Reqs, Add(r)  PROVE Typed'
  BY <1>1, AddTypes DEF PagedInv
<1>2. ASSUME NEW r \in Reqs, Insert(r)  PROVE Typed'
  BY <1>2, InsertTypes
<1>3. ASSUME NEW r \in Reqs, NEW x \in Vocab, Finish(r, x)  PROVE Typed'
  BY <1>3, FinishTypes
<1>4. ASSUME NEW r \in Reqs, NEW x \in Vocab, Decode(r, x)  PROVE Typed'
  <2>1. Sampled(r, x) /\ UNCHANGED <<tier, rest, kept, busy>> /\ UNCHANGED pagedVars
    BY <1>4 DEF Decode
  <2>2. FlowTypes'
    BY <2>1, SampledTypes DEF Typed
  <2> QED  BY <2>1, <2>2, BlocksSame DEF Typed, pagedVars
<1>5. ASSUME (\E r \in Reqs : Abort(r)) \/ UNCHANGED vars  PROVE Typed'
  <2>1. UNCHANGED <<tier, kv, rest, out, kept, busy>> /\ UNCHANGED pagedVars
    BY <1>5 DEF Abort, vars, flowVars
  <2> QED  BY <2>1, FlowSame, BlocksSame DEF Typed, pagedVars
<1>6. ASSUME \/ \E r \in Reqs : Release(r) \/ CopyOnWrite(r) \/ \E n \in Reqs : Fork(r, n)
             \/ \E t \in Texts : Pin(t) \/ Unpin(t)
      PROVE  Typed'
  BY <1>6, EmbedderTypes
<1> QED  BY <1>1, <1>2, <1>3, <1>4, <1>5, <1>6, RecoverTypes, PagedStoreTypes, PagedCopyTypes DEF Next

\* What a finished request is stored under, and its rows.
LEMMA FinishStores ==
  ASSUME FlowTypes', NEW r \in Reqs
  PROVE  Full(r)' \in Row /\ kv'[r] \in KVs
<1>1. Prompt[r] \in Seq(Nat) /\ Prompt[r] # <<>> /\ out'[r] \in Seq(Nat) /\ kv'[r] \in KVs
  BY PromptFacts DEF FlowTypes
<1>2. Len(Prompt[r]) \in Nat /\ Len(Prompt[r]) # 0 /\ Len(out'[r]) \in Nat
  BY <1>1, EmptySeq
<1>3. /\ Prompt[r] \o out'[r] \in Seq(Nat)
      /\ Len(Prompt[r] \o out'[r]) = Len(Prompt[r]) + Len(out'[r])
  BY <1>1, ConcatFacts
<1>4. Prompt[r] \o out'[r] # <<>>
  BY <1>2, <1>3
<1> QED  BY <1>1, <1>3, <1>4 DEF Full, Row

LEMMA TrieNext ==
  ASSUME TrieInv, FlowTypes', [Next]_vars
  PROVE  TrieStepOk
<1>1. ASSUME NEW r \in Reqs, Add(r)  PROVE TrieStepOk
  <2>1. \/ UNCHANGED trieVars
        \/ \E s \in TrieServes(Prompt[r]) : TrieTouch(s.used)
    BY <1>1 DEF Add
  <2> QED  BY <2>1, TrieSame, TouchKeeps
<1>2. ASSUME NEW r \in Reqs, NEW x, Finish(r, x)  PROVE TrieStepOk
  <2>1. UNCHANGED trieVars \/ TrieStore(Full(r)', kv'[r])
    BY <1>2 DEF Finish
  <2>2. Full(r)' \in Row /\ kv'[r] \in KVs
    BY FinishStores
  <2> QED  BY <2>1, <2>2, TrieSame, TrieStoreKeeps
<1>3. CASE Recover
  <2>1. nodes' = {} /\ kvOf' = <<>> /\ lru' = <<>> /\ pinned' = {} /\ total' = 0
    BY <1>3 DEF Recover, TrieClear
  <2>2. Entries' = {}
    BY <2>1 DEF Entries
  <2>3. TrieInv'
    BY <2>1, <2>2, TrieEmpty DEF TrieInv, EntriesTyped
  <2> QED  BY <2>1, <2>3 DEF TrieStepOk
<1>4. ASSUME NEW t, Pin(t) \/ Unpin(t)  PROVE TrieStepOk
  <2>1. UNCHANGED trieVars \/ TriePin(t) \/ TrieUnpin(t)
    BY <1>4 DEF Pin, Unpin
  <2> QED  BY <2>1, TrieSame, TriePinKeeps
<1>5. ASSUME \/ \E r \in Reqs : \/ Insert(r) \/ Abort(r) \/ Release(r) \/ CopyOnWrite(r)
                                \/ \E n \in Reqs : Fork(r, n)
                                \/ \E x \in Vocab : Decode(r, x)
             \/ PagedStore \/ PagedCopy \/ UNCHANGED vars
      PROVE  TrieStepOk
  <2>1. UNCHANGED trieVars
    BY <1>5 DEF Insert, Abort, Release, CopyOnWrite, Fork, Decode, PagedStore, PagedCopy, vars
  <2> QED  BY <2>1, TrieSame
<1> QED  BY <1>1, <1>2, <1>3, <1>4, <1>5 DEF Next

LEMMA TypedInit == Init => Typed
<1> SUFFICES ASSUME Init  PROVE Typed
  OBVIOUS
<1>1. /\ tier \in Tiers /\ kv = [r \in Reqs |-> NoKV] /\ rest = [r \in Reqs |-> <<>>]
      /\ out = [r \in Reqs |-> <<>>] /\ kept = [r \in Reqs |-> 0] /\ busy = Idle /\ PagedInit
  BY DEF Init
<1>2. NoKV \in KVs /\ <<>> \in KVs /\ <<>> \in Seq(Nat) /\ Len(<<>>) = 0 /\ 0 \in 0..BlockSize
  BY PagedAssumption DEF NoKV, KVs
<1>3. FlowTypes
  BY <1>1, <1>2 DEF FlowTypes, Idle
<1>4. BlockTypes
  <2>1. /\ data = [b \in Blocks |-> <<>>] /\ filled = [b \in Blocks |-> 0]
        /\ hashTo = <<>> /\ pindex = <<>> /\ tables = <<>>
    BY <1>1 DEF PagedInit
  <2> QED  BY <1>2, <2>1 DEF BlockTypes
<1> QED  BY <1>3, <1>4 DEF Typed

\* The trie, its list, its pinned set and its counter agree, and whatever the
\* requests and the blocks hold is made of rows.
THEOREM TrieInvariant == Spec => [](TrieInv /\ Typed)
<1>1. Init => TrieInv
  <2> SUFFICES ASSUME Init  PROVE TrieInv
    OBVIOUS
  <2>1. nodes = {} /\ kvOf = <<>> /\ lru = <<>> /\ pinned = {} /\ total = 0
    BY DEF Init, TrieInit
  <2>2. Entries = {}
    BY <2>1 DEF Entries
  <2> QED  BY <2>1, <2>2, TrieEmpty DEF TrieInv, EntriesTyped
<1>2. PagedInv /\ FlowInv /\ TrieInv /\ Typed /\ [Next]_vars => TrieInv' /\ Typed'
  <2> SUFFICES ASSUME PagedInv, FlowInv, TrieInv, Typed, [Next]_vars
               PROVE  TrieInv' /\ Typed'
    OBVIOUS
  <2>1. Typed'
    BY TypedNext DEF TrieInv
  <2> QED  BY <2>1, TrieNext DEF TrieStepOk, Typed
<1> QED  BY <1>1, <1>2, TypedInit, PagedInvariant, PTL DEF Spec

\* The LRU list and the pinned set share out the entries of the trie, and there
\* are never more of them than max_size.
THEOREM EntriesAreShared == Spec => []EntriesShared
<1>1. TrieInv => EntriesShared
  BY InjectiveCard DEF TrieInv, EntriesShared
<1> QED  BY <1>1, TrieInvariant, PTL

\* The dicts of the trie are those on the way to an entry, and the counter of
\* bytes is that of the entries, after any evictions, and never above max_bytes.
THEOREM TrieIsAccounted == Spec => []TrieAccounts
<1>1. TrieInv => TrieAccounts
  <2>1. TrieInv => EntriesShared
    BY InjectiveCard DEF TrieInv, EntriesShared
  <2> QED  BY <2>1 DEF TrieInv, TrieAccounts
<1> QED  BY <1>1, TrieInvariant, PTL

\* Every variable of the serving path and of both tiers has its type.
THEOREM TypesHold == Spec => []TypeOK
<1>1. PagedInv /\ FlowInv /\ TrieInv /\ Typed => TypeOK
  <2> SUFFICES ASSUME PagedInv, FlowInv, TrieInv, Typed  PROVE TypeOK
    OBVIOUS
  <2>0. \A s \in KVs : IsKV(s)
    BY DEF KVs, Row, IsKV
  <2>1. /\ tier \in Tiers /\ phase \in [Reqs -> Phases]
        /\ busy.op \in {"idle", "store", "copy"} /\ busy.req \in Reqs \cup {NoReq}
    BY DEF FlowInv, Typed, FlowTypes
  <2>2. \A r \in Reqs : IsKV(kv[r]) /\ kept[r] <= Len(out[r])
    BY <2>0 DEF Typed, FlowTypes
  <2>3. nodes \subseteq Seq(Nat) \ {<<>>}
    <3>1. \A k \in Entries : k \in Seq(Nat) /\ nodes = UNION {PathOf(e) : e \in Entries}
      BY DEF TrieInv, EntriesTyped, Row
    <3>2. \A k \in Entries : \A p \in PathOf(k) : p \in Row
      BY <3>1, PathFacts
    <3>3. nodes = UNION {PathOf(e) : e \in Entries}
      BY DEF TrieInv
    <3> QED  BY <3>2, <3>3 DEF Row
  <2>4. pinned \subseteq Entries /\ total \in Nat
    BY FS_CardinalityType DEF TrieInv
  <2>5. \A k \in Entries : IsKV(kvOf[k])
    BY <2>0 DEF TrieInv, EntriesTyped
  <2>6. ref \in [Blocks -> Nat]
    BY DEF PagedInv, CountedIn
  <2>7. filled \in [Blocks -> 0..BlockSize] /\ \A b \in Blocks : IsKV(data[b])
    BY <2>0 DEF Typed, BlockTypes
  <2>8. /\ fixed \subseteq Blocks /\ alloc \subseteq Blocks /\ ToSet(queue) \subseteq Blocks
        /\ \A c \in DOMAIN hashTo : Len(c) = BlockSize /\ hashTo[c] \in Blocks
    BY DEF PagedInv, PagedTypes, Typed, BlockTypes
  <2>9. entries \subseteq DOMAIN tables /\ DOMAIN tables \subseteq Reqs
    BY DEF FlowInv
  <2> QED  BY <2>1, <2>2, <2>3, <2>4, <2>5, <2>6, <2>7, <2>8, <2>9 DEF TypeOK
<1> QED  BY <1>1, PagedInvariant, TrieInvariant, PTL

\* What is pinned keeps its content until it is unpinned or the tier cleared.
THEOREM PinsHold == Spec => PinnedStays
<1>1. PagedInv /\ FlowInv /\ TrieInv /\ Typed' /\ [Next]_vars =>
        [/\ \A b \in fixed \cap fixed' : data'[b] = data[b]
         /\ \A k \in pinned \cap pinned' : k \in Entries' /\ kvOf'[k] = kvOf[k]]_vars
  <2> SUFFICES ASSUME PagedInv, FlowInv, TrieInv, Typed', [Next]_vars
               PROVE  /\ \A b \in fixed \cap fixed' : data'[b] = data[b]
                      /\ \A k \in pinned \cap pinned' : k \in Entries' /\ kvOf'[k] = kvOf[k]
    OBVIOUS
  <2>1. ASSUME NEW b \in fixed \cap fixed'  PROVE data'[b] = data[b]
    <3>1. b \in Blocks
      BY DEF PagedInv, PagedTypes
    <3>2. \/ \A c \in Blocks : data'[c] # data[c] => c \notin alloc /\ c \notin fixed
          \/ fixed' = {}
      BY PagedNext DEF PagedStepOk
    <3> QED  BY <3>1, <3>2
  <2>2. FlowTypes'
    BY DEF Typed
  <2> QED  BY <2>1, <2>2, TrieNext DEF TrieStepOk
<1> QED  BY <1>1, PagedInvariant, TrieInvariant, PTL DEF Spec, PinnedStays

-----------------------------------------------------------------------------
(* Rows that the lookup serves.                                             *)

\* Every entry has a key of tokens, and the rows of it.
Keyed == \A k \in Entries : k \in Seq(Nat) /\ kvOf[k] = Rows(k)

LEMMA ServesCover ==
  ASSUME Keyed, NEW t \in Seq(Nat), NEW s \in TrieServes(t)
  PROVE  Covers(s.kv, s.rest, t)
<1>1. ASSUME NEW k \in Found(t)  PROVE Covers(Hit(k, t).kv, Hit(k, t).rest, t)
  <2>1. k \in Entries /\ k \in Seq(Nat) /\ kvOf[k] = Rows(k)
    BY FoundFacts DEF Keyed
  <2>2. IsPrefix(k, t) \/ IsPrefix(t, k)
    <3>1. Reached(t) \in Prefixes(t) /\ IsPrefix(t, t)
      BY ReachedFacts, PrefixFacts
    <3>2. \/ k = Reached(t) \/ k = t \/ k \in NextBelow(t)
      BY DEF Found
    <3>3. CASE k = Reached(t)
      BY <2>1, <3>1, <3>3, PrefixFacts
    <3>4. CASE k = t
      BY <3>1, <3>4
    <3>5. CASE k \in NextBelow(t)
      BY <3>5 DEF NextBelow, Extensions, IsStrictPrefix
    <3> QED  BY <3>2, <3>3, <3>4, <3>5
  <2>3. CASE IsPrefix(k, t)
    <3>1. Hit(k, t).kv = Rows(k) /\ Hit(k, t).rest = SubSeq(t, Len(k) + 1, Len(t))
      BY <2>1, <2>3 DEF Hit
    <3>2. Len(k) \in 0..Len(t) /\ k = SubSeq(t, 1, Len(k))
      BY <2>1, <2>3, PrefixFacts
    <3> QED  BY <3>1, <3>2 DEF Covers
  <2>4. CASE ~IsPrefix(k, t) /\ IsPrefix(t, k)
    <3>1. Hit(k, t).kv = Trim(Rows(k), Len(k) - Len(t)) /\ Hit(k, t).rest = <<>>
      BY <2>1, <2>4 DEF Hit
    <3>2. Len(t) \in 0..Len(k) /\ t = SubSeq(k, 1, Len(t))
      BY <2>1, <2>4, PrefixFacts
    <3>3. Hit(k, t).kv = Rows(t)
      BY <2>1, <3>1, <3>2, TrimRows
    <3>4. Len(t) \in 0..Len(t) /\ SubSeq(t, 1, Len(t)) = t /\ SubSeq(t, Len(t) + 1, Len(t)) = <<>>
      OBVIOUS
    <3> QED  BY <3>1, <3>3, <3>4 DEF Covers
  <2> QED  BY <2>2, <2>3, <2>4
<1>2. \/ \E k \in Found(t) : s = Hit(k, t)
      \/ s = [kv |-> NoKV, rest |-> t, used |-> {}]
  BY DEF TrieServes
<1>3. CASE s = [kv |-> NoKV, rest |-> t, used |-> {}]
  BY <1>3, CoversNone
<1> QED  BY <1>1, <1>2, <1>3

-----------------------------------------------------------------------------
(* Every request has the rows of its own tokens, where layers can be       *)
(* trimmed and no fault hits a request that has output.                     *)

RowsOf(r) ==
  /\ out[r] \in Seq(Nat) /\ kept[r] = 0
  /\ phase[r] \in {"new", "waiting"} => out[r] = <<>>
  /\ tier = "trie" /\ phase[r] = "waiting" => Covers(kv[r], rest[r], Prompt[r])
  /\ tier = "trie" /\ phase[r] = "running" => kv[r] = Rows(Prompt[r] \o out[r])

RowsInv ==
  /\ phase \in [Reqs -> Phases] /\ kv = [r \in Reqs |-> kv[r]]
  /\ rest = [r \in Reqs |-> rest[r]] /\ out = [r \in Reqs |-> out[r]]
  /\ \A r \in Reqs : RowsOf(r)
  /\ Keyed

\* What _schedule_waiting starts from.
LEMMA StartRows ==
  ASSUME Trimmable, NEW r \in Reqs, Covers(kv[r], rest[r], Prompt[r])
  PROVE  Start(r) = Rows(Prompt[r])
<1> DEFINE t == Prompt[r]
           L == Len(t)
<1>1. t \in Seq(Nat) /\ t # <<>> /\ L \in Nat /\ L # 0
  <2>1. t \in Seq(Nat) /\ t # <<>>
    BY PromptFacts
  <2> HIDE DEF t
  <2> QED  BY <2>1
<1>2. PICK n \in 0..L : kv[r] = Rows(SubSeq(t, 1, n)) /\ rest[r] = SubSeq(t, n + 1, L)
  BY DEF Covers
<1> DEFINE a == SubSeq(t, 1, n)
           b == SubSeq(t, n + 1, L)
<1> HIDE DEF t
<1>3. n \in Nat /\ n <= L /\ a \in Seq(Nat) /\ Len(a) = n /\ \A i \in 1..n : a[i] = t[i]
  <2>1. n \in Nat /\ n <= L
    BY <1>1, <1>2
  <2> QED  BY <1>1, <2>1, SubSeqFacts
<1>4. CASE rest[r] = <<>>
  <2>1. n = L
    <3>1. CASE n + 1 <= L
      <4>1. Len(SubSeq(t, n + 1, L)) = L - (n + 1) + 1
        BY <1>1, <1>3, <3>1
      <4>2. Len(SubSeq(t, n + 1, L)) # 0
        <5>1. \A x, y \in Int : x + 1 <= y => y - (x + 1) + 1 # 0
          BY SMT
        <5>2. n \in Int /\ L \in Int
          BY <1>1, <1>3
        <5>3. L - (n + 1) + 1 # 0
          BY <3>1, <5>1, <5>2, Zenon
        <5> QED  BY <4>1, <5>3, Zenon
      <4> QED  BY <1>2, <1>4, <4>2
    <3>2. CASE ~(n + 1 <= L)
      <4>1. \A x, y \in Int : x <= y /\ ~(x + 1 <= y) => x = y
        BY SMT
      <4>2. n \in Int /\ L \in Int
        BY <1>1, <1>3
      <4> QED  BY <1>3, <3>2, <4>1, <4>2, Zenon
    <3> QED  BY <3>1, <3>2
  <2>2. kv[r] = Rows(t)
    <3>1. SubSeq(t, 1, L) = t
      BY <1>1
    <3> QED  BY <1>2, <2>1, <3>1
  <2> DEFINE m == L - 1
             s == SubSeq(t, 1, m)
  <2>3. m \in 0..L /\ m \in Nat /\ L - m = 1 /\ m <= L
    BY <1>1
  <2>4. Trim(kv[r], 1) = Rows(s)
    BY <1>1, <2>2, <2>3, TrimRows
  <2>5. s \in Seq(Nat) /\ <<Last(t)>> \in Seq(Nat) /\ Last(t) = t[L]
    <3>1. s \in Seq(Nat)
      BY <1>1, <2>3, SubSeqFacts
    <3>2. t[L] \in Nat
      BY <1>1
    <3> QED  BY <3>1, <3>2 DEF Last
  <2>6. s \o <<Last(t)>> = t
    <3>1. 1 \in 1..L /\ L \in 1..L
      BY <1>1
    <3>2. SubSeq(t, 1, L) = SubSeq(t, 1, L - 1) \o <<t[L]>>
      BY <1>1, <3>1, SubSeqRecursiveSecond
    <3>3. SubSeq(t, 1, L) = t
      BY <1>1
    <3> QED  BY <2>5, <3>2, <3>3
  <2>7. FeedAll(Rows(s), <<Last(t)>>) = Rows(s \o <<Last(t)>>)
    BY <2>5, FeedRows
  <2>8. Start(r) = FeedAll(Trim(kv[r], 1), <<Last(t)>>)
    BY <1>4 DEF Start, t
  <2> QED  BY <2>4, <2>6, <2>7, <2>8 DEF t
<1>5. CASE rest[r] # <<>>
  <2>1. \A i \in n + 1..L : t[i] \in Nat
    BY <1>1, <1>3
  <2>2. b \in Seq(Nat)
    BY <1>1, <1>3, <2>1, SubSeqProperties
  <2>3. a \o b = t
    <3>1. CASE n = 0
      <4>1. a = <<>> /\ b = t
        BY <1>1, <3>1
      <4>2. <<>> \o t = t
        BY <1>1, ConcatEmptySeq
      <4> QED  BY <4>1, <4>2
    <3>2. CASE n # 0
      <4>1. 1 \in 1..Len(t) + 1 /\ n \in 1 - 1..Len(t) /\ Len(t) \in n..Len(t)
        BY <1>1, <1>3
      <4>2. SubSeq(t, 1, L) = a \o b
        BY <1>1, <4>1, ConcatAdjacentSubSeq
      <4>3. SubSeq(t, 1, L) = t
        BY <1>1
      <4> QED  BY <4>2, <4>3
    <3> QED  BY <3>1, <3>2
  <2>4. FeedAll(Rows(a), b) = Rows(a \o b)
    BY <1>3, <2>2, FeedRows
  <2>5. Start(r) = FeedAll(kv[r], rest[r])
    BY <1>5 DEF Start
  <2> QED  BY <1>2, <2>3, <2>4, <2>5 DEF t
<1> QED  BY <1>4, <1>5

\* Concatenation is associative.
LEMMA ConcatThree ==
  ASSUME NEW p \in Seq(Nat), NEW q \in Seq(Nat), NEW w \in Seq(Nat)
  PROVE  (p \o q) \o w = p \o (q \o w)
OBVIOUS

\* A sampled token.
LEMMA SampledRows ==
  ASSUME RowsInv, NEW r \in Reqs, NEW x \in Vocab, Sampled(r, x)
  PROVE  /\ out'[r] \in Seq(Nat) /\ \A y \in Reqs \ {r} : out'[y] = out[y] /\ kv'[y] = kv[y]
         /\ out' = [y \in Reqs |-> out'[y]] /\ kv' = [y \in Reqs |-> kv'[y]]
         /\ kv[r] = Rows(Prompt[r] \o out[r]) => kv'[r] = Rows(Prompt[r] \o out'[r])
<1>1. /\ out' = [out EXCEPT ![r] = Append(out[r], x)]
      /\ kv' = [kv EXCEPT ![r] = Feed(kv[r], x)]
  BY DEF Sampled
<1>2. x \in Nat /\ out[r] \in Seq(Nat) /\ Prompt[r] \in Seq(Nat)
  BY PromptAssumption, PromptFacts DEF RowsInv, RowsOf
<1>3. out'[r] = Append(out[r], x) /\ kv'[r] = Feed(kv[r], x)
  BY <1>1 DEF RowsInv
<1>4. ASSUME kv[r] = Rows(Prompt[r] \o out[r])  PROVE kv'[r] = Rows(Prompt[r] \o out'[r])
  <2> DEFINE a == Prompt[r] \o out[r]
  <2>1. a \in Seq(Nat) /\ <<x>> \in Seq(Nat)
    BY <1>2
  <2>2. FeedAll(Rows(a), <<x>>) = Rows(a \o <<x>>)
    BY <2>1, FeedRows
  <2>3. a \o <<x>> = Prompt[r] \o Append(out[r], x)
    <3>1. out[r] \o <<x>> = Append(out[r], x)
      BY <1>2
    <3>2. (Prompt[r] \o out[r]) \o <<x>> = Prompt[r] \o (out[r] \o <<x>>)
      BY <1>2, <2>1, ConcatThree, Zenon
    <3> QED  BY <3>1, <3>2
  <2> HIDE DEF a
  <2>4. kv[r] = Rows(a)
    BY <1>4 DEF a
  <2> QED  BY <1>3, <2>2, <2>3, <2>4 DEF Feed
<1>5. /\ out' = [y \in Reqs |-> out'[y]] /\ kv' = [y \in Reqs |-> kv'[y]]
      /\ \A y \in Reqs \ {r} : out'[y] = out[y] /\ kv'[y] = kv[y]
  BY <1>1 DEF RowsInv
<1>6. out'[r] \in Seq(Nat)
  BY <1>2, <1>3
<1> QED  BY <1>4, <1>5, <1>6

\* Nothing happens to a request.
Unmoved(y) ==
  /\ tier' = tier /\ phase'[y] = phase[y] /\ kv'[y] = kv[y] /\ rest'[y] = rest[y]
  /\ out'[y] = out[y] /\ kept'[y] = kept[y]

\* Only r is touched, and the entries are as they were.
LEMMA OnlyOne ==
  ASSUME RowsInv, NEW r \in Reqs, \A y \in Reqs \ {r} : Unmoved(y), RowsOf(r)',
         phase' \in [Reqs -> Phases], kv' = [y \in Reqs |-> kv'[y]],
         rest' = [y \in Reqs |-> rest'[y]], out' = [y \in Reqs |-> out'[y]], Keyed'
  PROVE  RowsInv'
<1>1. ASSUME NEW y \in Reqs \ {r}  PROVE RowsOf(y)'
  BY DEF RowsInv, RowsOf, Unmoved
<1> QED  BY <1>1 DEF RowsInv

LEMMA SameEntries ==
  ASSUME Keyed, kvOf' = kvOf
  PROVE  Keyed'
BY DEF Keyed, Entries

LEMMA AddRows ==
  ASSUME TrieInv, RowsInv, NEW r \in Reqs, Add(r)
  PROVE  RowsInv'
<1>1. /\ phase[r] = "new" /\ phase' = [phase EXCEPT ![r] = "waiting"]
      /\ UNCHANGED <<tier, out, kept>>
  BY DEF Add, Goes
<1>2. RowsOf(r) /\ Keyed /\ out[r] = <<>>
  BY <1>1 DEF RowsInv, RowsOf
<1>3. \E k, q : /\ kv' = [kv EXCEPT ![r] = k] /\ rest' = [rest EXCEPT ![r] = q]
                /\ tier = "trie" => Covers(k, q, Prompt[r])
  <2>1. CASE tier = "trie"
    <3>1. PICK s \in TrieServes(Prompt[r]) :
            kv' = [kv EXCEPT ![r] = s.kv] /\ rest' = [rest EXCEPT ![r] = s.rest]
      BY <2>1 DEF Add
    <3>2. Covers(s.kv, s.rest, Prompt[r])
      BY <1>2, PromptFacts, ServesCover
    <3> QED  BY <3>1, <3>2
  <2>2. CASE tier # "trie"
    BY <2>2 DEF Add
  <2> QED  BY <2>1, <2>2
<1>4. kvOf' = kvOf
  <2>1. \/ UNCHANGED trieVars
        \/ \E s \in TrieServes(Prompt[r]) : TrieTouch(s.used)
    BY DEF Add
  <2> QED  BY <2>1, TrieSame, TouchKeeps
<1>5. PICK k, q : /\ kv' = [kv EXCEPT ![r] = k] /\ rest' = [rest EXCEPT ![r] = q]
                  /\ tier = "trie" => Covers(k, q, Prompt[r])
  BY <1>3
<1>6. /\ phase'[r] = "waiting" /\ kv'[r] = k /\ rest'[r] = q /\ phase' \in [Reqs -> Phases]
      /\ kv' = [y \in Reqs |-> kv'[y]] /\ rest' = [y \in Reqs |-> rest'[y]]
      /\ out' = [y \in Reqs |-> out'[y]]
      /\ \A y \in Reqs \ {r} : Unmoved(y)
  BY <1>1, <1>5 DEF RowsInv, Phases, Unmoved
<1>7. RowsOf(r)'
  BY <1>1, <1>2, <1>5, <1>6 DEF RowsOf
<1>8. Keyed'
  BY <1>2, <1>4, SameEntries
<1> QED  BY <1>6, <1>7, <1>8, OnlyOne

LEMMA InsertRows ==
  ASSUME Trimmable, RowsInv, NEW r \in Reqs, Insert(r)
  PROVE  RowsInv'
<1>1. /\ phase[r] = "waiting" /\ phase' = [phase EXCEPT ![r] = "running"]
      /\ UNCHANGED <<tier, trieVars, out, kept>>
  BY DEF Insert, Goes
<1>2. RowsOf(r) /\ Keyed /\ out[r] = <<>> /\ out[r] \in Seq(Nat) /\ kept[r] = 0
  BY <1>1 DEF RowsInv, RowsOf
<1>3. \E k, q : /\ kv' = [kv EXCEPT ![r] = k] /\ rest' = [rest EXCEPT ![r] = q]
                /\ tier = "trie" => k = Rows(Prompt[r])
  <2>1. CASE kv' = [kv EXCEPT ![r] = Start(r)] /\ UNCHANGED rest
    <3>1. rest' = [rest EXCEPT ![r] = rest[r]]
      BY <2>1 DEF RowsInv
    <3>2. tier = "trie" => Start(r) = Rows(Prompt[r])
      BY <1>1, <1>2, StartRows DEF RowsOf
    <3> QED  BY <2>1, <3>1, <3>2
  <2>2. CASE kv' = [kv EXCEPT ![r] = Rows(Prompt[r])] /\ rest' = [rest EXCEPT ![r] = Prompt[r]]
    BY <2>2
  <2> QED  BY <2>1, <2>2 DEF Insert
<1>4. PICK k, q : /\ kv' = [kv EXCEPT ![r] = k] /\ rest' = [rest EXCEPT ![r] = q]
                  /\ tier = "trie" => k = Rows(Prompt[r])
  BY <1>3
<1>5. /\ phase'[r] = "running" /\ kv'[r] = k /\ rest'[r] = q /\ phase' \in [Reqs -> Phases]
      /\ kv' = [y \in Reqs |-> kv'[y]] /\ rest' = [y \in Reqs |-> rest'[y]]
      /\ out' = [y \in Reqs |-> out'[y]]
      /\ \A y \in Reqs \ {r} : Unmoved(y)
  BY <1>1, <1>4 DEF RowsInv, Phases, Unmoved
<1>6. Prompt[r] \o out'[r] = Prompt[r]
  <2>1. out'[r] = <<>>
    BY <1>1, <1>2
  <2>2. Prompt[r] \o <<>> = Prompt[r]
    BY PromptFacts, ConcatEmptySeq
  <2> QED  BY <2>1, <2>2
<1>7. RowsOf(r)'
  <2>1. tier' = tier /\ out'[r] = out[r] /\ kept'[r] = kept[r]
    BY <1>1
  <2> QED  BY <1>2, <1>4, <1>5, <1>6, <2>1 DEF RowsOf
<1>8. Keyed'
  BY <1>1, <1>2, SameEntries DEF trieVars
<1> QED  BY <1>5, <1>7, <1>8, OnlyOne

LEMMA DecodeRows ==
  ASSUME RowsInv, NEW r \in Reqs, NEW x \in Vocab, Decode(r, x)
  PROVE  RowsInv'
<1>1. /\ phase[r] = "running" /\ Sampled(r, x)
      /\ UNCHANGED <<tier, trieVars, phase, rest, kept>>
  BY DEF Decode
<1>2. /\ out'[r] \in Seq(Nat) /\ \A y \in Reqs \ {r} : out'[y] = out[y] /\ kv'[y] = kv[y]
      /\ out' = [y \in Reqs |-> out'[y]] /\ kv' = [y \in Reqs |-> kv'[y]]
      /\ kv[r] = Rows(Prompt[r] \o out[r]) => kv'[r] = Rows(Prompt[r] \o out'[r])
  BY <1>1, SampledRows
<1>3. RowsOf(r)'
  <2>1. RowsOf(r)
    BY DEF RowsInv
  <2> QED  BY <1>1, <1>2, <2>1 DEF RowsOf
<1>4. \A y \in Reqs \ {r} : Unmoved(y)
  BY <1>1, <1>2 DEF Unmoved
<1>5. Keyed'
  BY <1>1, SameEntries DEF RowsInv, trieVars
<1>6. phase' \in [Reqs -> Phases] /\ rest' = [y \in Reqs |-> rest'[y]]
  BY <1>1 DEF RowsInv
<1> QED  BY <1>2, <1>3, <1>4, <1>5, <1>6, OnlyOne

LEMMA FinishRows ==
  ASSUME TrieInv, FlowTypes', RowsInv, NEW r \in Reqs, NEW x \in Vocab, Finish(r, x)
  PROVE  RowsInv'
<1>1. /\ phase[r] = "running" /\ phase' = [phase EXCEPT ![r] = "done"] /\ Sampled(r, x)
      /\ UNCHANGED <<tier, rest, kept>>
  BY DEF Finish, Goes
<1>2. /\ out'[r] \in Seq(Nat) /\ \A y \in Reqs \ {r} : out'[y] = out[y] /\ kv'[y] = kv[y]
      /\ out' = [y \in Reqs |-> out'[y]] /\ kv' = [y \in Reqs |-> kv'[y]]
      /\ kv[r] = Rows(Prompt[r] \o out[r]) => kv'[r] = Rows(Prompt[r] \o out'[r])
  BY <1>1, SampledRows
<1>3. RowsOf(r) /\ Keyed
  BY DEF RowsInv
<1>4. phase' \in [Reqs -> Phases] /\ phase'[r] = "done" /\ \A y \in Reqs \ {r} : phase'[y] = phase[y]
  BY <1>1 DEF RowsInv, Phases
<1>5. RowsOf(r)'
  BY <1>1, <1>2, <1>3, <1>4 DEF RowsOf
<1>6. \A y \in Reqs \ {r} : Unmoved(y)
  BY <1>1, <1>2, <1>4 DEF Unmoved
<1>7. Keyed'
  <2>1. CASE UNCHANGED trieVars
    BY <1>3, <2>1, SameEntries DEF trieVars
  <2>2. CASE tier = "trie" /\ TrieStore(Full(r)', kv'[r])
    <3> DEFINE t == Prompt[r] \o out'[r]
    <3>1. kv'[r] = Rows(t)
      BY <1>1, <1>2, <1>3, <2>2 DEF RowsOf
    <3>2. t \in Row /\ t \in Seq(Nat) /\ Rows(t) \in KVs
      BY <3>1, FinishStores DEF Full, Row
    <3>3. TrieStore(t, Rows(t))
      BY <2>2, <3>1 DEF Full
    <3> HIDE DEF t
    <3>4. \A k \in Entries' : IF k \in Entries THEN kvOf'[k] = kvOf[k] ELSE k = t /\ kvOf'[k] = Rows(t)
      BY <3>2, <3>3, TrieStoreKeeps
    <3>5. \A k \in Entries' : k \in Seq(Nat) /\ kvOf'[k] = Rows(k)
      BY <1>3, <3>2, <3>4 DEF Keyed
    <3> QED  BY <3>5 DEF Keyed
  <2> QED  BY <2>1, <2>2 DEF Finish
<1>8. rest' = [y \in Reqs |-> rest'[y]]
  BY <1>1 DEF RowsInv
<1> QED  BY <1>2, <1>4, <1>5, <1>6, <1>7, <1>8, OnlyOne

LEMMA RecoverRows ==
  ASSUME ~RetryAfterOutput, RowsInv, Recover
  PROVE  RowsInv'
<1> DEFINE hit == {r \in Reqs : phase[r] = "running"}
<1>1. /\ \A r \in hit : out[r] = <<>>
      /\ phase' = [r \in Reqs |-> IF r \in hit THEN "waiting" ELSE phase[r]]
      /\ kv'    = [r \in Reqs |-> IF r \in hit THEN NoKV ELSE kv[r]]
      /\ rest'  = [r \in Reqs |-> IF r \in hit THEN Prompt[r] ELSE rest[r]]
      /\ kept'  = [r \in Reqs |-> IF r \in hit THEN Len(out[r]) ELSE kept[r]]
      /\ UNCHANGED <<tier, out>> /\ TrieClear
  BY DEF Recover
<1>2. ASSUME NEW r \in Reqs  PROVE RowsOf(r)'
  <2>1. RowsOf(r)
    BY DEF RowsInv
  <2>2. CASE r \in hit
    <3>1. out[r] = <<>> /\ Len(<<>>) = 0
      BY <1>1, <2>2
    <3>2. phase'[r] = "waiting" /\ kv'[r] = NoKV /\ rest'[r] = Prompt[r] /\ kept'[r] = 0 /\ out'[r] = out[r]
      BY <1>1, <2>2, <3>1
    <3>3. Covers(kv'[r], rest'[r], Prompt[r])
      BY <3>2, PromptFacts, CoversNone
    <3> QED  BY <2>1, <3>1, <3>2, <3>3 DEF RowsOf
  <2>3. CASE r \notin hit
    <3>1. Unmoved(r)
      BY <1>1, <2>3 DEF Unmoved
    <3> QED  BY <2>1, <3>1 DEF RowsOf, Unmoved
  <2> QED  BY <2>2, <2>3
<1>3. Keyed'
  <2>1. DOMAIN kvOf' = {}
    BY <1>1 DEF TrieClear
  <2> QED  BY <2>1 DEF Keyed, Entries
<1>4. phase' \in [Reqs -> Phases]
  BY <1>1 DEF RowsInv, Phases
<1>5. /\ kv' = [y \in Reqs |-> kv'[y]] /\ rest' = [y \in Reqs |-> rest'[y]]
      /\ out' = [y \in Reqs |-> out'[y]]
  BY <1>1 DEF RowsInv
<1> QED  BY <1>2, <1>3, <1>4, <1>5 DEF RowsInv

\* A request goes where it neither waits nor runs, or none goes anywhere.
LEMMA StillRows ==
  ASSUME RowsInv, UNCHANGED <<tier, kv, rest, out, kept, kvOf>>,
         \/ phase' = phase
         \/ \E r \in Reqs, p \in {"gone", "forked"} : phase' = [phase EXCEPT ![r] = p]
  PROVE  RowsInv'
<1>1. /\ phase' \in [Reqs -> Phases]
      /\ \A y \in Reqs : phase'[y] = phase[y] \/ phase'[y] \in {"gone", "forked"}
  BY DEF RowsInv, Phases
<1>2. ASSUME NEW y \in Reqs  PROVE RowsOf(y)'
  <2>1. RowsOf(y)
    BY DEF RowsInv
  <2> QED  BY <1>1, <2>1 DEF RowsOf
<1>3. Keyed'
  BY SameEntries DEF RowsInv
<1> QED  BY <1>1, <1>2, <1>3 DEF RowsInv

LEMMA RowsNext ==
  ASSUME Trimmable, ~RetryAfterOutput, TrieInv, FlowTypes', RowsInv, [Next]_vars
  PROVE  RowsInv'
<1>1. ASSUME NEW r \in Reqs, Add(r)  PROVE RowsInv'
  BY <1>1, AddRows
<1>2. ASSUME NEW r \in Reqs, Insert(r)  PROVE RowsInv'
  BY <1>2, InsertRows
<1>3. ASSUME NEW r \in Reqs, NEW x \in Vocab, Decode(r, x)  PROVE RowsInv'
  BY <1>3, DecodeRows
<1>4. ASSUME NEW r \in Reqs, NEW x \in Vocab, Finish(r, x)  PROVE RowsInv'
  BY <1>4, FinishRows
<1>5. CASE Recover
  BY <1>5, RecoverRows
<1>6. ASSUME NEW r \in Reqs, Abort(r)  PROVE RowsInv'
  <2>1. UNCHANGED <<tier, kv, rest, out, kept, kvOf>> /\ phase' = [phase EXCEPT ![r] = "gone"]
    BY <1>6 DEF Abort, trieVars
  <2> QED  BY <2>1, StillRows
<1>7. ASSUME NEW r \in Reqs, NEW n \in Reqs, Fork(r, n)  PROVE RowsInv'
  <2>1. UNCHANGED <<tier, kv, rest, out, kept, kvOf>> /\ phase' = [phase EXCEPT ![n] = "forked"]
    BY <1>7 DEF Fork, Calls, trieVars
  <2> QED  BY <2>1, StillRows
<1>8. ASSUME NEW t, Pin(t) \/ Unpin(t)  PROVE RowsInv'
  <2>1. UNCHANGED <<tier, kv, rest, out, kept>> /\ phase' = phase
    BY <1>8 DEF Pin, Unpin, Calls
  <2>2. UNCHANGED trieVars \/ TriePin(t) \/ TrieUnpin(t)
    BY <1>8 DEF Pin, Unpin
  <2>3. kvOf' = kvOf
    BY <2>2, TrieSame, TriePinKeeps
  <2> QED  BY <2>1, <2>3, StillRows
<1>9. ASSUME \/ \E r \in Reqs : Release(r) \/ CopyOnWrite(r)
             \/ PagedStore \/ PagedCopy \/ UNCHANGED vars
      PROVE  RowsInv'
  <2>1. UNCHANGED <<tier, kv, rest, out, kept, kvOf>> /\ phase' = phase
    BY <1>9 DEF Release, CopyOnWrite, Calls, PagedStore, PagedCopy, vars, flowVars, trieVars
  <2> QED  BY <2>1, StillRows
<1> QED  BY <1>1, <1>2, <1>3, <1>4, <1>5, <1>6, <1>7, <1>8, <1>9 DEF Next

\* Every waiting request has rows that its rest completes, every running one the
\* rows of its tokens, every entry those of its key.
THEOREM RowsInvariant ==
  ASSUME Trimmable, ~RetryAfterOutput
  PROVE  Spec => []RowsInv
<1>1. Init => RowsInv
  <2> SUFFICES ASSUME Init  PROVE RowsInv
    OBVIOUS
  <2>1. /\ phase = [r \in Reqs |-> "new"] /\ kv = [r \in Reqs |-> NoKV]
        /\ rest = [r \in Reqs |-> <<>>] /\ out = [r \in Reqs |-> <<>>]
        /\ kept = [r \in Reqs |-> 0] /\ kvOf = <<>>
    BY DEF Init, TrieInit
  <2>2. ASSUME NEW r \in Reqs  PROVE RowsOf(r)
    BY <2>1 DEF RowsOf
  <2>3. Keyed
    BY <2>1 DEF Keyed, Entries
  <2> QED  BY <2>1, <2>2, <2>3 DEF RowsInv, Phases
<1>2. TrieInv /\ Typed' /\ RowsInv /\ [Next]_vars => RowsInv'
  BY RowsNext DEF Typed
<1> QED  BY <1>1, <1>2, TrieInvariant, PTL DEF Spec

\* Where every layer can be trimmed, and no fault hits a request with output,
\* an entry of the trie holds the rows of its key and no others ...
THEOREM EntriesKeyedByTokens ==
  ASSUME Trimmable, ~RetryAfterOutput
  PROVE  Spec => []KeyedByTokens
<1>1. RowsInv => KeyedByTokens
  BY DEF RowsInv, Keyed, KeyedByTokens
<1> QED  BY <1>1, RowsInvariant, PTL

\* ... and the generator decodes a request on the rows of its own tokens.
THEOREM RequestsDecodeOnTheirRows ==
  ASSUME Trimmable, ~RetryAfterOutput
  PROVE  Spec => []TrieOwnRows
<1>1. RowsInv => TrieOwnRows
  <2> SUFFICES ASSUME RowsInv, tier = "trie", NEW r \in Reqs, phase[r] = "running"
               PROVE  kv[r] = Rows(Prompt[r] \o SubSeq(out[r], kept[r] + 1, Len(out[r])))
    BY DEF TrieOwnRows, OwnRows
  <2>1. kv[r] = Rows(Prompt[r] \o out[r]) /\ kept[r] = 0 /\ out[r] \in Seq(Nat)
    BY DEF RowsInv, RowsOf
  <2>2. SubSeq(out[r], kept[r] + 1, Len(out[r])) = out[r]
    BY <2>1
  <2> QED  BY <2>1, <2>2
<1> QED  BY <1>1, RowsInvariant, PTL
=============================================================================
