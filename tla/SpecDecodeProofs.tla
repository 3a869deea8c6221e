-------------------------- MODULE SpecDecodeProofs --------------------------
(***************************************************************************)
(* SpecDecode for every stream, method, length of the drafts, limit and    *)
(* number of faults: types, the agreement of the token log with the        *)
(* caches, and that a request is given the stream plain decoding gives.    *)
(*                                                                         *)
(* The invariant says what each place a generator can be suspended at      *)
(* means: everything is a prefix of the stream, and the places differ in   *)
(* how many of its tokens were fed, given and staged.                      *)
(***************************************************************************)
EXTENDS SpecDecode, SequenceLemmas

\* The first n tokens of the stream.
Said(n) == [i \in 1..n |-> Token(i)]

\* How many tokens of the stream the request was given.
Known == IF handed = 0 THEN Len(tokens) ELSE Len(tokens) - 1

-----------------------------------------------------------------------------
(* The stream.                                                             *)

LEMMA TokenTyped ==
  ASSUME stream \in Streams, NEW i \in Nat \ {0}
  PROVE  Token(i) \in Vocab
<1>1. stream \in Seq(Vocab) /\ Eos \in Vocab
  BY SpecAssumption
<1> QED  BY <1>1 DEF Token

LEMMA SaidFacts ==
  ASSUME stream \in Streams, NEW n \in Nat
  PROVE  /\ Said(n) \in Seq(Vocab) /\ Len(Said(n)) = n /\ DOMAIN Said(n) = 1..n
         /\ \A i \in 1..n : Said(n)[i] = Token(i)
<1>1. \A i \in 1..n : Token(i) \in Vocab
  BY TokenTyped
<1> DEFINE T(i) == Token(i)
<1> HIDE DEF T
<1>2. /\ [i \in 1..n |-> T(i)] \in [1..n -> Vocab]
  BY <1>1 DEF T
<1>3. [i \in 1..n |-> T(i)] \in Seq(Vocab) /\ Len([i \in 1..n |-> T(i)]) = n
  BY <1>2
<1> QED  BY <1>2, <1>3 DEF T, Said

\* A sequence that begins with n tokens of the stream.
LEMMA SaidPart ==
  ASSUME stream \in Streams, NEW s \in Seq(Vocab), NEW n \in Nat, n <= Len(s),
         \A i \in 1..n : s[i] = Token(i)
  PROVE  SubSeq(s, 1, n) = Said(n)
<1>1. /\ SubSeq(s, 1, n) \in Seq(Vocab) /\ Len(SubSeq(s, 1, n)) = n
      /\ \A i \in 1..n : SubSeq(s, 1, n)[i] = s[i]
  BY SubSeqFacts
<1> QED  BY <1>1, SaidFacts, SameSeq

\* A sequence that goes on with the stream.
LEMMA SaidMore ==
  ASSUME stream \in Streams, NEW n \in Nat, NEW d \in Seq(Vocab),
         \A i \in 1..Len(d) : d[i] = Token(n + i)
  PROVE  Said(n) \o d = Said(n + Len(d))
<1>1. /\ Said(n) \in Seq(Vocab) /\ Len(Said(n)) = n /\ \A i \in 1..n : Said(n)[i] = Token(i)
      /\ Len(d) \in Nat
  BY SaidFacts
<1>2. /\ Said(n) \o d \in Seq(Vocab) /\ Len(Said(n) \o d) = n + Len(d)
      /\ \A i \in 1..n : (Said(n) \o d)[i] = Token(i)
      /\ \A i \in 1..Len(d) : (Said(n) \o d)[n + i] = d[i]
  <2> DEFINE s == Said(n)
  <2> HIDE DEF s
  <2>1. s \in Seq(Vocab) /\ Len(s) = n /\ \A i \in 1..n : s[i] = Token(i)
    BY <1>1 DEF s
  <2>2. /\ s \o d \in Seq(Vocab) /\ Len(s \o d) = Len(s) + Len(d)
        /\ \A i \in 1..Len(s) : (s \o d)[i] = s[i]
        /\ \A i \in 1..Len(d) : (s \o d)[Len(s) + i] = d[i]
    <3>1. s \in Seq(Vocab) /\ d \in Seq(Vocab)
      BY <2>1
    <3> QED  BY ONLY <3>1, ConcatFacts
  <2> QED  BY <2>1, <2>2 DEF s
<1>3. n + Len(d) \in Nat
  BY <1>1
<1>4. ASSUME NEW i \in 1..n + Len(d)  PROVE (Said(n) \o d)[i] = Said(n + Len(d))[i]
  <2>1. Said(n + Len(d))[i] = Token(i)
    BY <1>3, SaidFacts
  <2>2. CASE i <= n
    BY <2>1, <2>2, <1>2
  <2>3. CASE ~(i <= n)
    <3>1. i - n \in 1..Len(d) /\ n + (i - n) = i
      BY <1>1, <2>3
    <3>2. (Said(n) \o d)[n + (i - n)] = d[i - n] /\ d[i - n] = Token(n + (i - n))
      BY <3>1, <1>2
    <3> QED  BY <3>1, <3>2, <2>1
  <2> QED  BY <2>2, <2>3
<1>5. Said(n + Len(d)) \in Seq(Vocab) /\ Len(Said(n + Len(d))) = n + Len(d)
  BY <1>3, SaidFacts
<1> QED  BY <1>2, <1>4, <1>5, SameSeq

LEMMA SaidNext ==
  ASSUME stream \in Streams, NEW n \in Nat
  PROVE  /\ Said(n) \o <<Token(n + 1)>> = Said(n + 1)
         /\ Append(Said(n), Token(n + 1)) = Said(n + 1)
<1>1. Token(n + 1) \in Vocab
  BY TokenTyped
<1> DEFINE d == <<Token(n + 1)>>
<1>2. d \in Seq(Vocab) /\ Len(d) = 1 /\ d[1] = Token(n + 1)
  BY <1>1
<1>3. \A i \in 1..Len(d) : d[i] = Token(n + i)
  BY <1>2
<1> HIDE DEF d
<1>4. Said(n) \o d = Said(n + 1)
  BY <1>2, <1>3, SaidMore
<1>5. Said(n) \in Seq(Vocab)
  BY SaidFacts
<1>6. Append(Said(n), Token(n + 1)) = Said(n) \o <<Token(n + 1)>>
  BY <1>1, <1>5, AppendIsConcat
<1> QED  BY <1>4, <1>6 DEF d

\* After the stream the model predicts the stream.
LEMMA PredictSaid ==
  ASSUME stream \in Streams, NEW n \in Nat, NEW ssm, Hybrid => ssm = Said(n)
  PROVE  Predict(Said(n), ssm) = {Token(n + 1)}
BY SaidFacts DEF Predict

\* Whatever it was fed, it predicts some token.
LEMMA PredictTyped ==
  ASSUME stream \in Streams, NEW rows \in Seq(Vocab), NEW ssm
  PROVE  Predict(rows, ssm) \subseteq Vocab
<1>1. Token(Len(rows) + 1) \in Vocab
  BY TokenTyped
<1> QED  BY <1>1 DEF Predict

-----------------------------------------------------------------------------
(* Drafts.                                                                 *)

LEMMA DraftFacts ==
  ASSUME NEW d \in Drafts
  PROVE  d \in Seq(Vocab) /\ Len(d) \in 1..MaxK
<1>1. PICK k \in 1..MaxK : d \in [1..k -> Vocab]
  BY DEF Drafts
<1>2. k \in Nat
  BY SpecAssumption
<1> QED  BY <1>1, <1>2

\* The block of a forward: the staged token and the drafts.
LEMMA BlockFacts ==
  ASSUME NEW y \in Vocab, NEW d \in Seq(Vocab)
  PROVE  /\ <<y>> \o d \in Seq(Vocab) /\ Len(<<y>> \o d) = Len(d) + 1
         /\ (<<y>> \o d)[1] = y
         /\ \A i \in 1..Len(d) : (<<y>> \o d)[i + 1] = d[i]
<1>1. <<y>> \in Seq(Vocab) /\ Len(<<y>>) = 1 /\ <<y>>[1] = y
  OBVIOUS
<1> DEFINE s == <<y>>
<1> HIDE DEF s
<1>2. s \in Seq(Vocab) /\ d \in Seq(Vocab) /\ Len(s) = 1 /\ s[1] = y
  BY <1>1 DEF s
<1>3. /\ s \o d \in Seq(Vocab) /\ Len(s \o d) = Len(s) + Len(d)
      /\ \A i \in 1..Len(s) : (s \o d)[i] = s[i]
      /\ \A i \in 1..Len(d) : (s \o d)[Len(s) + i] = d[i]
  <2>1. s \in Seq(Vocab) /\ d \in Seq(Vocab)
    BY <1>2
  <2> QED  BY ONLY <2>1, ConcatFacts
<1>4. Len(d) \in Nat
  OBVIOUS
<1> QED  BY <1>2, <1>3, <1>4 DEF s

\* When the caches hold the stream up to y and the first m drafts go on with
\* it, what the model predicts after them is the stream's next token.
LEMMA AfterSaid ==
  ASSUME stream \in Streams, NEW k \in Nat, cache.rows = Said(k),
         Hybrid => cache.ssm = cache.rows, NEW y, y = Token(k + 1),
         NEW drafts \in Seq(Vocab), NEW m \in Nat, m <= Len(drafts),
         \A i \in 1..m : drafts[i] = Token(k + 1 + i)
  PROVE  /\ cache.rows \o <<y>> \o SubSeq(drafts, 1, m) = Said(k + 1 + m)
         /\ Predict(cache.rows \o <<y>> \o SubSeq(drafts, 1, m), cache.ssm \o <<y>> \o SubSeq(drafts, 1, m))
              = {Token(k + m + 2)}
<1> DEFINE d == SubSeq(drafts, 1, m)
<1>1. d \in Seq(Vocab) /\ Len(d) = m /\ \A i \in 1..m : d[i] = drafts[i]
  BY SubSeqFacts
<1>2. cache.rows \o <<y>> = Said(k + 1)
  BY SaidNext
<1> HIDE DEF d
<1>3. Said(k + 1) \o d = Said(k + 1 + m)
  <2>1. k + 1 \in Nat
    OBVIOUS
  <2>2. \A i \in 1..Len(d) : d[i] = Token((k + 1) + i)
    BY <1>1, Zenon
  <2>3. Said(k + 1) \o d = Said((k + 1) + Len(d))
    BY ONLY <1>1, <2>1, <2>2, stream \in Streams, SaidMore
  <2> QED  BY <1>1, <2>3
<1>4. Hybrid => cache.ssm \o <<y>> \o d = Said(k + 1 + m)
  BY <1>2, <1>3
<1>5. Predict(Said(k + 1 + m), cache.ssm \o <<y>> \o d) = {Token((k + 1 + m) + 1)}
  <2>1. k + 1 + m \in Nat
    OBVIOUS
  <2> QED  BY <1>4, <2>1, PredictSaid
<1>6. (k + 1 + m) + 1 = k + m + 2
  OBVIOUS
<1> QED  BY <1>2, <1>3, <1>5, <1>6 DEF d

\* What a verify forward accepts is the stream, and so is what the model says
\* after it.
LEMMA VerdictSaid ==
  ASSUME stream \in Streams, NEW k \in Nat, cache.rows = Said(k), Hybrid => cache.ssm = cache.rows,
         NEW y, y = Token(k + 1), NEW drafts \in Seq(Vocab), NEW n \in Nat, n <= Len(drafts),
         NEW t, Verdict(y, drafts, n, t)
  PROVE  /\ \A i \in 1..n : drafts[i] = Token(k + 1 + i)
         /\ t = Token(k + n + 2)
<1> DEFINE Wrong == {i \in 1..n : drafts[i] # Token(k + 1 + i)}
           after(i) == Predict(cache.rows \o <<y>> \o SubSeq(drafts, 1, i),
                               cache.ssm \o <<y>> \o SubSeq(drafts, 1, i))
<1>1. (\A i \in 1..n : drafts[i] \in after(i - 1)) /\ t \in after(n)
  BY DEF Verdict
<1>2. ASSUME NEW m \in Nat, m <= n, \A i \in 1..m : drafts[i] = Token(k + 1 + i)
      PROVE  after(m) = {Token(k + m + 2)}
  <2>1. m <= Len(drafts)
    BY <1>2
  <2>2. /\ stream \in Streams /\ k \in Nat /\ cache.rows = Said(k)
        /\ (Hybrid => cache.ssm = cache.rows) /\ y = Token(k + 1)
        /\ drafts \in Seq(Vocab) /\ m \in Nat
    BY <1>2
  <2>3. /\ cache.rows \o <<y>> \o SubSeq(drafts, 1, m) = Said(k + 1 + m)
        /\ Predict(cache.rows \o <<y>> \o SubSeq(drafts, 1, m),
                   cache.ssm \o <<y>> \o SubSeq(drafts, 1, m)) = {Token(k + m + 2)}
    BY ONLY <1>2, <2>1, <2>2, AfterSaid, SMTT(20)
  <2> QED  BY <2>3
<1> HIDE DEF after
<1>3. Wrong = {}
  <2> SUFFICES ASSUME Wrong # {}  PROVE FALSE
    OBVIOUS
  <2>a. Wrong \in SUBSET Nat
    OBVIOUS
  <2>1. PICK i \in Wrong : \A j \in Wrong : i <= j
    BY <2>a, NonemptyHasMin
  <2>2. i \in 1..n /\ i - 1 \in Nat /\ i - 1 <= n /\ k + (i - 1) + 2 = k + 1 + i
    BY <2>1
  <2>3. \A j \in 1..i - 1 : drafts[j] = Token(k + 1 + j)
    BY <2>1
  <2>4. drafts[i] \in {Token(k + (i - 1) + 2)}
    BY <1>1, <1>2, <2>2, <2>3
  <2> QED  BY <2>1, <2>2, <2>4
<1>4. \A i \in 1..n : drafts[i] = Token(k + 1 + i)
  BY <1>3
<1> QED  BY <1>1, <1>2, <1>4, SMTT(20)

\* What a verify round yields of the accepted drafts.
LEMMA UpToEosFacts ==
  ASSUME NEW d \in Seq(Vocab), d # <<>>
  PROVE  /\ UpToEos(d) \in Seq(Vocab) /\ Len(UpToEos(d)) \in 1..Len(d)
         /\ \A i \in 1..Len(UpToEos(d)) : UpToEos(d)[i] = d[i]
         /\ UpToEos(d) = d \/ Last(UpToEos(d)) = Eos
<1>1. Len(d) \in Nat /\ Len(d) # 0 /\ DOMAIN d = 1..Len(d)
  OBVIOUS
<1>2. CASE ~Contains(d, Eos)
  BY <1>1, <1>2 DEF UpToEos
<1>3. CASE Contains(d, Eos)
  <2> DEFINE Ends == {i \in 1..Len(d) : d[i] = Eos}
             First(i) == i \in DOMAIN d /\ d[i] = Eos /\ \A j \in 1..i - 1 : d[j] # Eos
             m == CHOOSE i \in DOMAIN d : d[i] = Eos /\ \A j \in 1..i - 1 : d[j] # Eos
  <2>1. Ends # {} /\ Ends \in SUBSET Nat
    BY <1>3, <1>1 DEF Contains
  <2>2. PICK i \in Ends : \A j \in Ends : i <= j
    BY <2>1, NonemptyHasMin
  <2>3. \E j \in DOMAIN d : d[j] = Eos /\ \A l \in 1..j - 1 : d[l] # Eos
    <3>1. i \in DOMAIN d /\ d[i] = Eos
      BY <2>2, <1>1
    <3>2. \A j \in 1..i - 1 : d[j] # Eos
      BY <2>2, <1>1
    <3> QED  BY <3>1, <3>2
  <2>4. m \in 1..Len(d) /\ d[m] = Eos
    BY <2>3, <1>1
  <2>5. UpToEos(d) = SubSeq(d, 1, m)
    BY <1>3 DEF UpToEos
  <2> HIDE DEF m
  <2>6. m \in Nat /\ m <= Len(d)
    BY <2>4, <1>1
  <2>7. /\ SubSeq(d, 1, m) \in Seq(Vocab) /\ Len(SubSeq(d, 1, m)) = m
        /\ \A j \in 1..m : SubSeq(d, 1, m)[j] = d[j]
    BY <2>6, SubSeqFacts
  <2>8. Last(SubSeq(d, 1, m)) = Eos
    BY <2>4, <2>7 DEF Last
  <2> QED  BY <2>4, <2>5, <2>7, <2>8
<1> QED  BY <1>2, <1>3

\* How many of the pending drafts a suffix step gives: all, or up to the first
\* that completes the response.
LEMMA GivenFacts ==
  ASSUME NEW o \in Seq(Vocab), NEW pending \in Seq(Vocab)
  PROVE  LET g == Given(o, pending)
         IN  /\ g \in 0..Len(pending)
             /\ Complete(o) => g = 0
             /\ \A i \in 1..g - 1 : ~Complete(o \o SubSeq(pending, 1, i))
             /\ \/ g = Len(pending)
                \/ Complete(o \o SubSeq(pending, 1, g))
<1>1. Len(pending) \in Nat
  OBVIOUS
<1>2. CASE Complete(o)
  <2> DEFINE e == o \o SubSeq(pending, 1, 0)
  <2>1. e = o
    <3>1. SubSeq(pending, 1, 0) = <<>>
      OBVIOUS
    <3> QED  BY <3>1
  <2>2. Given(o, pending) = 0 /\ Complete(o \o SubSeq(pending, 1, 0))
    BY <1>2, <2>1 DEF Given
  <2> HIDE DEF e
  <2> QED  BY <1>1, <2>2
<1>3. CASE ~Complete(o)
  <2> DEFINE Upto(n) == Complete(o \o SubSeq(pending, 1, n))
             Stops(n) == /\ n = Len(pending) \/ (n > 0 /\ Upto(n))
                         /\ \A i \in 1..n - 1 : ~Upto(i)
             Ends == {i \in 1..Len(pending) : Upto(i)}
             g == CHOOSE n \in 0..Len(pending) : Stops(n)
  <2>1. Given(o, pending) = g
    BY <1>3 DEF Given
  <2> HIDE DEF Upto
  <2>2. \E n \in 0..Len(pending) : Stops(n)
    <3>1. CASE Ends = {}
      BY <3>1, <1>1
    <3>2. CASE Ends # {}
      <4>a. Ends \in SUBSET Nat
        BY <1>1
      <4>1. PICK i \in Ends : \A j \in Ends : i <= j
        BY <3>2, <4>a, NonemptyHasMin
      <4>2. i \in 0..Len(pending) /\ i > 0 /\ Upto(i) /\ \A j \in 1..i - 1 : ~Upto(j)
        BY <4>1, <1>1
      <4> QED  BY <4>2
    <3> QED  BY <3>1, <3>2
  <2> HIDE DEF Stops
  <2>3. g \in 0..Len(pending) /\ Stops(g)
    BY <2>2
  <2> QED  BY <1>1, <1>3, <2>1, <2>3 DEF Stops, Upto
<1> QED  BY <1>2, <1>3

-----------------------------------------------------------------------------
(* The invariant.                                                          *)

Gens ==
  {NoGen}
  \cup [at : {"begin", "round"}, y : Vocab, left : 0..MaxTokens]
  \cup [at : {"walk"}, due : Seq(Vocab), drop : 0..MaxK, verdict : Vocab \cup {NoTok},
        left : 0..MaxTokens]

Caches == [rows : Seq(Vocab), ssm : Seq(Vocab), tape : Seq(Seq(Vocab))]

SpecTypes ==
  /\ mode \in Modes /\ stream \in Streams /\ next \in Vocab
  /\ cache \in Caches /\ gen \in Gens
  /\ tokens \in Seq(Vocab) /\ Len(tokens) <= MaxTokens /\ handed \in 0..Len(tokens)
  /\ status \in {"running", "finished", "failed"} /\ faults \in 0..MaxFaults
  /\ alone \in BOOLEAN /\ disabled \in BOOLEAN /\ torn \in BOOLEAN

\* Who may act: a hand-off is for good, and a generator lasts as long as the
\* request may be given tokens.
Turns ==
  /\ status = "running" => ~Complete(tokens)
  /\ status = "failed" => faults > 0
  /\ torn => handed # 0
  /\ handed # 0 => gen = NoGen /\ disabled /\ handed >= 2 /\ Method = "mtp"
  /\ ~Hybrid => cache.tape = <<>>
  /\ gen # NoGen => /\ Method = "mtp" /\ ~disabled
                    /\ tokens # <<>> /\ Len(tokens) + gen.left >= MaxTokens + 1
  /\ gen.at = "walk" => /\ gen.drop + Len(gen.due) <= MaxK
                        /\ Hybrid => gen.drop + Len(gen.due) <= Len(cache.tape)

\* What was given is the stream, but for the token a hand-off repeats.
Log == ~torn => Own = Said(Known)

\* While accepted drafts are yielded the caches begin with the k tokens given
\* and those due; the drafts behind them are to be dropped, and the tape has
\* the states to go back to.
Walking(k, c, o, g) ==
  /\ Len(c.rows) >= k + Len(g.due)
  /\ \A i \in 1..k + Len(g.due) : c.rows[i] = Token(i)
  /\ \A i \in 1..Len(g.due) : g.due[i] = Token(k + i)
  /\ g.verdict = NoTok => IF g.due = <<>> THEN Last(o) = Eos ELSE Last(g.due) = Eos
  /\ g.verdict # NoTok => /\ Len(c.rows) = k + Len(g.due) + g.drop
                          /\ g.verdict = Token(k + Len(g.due) + 1)
  /\ Hybrid => /\ Len(c.tape) < Len(c.rows)
               /\ \A i \in 1..Len(c.tape) :
                    c.tape[i] = SubSeq(c.rows, 1, Len(c.rows) - Len(c.tape) - 1 + i)

\* Where the caches c, the staged token x and the generator g are when k tokens
\* of the stream were given.
SyncedAt(k, c, x, o, g) ==
  /\ c.ssm = IF Hybrid THEN c.rows ELSE <<>>
  /\ g.at # "walk" => c.tape = <<>>
  /\ g.at = "none" => c.rows = Said(k) /\ x = Token(k + 1)
  /\ g.at \in {"begin", "round"} => c.rows = Said(k - 1) /\ g.y = Token(k) /\ x = g.y
  /\ g.at = "walk" => Walking(k, c, o, g)

Synced == status = "running" /\ ~torn => SyncedAt(Known, cache, next, tokens, gen)

SpecInv == SpecTypes /\ Turns /\ Log /\ Synced

-----------------------------------------------------------------------------
(* Generators, caches and the token log.                                   *)

LEMMA GenFacts ==
  ASSUME NEW g \in Gens
  PROVE  /\ g.at = "none" <=> g = NoGen
         /\ g # NoGen => g.at \in {"begin", "round", "walk"} /\ g.left \in 0..MaxTokens
         /\ g.at \in {"begin", "round"} => g.y \in Vocab
         /\ g.at = "walk" => /\ g.due \in Seq(Vocab) /\ g.drop \in 0..MaxK
                             /\ g.verdict \in Vocab \cup {NoTok}
<1>1. NoGen.at = "none"
  BY DEF NoGen
<1>2. CASE g = NoGen
  BY <1>1, <1>2
<1>3. CASE g \in [at : {"begin", "round"}, y : Vocab, left : 0..MaxTokens]
  BY <1>1, <1>3
<1>4. CASE g \in [at : {"walk"}, due : Seq(Vocab), drop : 0..MaxK, verdict : Vocab \cup {NoTok},
                  left : 0..MaxTokens]
  BY <1>1, <1>4
<1> QED  BY <1>2, <1>3, <1>4 DEF Gens

LEMMA RoundFacts ==
  ASSUME NEW y \in Vocab, NEW l \in 0..MaxTokens
  PROVE  /\ Round(y, l) \in Gens /\ Round(y, l) # NoGen
         /\ Round(y, l).at = "round" /\ Round(y, l).y = y /\ Round(y, l).left = l
<1>1. Round(y, l).at = "round" /\ Round(y, l).y = y /\ Round(y, l).left = l
  BY DEF Round
<1>2. Round(y, l) \in Gens
  BY DEF Round, Gens
<1>3. Round(y, l) # NoGen
  BY <1>1, <1>2, GenFacts
<1> QED  BY <1>1, <1>2, <1>3

\* One forward.
LEMMA FedFacts ==
  ASSUME NEW c \in Caches, NEW block \in Seq(Vocab), block # <<>>
  PROVE  /\ Fed(c, block) \in Caches
         /\ Fed(c, block).rows = c.rows \o block
         /\ Fed(c, block).ssm = IF Hybrid THEN c.ssm \o block ELSE <<>>
         /\ Len(block) = 1 \/ ~Hybrid => Fed(c, block).tape = c.tape
         /\ Hybrid /\ Len(block) > 1 =>
              /\ Len(Fed(c, block).tape) = Len(block) - 1
              /\ \A i \in 1..Len(block) - 1 :
                   Fed(c, block).tape[i] = c.ssm \o SubSeq(block, 1, i)
<1> DEFINE states == [i \in 1..Len(block) - 1 |-> c.ssm \o SubSeq(block, 1, i)]
           r == c.rows \o block
           s == IF Hybrid THEN c.ssm \o block ELSE <<>>
           t == IF Hybrid /\ Len(block) > 1 THEN states ELSE c.tape
<1>1. c.rows \in Seq(Vocab) /\ c.ssm \in Seq(Vocab) /\ c.tape \in Seq(Seq(Vocab))
  BY DEF Caches
<1>2. r \in Seq(Vocab) /\ s \in Seq(Vocab)
  BY <1>1
<1>3. Len(block) - 1 \in Nat
  OBVIOUS
<1>4. \A i \in 1..Len(block) - 1 : c.ssm \o SubSeq(block, 1, i) \in Seq(Vocab)
  <2> TAKE i \in 1..Len(block) - 1
  <2>1. i \in Nat /\ i <= Len(block)
    OBVIOUS
  <2>2. SubSeq(block, 1, i) \in Seq(Vocab)
    BY <2>1, SubSeqFacts
  <2> QED  BY <1>1, <2>2
<1>5. states \in [1..Len(block) - 1 -> Seq(Vocab)]
  BY <1>4
<1>6. states \in Seq(Seq(Vocab)) /\ Len(states) = Len(block) - 1
  <2> DEFINE T == Seq(Vocab)
  <2> HIDE DEF T
  <2>1. states \in [1..Len(block) - 1 -> T]
    BY <1>5 DEF T
  <2> HIDE DEF states
  <2>2. states \in Seq(T) /\ Len(states) = Len(block) - 1
    BY <1>3, <2>1
  <2> QED  BY <2>2 DEF T
<1>7. \A i \in 1..Len(block) - 1 : states[i] = c.ssm \o SubSeq(block, 1, i)
  OBVIOUS
<1>8. Fed(c, block) = [rows |-> r, ssm |-> s, tape |-> t]
  BY DEF Fed
<1> HIDE DEF states, r, s
<1>9. t \in Seq(Seq(Vocab))
  BY <1>1, <1>6
<1>10. Fed(c, block) \in Caches
  <2> HIDE DEF t
  <2> QED  BY <1>2, <1>8, <1>9 DEF Caches
<1>11. Fed(c, block).rows = r /\ Fed(c, block).ssm = s /\ Fed(c, block).tape = t
  BY <1>8
<1>12. /\ Len(block) = 1 \/ ~Hybrid => t = c.tape
       /\ Hybrid /\ Len(block) > 1 => t = states
  <2>1. Len(block) = 1 => ~(Len(block) > 1)
    OBVIOUS
  <2> QED  BY <2>1, Zenon
<1> HIDE DEF t
<1>13. Hybrid /\ Len(block) > 1 =>
         /\ Len(t) = Len(block) - 1
         /\ \A i \in 1..Len(block) - 1 : t[i] = c.ssm \o SubSeq(block, 1, i)
  BY <1>6, <1>7, <1>12
<1> QED  BY <1>10, <1>11, <1>12, <1>13, Zenon DEF r, s

\* A roll back.
LEMMA RolledFacts ==
  ASSUME NEW c \in Caches, NEW n \in Nat, n <= Len(c.rows),
         c.tape # <<>> => n \in 1..Len(c.tape)
  PROVE  /\ RolledBack(c, n) \in Caches
         /\ RolledBack(c, n).rows = SubSeq(c.rows, 1, Len(c.rows) - n)
         /\ RolledBack(c, n).ssm = IF c.tape # <<>> THEN c.tape[Len(c.tape) - n + 1] ELSE c.ssm
         /\ RolledBack(c, n).tape = <<>>
<1> DEFINE r == SubSeq(c.rows, 1, Len(c.rows) - n)
           s == IF c.tape # <<>> THEN c.tape[Len(c.tape) - n + 1] ELSE c.ssm
<1>1. /\ c.rows \in Seq(Vocab) /\ c.ssm \in Seq(Vocab) /\ c.tape \in Seq(Seq(Vocab))
  BY DEF Caches
<1>2. r \in Seq(Vocab)
  <2>1. Len(c.rows) - n \in Nat /\ Len(c.rows) - n <= Len(c.rows)
    BY <1>1
  <2> QED  BY <1>1, <2>1, SubSeqFacts
<1>3. s \in Seq(Vocab)
  <2> DEFINE T == Seq(Vocab)
  <2>1. c.tape \in Seq(T) /\ c.ssm \in T
    BY <1>1
  <2> HIDE DEF T
  <2>2. s \in T
    BY <2>1
  <2> QED  BY <2>2 DEF T
<1>4. RolledBack(c, n) = [rows |-> r, ssm |-> s, tape |-> <<>>]
  <2>1. PICK x \in Seq(Vocab), y \in Seq(Vocab), z \in Seq(Seq(Vocab)) :
          c = [rows |-> x, ssm |-> y, tape |-> z]
    BY DEF Caches
  <2>2. Trimmed(c, n) = [c EXCEPT !.rows = r]
    BY DEF Trimmed
  <2>3. RolledBack(c, n) = [Trimmed(c, n) EXCEPT !.ssm = IF c.tape # <<>> THEN FromTape(c.tape, n) ELSE @,
                                                !.tape = <<>>]
    BY DEF RolledBack
  <2>4. FromTape(c.tape, n) = c.tape[Len(c.tape) - n + 1]
    BY DEF FromTape
  <2> HIDE DEF r
  <2>5. Trimmed(c, n) = [rows |-> r, ssm |-> y, tape |-> z]
    BY <2>1, <2>2
  <2>6. Trimmed(c, n).ssm = y /\ y = c.ssm
    BY <2>1, <2>5
  <2>7. RolledBack(c, n) = [Trimmed(c, n) EXCEPT !.ssm = s, !.tape = <<>>]
    BY <2>3, <2>4, <2>6
  <2>8. \A v, w : [Trimmed(c, n) EXCEPT !.ssm = v, !.tape = w] = [rows |-> r, ssm |-> v, tape |-> w]
    <3> TAKE v, w
    <3> DEFINE f == [Trimmed(c, n) EXCEPT !.ssm = v]
    <3>1. f = [rows |-> r, ssm |-> v, tape |-> z]
      BY <2>5
    <3> HIDE DEF f
    <3>2. [f EXCEPT !.tape = w] = [rows |-> r, ssm |-> v, tape |-> w]
      BY <3>1
    <3> QED  BY <3>2 DEF f
  <2> QED  BY <2>7, <2>8, Zenon
<1> HIDE DEF r, s
<1>5. RolledBack(c, n) \in Caches
  <2>1. <<>> \in Seq(Seq(Vocab))
    OBVIOUS
  <2> QED  BY <1>2, <1>3, <1>4, <2>1 DEF Caches
<1> QED  BY <1>4, <1>5 DEF r, s

LEMMA ClearedFacts ==
  ASSUME NEW c \in Caches
  PROVE  /\ Cleared(c) \in Caches
         /\ Cleared(c).rows = c.rows /\ Cleared(c).ssm = c.ssm /\ Cleared(c).tape = <<>>
<1>1. c.rows \in Seq(Vocab) /\ c.ssm \in Seq(Vocab)
  BY DEF Caches
<1>2. <<>> \in Seq(Seq(Vocab))
  OBVIOUS
<1>3. Cleared(c) = [rows |-> c.rows, ssm |-> c.ssm, tape |-> <<>>]
  <2>1. PICK a \in Seq(Vocab), b \in Seq(Vocab), d \in Seq(Seq(Vocab)) :
          c = [rows |-> a, ssm |-> b, tape |-> d]
    BY DEF Caches
  <2> QED  BY <2>1 DEF Cleared
<1> QED  BY <1>1, <1>2, <1>3 DEF Caches

\* A token that is given.
LEMMA GiveFacts ==
  ASSUME SpecTypes, Turns, status = "running", NEW t \in Vocab, Give(t)
  PROVE  /\ tokens' \in Seq(Vocab) /\ tokens' = Append(tokens, t) /\ tokens' # <<>>
         /\ Len(tokens') = Len(tokens) + 1 /\ Len(tokens') <= MaxTokens
         /\ Last(tokens') = t
         /\ status' \in {"running", "finished"}
         /\ status' = "running" <=> ~Complete(tokens')
<1>1. tokens \in Seq(Vocab) /\ MaxTokens \in Nat \ {0} /\ tokens' = Append(tokens, t)
  BY SpecAssumption DEF SpecTypes, Give
<1>2. Len(tokens) < MaxTokens
  BY <1>1 DEF Turns, Complete
<1>3. /\ tokens' \in Seq(Vocab) /\ tokens' # <<>> /\ Len(tokens') = Len(tokens) + 1
      /\ tokens'[Len(tokens) + 1] = t
  BY <1>1
<1>4. Last(tokens') = t
  BY <1>3 DEF Last
<1>5. status' = IF Complete(tokens') THEN "finished" ELSE "running"
  BY DEF Give
<1> HIDE DEF Complete
<1> QED  BY <1>1, <1>2, <1>3, <1>4, <1>5

\* A token given does not move the one a hand-off repeated.
LEMMA RemoveAtFacts ==
  ASSUME NEW s \in Seq(Vocab), NEW h \in 1..Len(s), NEW t \in Vocab
  PROVE  /\ RemoveAt(s, h) \in Seq(Vocab) /\ Len(RemoveAt(s, h)) = Len(s) - 1
         /\ RemoveAt(Append(s, t), h) = Append(RemoveAt(s, h), t)
<1> DEFINE a == SubSeq(s, 1, h - 1)
           b == SubSeq(s, h + 1, Len(s))
           l == Append(s, t)
           c == SubSeq(l, h + 1, Len(l))
<1>1. a \in Seq(Vocab) /\ b \in Seq(Vocab) /\ Len(a) = h - 1 /\ Len(b) = Len(s) - h
  OBVIOUS
<1>2. l \in Seq(Vocab) /\ Len(l) = Len(s) + 1 /\ l[Len(s) + 1] = t /\ \A i \in 1..Len(s) : l[i] = s[i]
  OBVIOUS
<1>3. SubSeq(l, 1, h - 1) = a
  OBVIOUS
<1>4. \A i \in 1..Len(b) : b[i] = s[h + i]
  OBVIOUS
<1> HIDE DEF a, b, l
<1>5. c \in Seq(Vocab) /\ Len(c) = Len(b) + 1 /\ \A i \in 1..Len(b) + 1 : c[i] = l[h + i]
  BY <1>1, <1>2
<1>6. RemoveAt(s, h) = a \o b /\ RemoveAt(l, h) = a \o c
  BY <1>3 DEF RemoveAt, a, b
<1> HIDE DEF c
<1>7. c = Append(b, t)
  <2>1. /\ Append(b, t) \in Seq(Vocab) /\ Len(Append(b, t)) = Len(b) + 1
        /\ Append(b, t)[Len(b) + 1] = t /\ \A i \in 1..Len(b) : Append(b, t)[i] = b[i]
    BY <1>1
  <2>2. ASSUME NEW i \in 1..Len(b) + 1  PROVE c[i] = Append(b, t)[i]
    <3>1. CASE i = Len(b) + 1
      BY <3>1, <2>1, <1>1, <1>2, <1>5
    <3>2. CASE i # Len(b) + 1
      <4>1. i \in 1..Len(b) /\ h + i \in 1..Len(s)
        BY <3>2, <1>1, SMTT(20)
      <4> QED  BY <4>1, <2>1, <1>2, <1>4, <1>5
    <3> QED  BY <3>1, <3>2
  <2> QED  BY <2>1, <2>2, <1>5, SameSeq
<1>8. a \o Append(b, t) = Append(a \o b, t)
  BY <1>1
<1>9. a \o b \in Seq(Vocab) /\ Len(a \o b) = Len(a) + Len(b)
  BY <1>1
<1> QED  BY <1>1, <1>6, <1>7, <1>8, <1>9 DEF l

LEMMA RemoveLast ==
  ASSUME NEW s \in Seq(Vocab), NEW t \in Vocab
  PROVE  RemoveAt(Append(s, t), Len(s) + 1) = s
<1> DEFINE n == Len(s) + 1
<1>1. Len(Append(s, t)) = n /\ n - 1 = Len(s)
  OBVIOUS
<1>2. SubSeq(Append(s, t), 1, Len(s)) = s
  OBVIOUS
<1>3. SubSeq(Append(s, t), n + 1, n) = <<>>
  OBVIOUS
<1> HIDE DEF n
<1>4. RemoveAt(Append(s, t), n) = s \o <<>>
  BY <1>1, <1>2, <1>3 DEF RemoveAt
<1> QED  BY <1>4 DEF n

LEMMA OwnFacts ==
  ASSUME SpecTypes
  PROVE  /\ Own \in Seq(Vocab) /\ Len(Own) = Known /\ Known \in Nat
         /\ handed = 0 => Own = tokens /\ Known = Len(tokens)
<1>1. tokens \in Seq(Vocab) /\ handed \in 0..Len(tokens) /\ Len(tokens) \in Nat
  BY DEF SpecTypes
<1>2. CASE handed = 0
  BY <1>1, <1>2 DEF Own, Known
<1>3. CASE handed # 0
  <2>1. handed \in 1..Len(tokens)
    BY <1>1, <1>3
  <2>2. RemoveAt(tokens, handed) \in Seq(Vocab) /\ Len(RemoveAt(tokens, handed)) = Len(tokens) - 1
    <3>1. Eos \in Vocab
      BY SpecAssumption
    <3> QED  BY <1>1, <2>1, <3>1, RemoveAtFacts
  <2> QED  BY <1>1, <1>3, <2>1, <2>2 DEF Own, Known
<1> QED  BY <1>2, <1>3

\* A token given is one more of the request's own.
LEMMA OwnGrows ==
  ASSUME SpecTypes, NEW t \in Vocab, tokens' = Append(tokens, t), handed' = handed
  PROVE  Own' = Append(Own, t) /\ Known' = Known + 1
<1>1. tokens \in Seq(Vocab) /\ handed \in 0..Len(tokens) /\ Len(tokens) \in Nat
      /\ Len(tokens') = Len(tokens) + 1
  BY DEF SpecTypes
<1>2. CASE handed = 0
  BY <1>1, <1>2 DEF Own, Known
<1>3. CASE handed # 0
  <2>1. handed \in 1..Len(tokens)
    BY <1>1, <1>3
  <2>2. RemoveAt(Append(tokens, t), handed) = Append(RemoveAt(tokens, handed), t)
    BY <1>1, <2>1, RemoveAtFacts
  <2> QED  BY <1>1, <1>3, <2>2 DEF Own, Known
<1> QED  BY <1>2, <1>3

\* A step leaves the model and its stream alone.
LEMMA Held ==
  ASSUME UNCHANGED <<mode, stream>>
  PROVE  /\ Hybrid' = Hybrid /\ Method' = Method
         /\ Log' <=> (~torn' => Own' = Said(Known'))
         /\ Synced' <=> (status' = "running" /\ ~torn' =>
                           SyncedAt(Known', cache', next', tokens', gen'))
<1>1. stream' = stream /\ mode' = mode
  OBVIOUS
<1>2. Hybrid' = Hybrid /\ Method' = Method
  BY <1>1 DEF Hybrid, Method
<1>3. Log' <=> (~torn' => Own' = Said(Known'))
  BY <1>1 DEF Log, Said, Token
<1>4. Synced' <=> (status' = "running" /\ ~torn' => SyncedAt(Known', cache', next', tokens', gen'))
  BY <1>1 DEF Synced, SyncedAt, Walking, Said, Token, Hybrid
<1> QED  BY <1>2, <1>3, <1>4

\* A step that gives the stream's next token keeps the log.
LEMMA LogGrows ==
  ASSUME SpecTypes, Log, UNCHANGED <<mode, stream, handed, torn>>,
         NEW t \in Vocab, tokens' = Append(tokens, t), ~torn => t = Token(Known + 1)
  PROVE  Log' /\ Known' = Known + 1
<1>1. Own' = Append(Own, t) /\ Known' = Known + 1
  BY OwnGrows
<1>2. ASSUME ~torn  PROVE Own' = Said(Known')
  <2>1. Own' = Append(Said(Known), Token(Known + 1)) /\ Known \in Nat /\ stream \in Streams
    BY <1>1, <1>2, OwnFacts DEF Log, SpecTypes
  <2> QED  BY <1>1, <2>1, SaidNext
<1> QED  BY <1>1, <1>2, Held

\* A generator that is not there: the caches hold what was given.
LEMMA SyncedNone ==
  ASSUME NEW k, NEW c, NEW x, NEW o
  PROVE  SyncedAt(k, c, x, o, NoGen) <=>
           /\ c.ssm = IF Hybrid THEN c.rows ELSE <<>>
           /\ c.tape = <<>> /\ c.rows = Said(k) /\ x = Token(k + 1)
BY DEF SyncedAt, NoGen

\* A generator between two rounds lags one token behind.
LEMMA SyncedBetween ==
  ASSUME NEW k, NEW c, NEW x, NEW o, NEW g, g.at \in {"begin", "round"}
  PROVE  SyncedAt(k, c, x, o, g) <=>
           /\ c.ssm = IF Hybrid THEN c.rows ELSE <<>>
           /\ c.tape = <<>> /\ c.rows = Said(k - 1) /\ g.y = Token(k) /\ x = g.y
BY DEF SyncedAt

-----------------------------------------------------------------------------
(* Steps without drafts.                                                   *)

\* What mlx-lm's own _step does.
LEMMA PlainFacts ==
  ASSUME SpecTypes, Turns, status = "running", NEW c \in Caches, PlainStep(c)
  PROVE  /\ cache' \in Caches /\ next' \in Vocab
         /\ cache'.rows = c.rows \o <<next>> /\ cache'.tape = c.tape
         /\ cache'.ssm = IF Hybrid THEN c.ssm \o <<next>> ELSE <<>>
         /\ next' \in Predict(cache'.rows, cache'.ssm)
         /\ Give(next)
<1>1. next \in Vocab /\ stream \in Streams
  BY DEF SpecTypes
<1>2. <<next>> \in Seq(Vocab) /\ <<next>> # <<>> /\ Len(<<next>>) = 1
  BY <1>1
<1>3. cache' = Fed(c, <<next>>) /\ next' \in Predict(cache'.rows, cache'.ssm) /\ Give(next)
  BY DEF PlainStep
<1>4. /\ cache' \in Caches /\ cache'.rows = c.rows \o <<next>> /\ cache'.tape = c.tape
      /\ cache'.ssm = IF Hybrid THEN c.ssm \o <<next>> ELSE <<>>
  BY <1>2, <1>3, FedFacts
<1>5. cache'.rows \in Seq(Vocab)
  BY <1>4 DEF Caches
<1> QED  BY <1>1, <1>3, <1>4, <1>5, PredictTyped

\* From caches that hold k tokens of the stream and the next one staged.
LEMMA PlainSaid ==
  ASSUME SpecTypes, Turns, status = "running", NEW c \in Caches, PlainStep(c),
         NEW k \in Nat, c.rows = Said(k), Hybrid => c.ssm = c.rows, next = Token(k + 1)
  PROVE  /\ cache'.ssm = IF Hybrid THEN cache'.rows ELSE <<>>
         /\ cache'.rows = Said(k + 1) /\ next' = Token(k + 2)
<1>1. stream \in Streams /\ k + 1 \in Nat /\ (k + 1) + 1 = k + 2
  BY DEF SpecTypes
<1>2. /\ cache'.rows = c.rows \o <<next>>
      /\ cache'.ssm = IF Hybrid THEN c.ssm \o <<next>> ELSE <<>>
      /\ next' \in Predict(cache'.rows, cache'.ssm)
  BY PlainFacts
<1>3. cache'.rows = Said(k + 1)
  BY <1>1, <1>2, SaidNext
<1>4. cache'.ssm = IF Hybrid THEN cache'.rows ELSE <<>>
  BY <1>2
<1>5. Predict(Said(k + 1), cache'.ssm) = {Token((k + 1) + 1)}
  BY <1>1, <1>3, <1>4, PredictSaid
<1> QED  BY <1>1, <1>2, <1>3, <1>4, <1>5

\* mlx-lm's own _step while there is no generator.
LEMMA PlainKeeps ==
  ASSUME SpecInv, status = "running", gen = NoGen, PlainStep(cache),
         UNCHANGED <<mode, stream, alone, gen, handed, torn>>,
         disabled' \in BOOLEAN, disabled => disabled', faults' \in 0..MaxFaults
  PROVE  SpecInv'
<1> USE DEF SpecInv
<1>1. cache \in Caches /\ next \in Vocab /\ stream \in Streams /\ Known \in Nat
  BY OwnFacts DEF SpecTypes
<1>2. /\ cache' \in Caches /\ next' \in Vocab /\ cache'.tape = cache.tape /\ Give(next)
  BY <1>1, PlainFacts
<1>3. /\ tokens' \in Seq(Vocab) /\ tokens' = Append(tokens, next)
      /\ Len(tokens') = Len(tokens) + 1 /\ Len(tokens') <= MaxTokens
      /\ status' \in {"running", "finished"} /\ (status' = "running" => ~Complete(tokens'))
  BY <1>1, <1>2, GiveFacts
<1>4. SpecTypes'
  <2>1. handed' \in 0..Len(tokens')
    BY <1>3 DEF SpecTypes
  <2>2. mode' \in Modes /\ stream' \in Streams /\ gen' \in Gens /\ alone' \in BOOLEAN /\ torn' \in BOOLEAN
    BY DEF SpecTypes
  <2> QED  BY <1>2, <1>3, <2>1, <2>2 DEF SpecTypes, Gens, Caches
<1>5. Turns'
  <2>1. NoGen.at = "none"
    BY DEF NoGen
  <2>2. /\ status' = "running" => ~Complete(tokens')
        /\ status' # "failed" /\ gen' = NoGen /\ gen'.at # "walk"
    BY <1>3, <2>1
  <2>3. torn' => handed' # 0
    BY DEF Turns
  <2>4. handed' # 0 => gen' = NoGen /\ disabled' /\ handed' >= 2 /\ Method' = "mtp"
    BY Held DEF Turns
  <2>5. ~Hybrid' => cache'.tape = <<>>
    BY <1>2, Held DEF Turns
  <2> QED  BY <2>2, <2>3, <2>4, <2>5 DEF Turns, Complete
<1>6. ASSUME ~torn
      PROVE  /\ cache.ssm = IF Hybrid THEN cache.rows ELSE <<>>
             /\ cache.tape = <<>> /\ cache.rows = Said(Known) /\ next = Token(Known + 1)
  BY <1>6, SyncedNone DEF Synced
<1>7. Log' /\ Known' = Known + 1
  <2>1. ~torn => next = Token(Known + 1)
    BY <1>6
  <2> QED  BY <1>1, <1>3, <2>1, LogGrows
<1>8. Synced'
  <2>1. ASSUME ~torn'
        PROVE  SyncedAt(Known', cache', next', tokens', gen')
    <3>1. Hybrid => cache.ssm = cache.rows
      BY <1>6, <2>1
    <3>2. /\ cache'.ssm = IF Hybrid THEN cache'.rows ELSE <<>>
          /\ cache'.rows = Said(Known + 1) /\ next' = Token(Known + 2)
      BY <1>1, <1>6, <2>1, <3>1, PlainSaid
    <3>3. cache'.tape = <<>> /\ gen' = NoGen /\ (Known + 1) + 1 = Known + 2
      BY <1>1, <1>2, <1>6, <2>1
    <3>4. SyncedAt(Known + 1, cache', next', tokens', NoGen)
      BY <3>2, <3>3, SyncedNone
    <3> QED  BY <1>7, <3>3, <3>4
  <2> QED  BY <2>1, Held
<1> QED  BY <1>4, <1>5, <1>7, <1>8

-----------------------------------------------------------------------------
(* The generator's steps.                                                  *)

\* While there is a generator no hand-off took place.
LEMMA GenStands ==
  ASSUME SpecInv, gen # NoGen \/ ~disabled
  PROVE  /\ handed = 0 /\ ~torn /\ Known = Len(tokens) /\ Own = tokens
         /\ Known \in Nat /\ tokens = Said(Known)
<1>1. handed = 0 /\ ~torn
  BY DEF SpecInv, Turns
<1>2. Own = tokens /\ Known = Len(tokens) /\ Known \in Nat
  BY <1>1, OwnFacts DEF SpecInv
<1> QED  BY <1>1, <1>2 DEF SpecInv, Log

\* The batch has grown: one token is repeated, and plain decoding goes on.
LEMMA HandOffKeeps ==
  ASSUME SpecInv, MtpHandOff
  PROVE  SpecInv'
<1> USE DEF SpecInv
<1>1. /\ status = "running" /\ gen # NoGen /\ PlainStep(Cleared(cache))
      /\ gen' = NoGen /\ disabled' = TRUE /\ handed' = Len(tokens) + 1 /\ torn' = (gen.at = "walk")
      /\ Method = "mtp"
  BY DEF MtpHandOff
<1>2. UNCHANGED <<mode, stream, alone, faults>>
  BY DEF MtpHandOff
<1>3. cache \in Caches /\ next \in Vocab /\ stream \in Streams /\ tokens \in Seq(Vocab)
      /\ gen \in Gens
  BY DEF SpecTypes
<1>4. /\ Cleared(cache) \in Caches /\ Cleared(cache).rows = cache.rows
      /\ Cleared(cache).ssm = cache.ssm /\ Cleared(cache).tape = <<>>
  BY <1>3, ClearedFacts
<1>5. /\ cache' \in Caches /\ next' \in Vocab /\ cache'.tape = <<>> /\ Give(next)
  BY <1>1, <1>4, PlainFacts
<1>6. /\ tokens' \in Seq(Vocab) /\ tokens' = Append(tokens, next)
      /\ Len(tokens') = Len(tokens) + 1 /\ Len(tokens') <= MaxTokens
      /\ status' \in {"running", "finished"} /\ (status' = "running" => ~Complete(tokens'))
  BY <1>1, <1>3, <1>5, GiveFacts
<1>7. handed = 0 /\ ~torn /\ Known = Len(tokens) /\ Known \in Nat /\ tokens = Said(Known)
      /\ Known >= 1
  <2>1. tokens # <<>>
    BY <1>1 DEF Turns
  <2> QED  BY <1>1, <1>3, <2>1, GenStands
<1>8. SpecTypes'
  <2>1. handed' \in 0..Len(tokens')
    BY <1>1, <1>3, <1>6
  <2>2. mode' \in Modes /\ stream' \in Streams /\ gen' \in Gens /\ alone' \in BOOLEAN
        /\ faults' \in 0..MaxFaults
    BY <1>1, <1>2 DEF SpecTypes, Gens
  <2>3. torn' \in BOOLEAN /\ disabled' \in BOOLEAN
    BY <1>1
  <2> QED  BY <1>5, <1>6, <2>1, <2>2, <2>3 DEF SpecTypes, Gens, Caches
<1>9. Turns'
  <2>1. NoGen.at = "none"
    BY DEF NoGen
  <2>2. /\ status' = "running" => ~Complete(tokens')
        /\ status' # "failed" /\ gen' = NoGen /\ gen'.at # "walk"
    BY <1>1, <1>6, <2>1
  <2>3. handed' # 0 /\ handed' >= 2
    BY <1>1, <1>7
  <2>4. Method' = "mtp"
    BY <1>1, <1>2, Held
  <2> QED  BY <1>1, <1>5, <2>2, <2>3, <2>4 DEF Turns, Complete
<1>10. Own' = tokens /\ Known' = Len(tokens)
  <2>1. handed' # 0 /\ Len(tokens') - 1 = Len(tokens)
    BY <1>1, <1>6, <1>7
  <2>2. RemoveAt(Append(tokens, next), Len(tokens) + 1) = tokens
    BY <1>3, RemoveLast
  <2> QED  BY <1>1, <1>6, <2>1, <2>2 DEF Own, Known
<1>11. Log'
  BY <1>2, <1>7, <1>10, Held
<1>12. Synced'
  <2>1. ASSUME status' = "running", ~torn'
        PROVE  SyncedAt(Known', cache', next', tokens', gen')
    <3>1. gen.at \in {"begin", "round"}
      BY <1>1, <1>3, <2>1, GenFacts
    <3>2. /\ cache.ssm = IF Hybrid THEN cache.rows ELSE <<>>
          /\ cache.rows = Said(Known - 1) /\ next = Token(Known)
      BY <1>1, <1>7, <3>1, SyncedBetween DEF Synced
    <3>3. Known - 1 \in Nat /\ (Known - 1) + 1 = Known /\ (Known - 1) + 2 = Known + 1
      BY <1>7
    <3>4. /\ cache'.ssm = IF Hybrid THEN cache'.rows ELSE <<>>
          /\ cache'.rows = Said((Known - 1) + 1) /\ next' = Token((Known - 1) + 2)
      <4>1. Cleared(cache).rows = Said(Known - 1) /\ next = Token((Known - 1) + 1)
            /\ (Hybrid => Cleared(cache).ssm = Cleared(cache).rows)
        BY <1>4, <3>2, <3>3
      <4> QED  BY <1>1, <1>4, <3>3, <4>1, PlainSaid
    <3> QED  BY <1>1, <1>5, <1>7, <1>10, <3>3, <3>4, SyncedNone
  <2> QED  BY <1>2, <2>1, Held
<1> QED  BY <1>8, <1>9, <1>11, <1>12

\* What a step has to show that gives a token and leaves a generator behind:
\* the types of what it leaves, and that they are in step with the stream.
LEMMA GenKeeps ==
  ASSUME SpecInv, MtpTurn, NEW t \in Vocab, t = Token(Known + 1), Give(t), next' = t,
         UNCHANGED <<mode, stream, alone, disabled, handed, torn, faults>>,
         cache' \in Caches, gen' \in Gens, gen' # NoGen,
         Len(tokens) + 1 + gen'.left >= MaxTokens + 1,
         ~Hybrid => cache'.tape = <<>>,
         gen'.at = "walk" => /\ gen'.drop + Len(gen'.due) <= MaxK
                             /\ Hybrid => gen'.drop + Len(gen'.due) <= Len(cache'.tape),
         status' = "running" => SyncedAt(Known + 1, cache', t, tokens', gen')
  PROVE  SpecInv'
<1> USE DEF SpecInv
<1>1. status = "running" /\ Method = "mtp" /\ ~disabled
  BY DEF MtpTurn
<1>2. handed = 0 /\ ~torn /\ Known \in Nat
  BY <1>1, GenStands
<1>3. /\ tokens' \in Seq(Vocab) /\ tokens' = Append(tokens, t) /\ tokens' # <<>>
      /\ Len(tokens') = Len(tokens) + 1 /\ Len(tokens') <= MaxTokens
      /\ status' \in {"running", "finished"} /\ (status' = "running" => ~Complete(tokens'))
  BY <1>1, GiveFacts
<1>4. SpecTypes'
  <2>1. handed' \in 0..Len(tokens')
    BY <1>2, <1>3 DEF SpecTypes
  <2>2. mode' \in Modes /\ stream' \in Streams /\ alone' \in BOOLEAN /\ disabled' \in BOOLEAN
        /\ torn' \in BOOLEAN /\ faults' \in 0..MaxFaults
    BY DEF SpecTypes
  <2> QED  BY <1>3, <2>1, <2>2 DEF SpecTypes, Gens, Caches
<1>5. Turns'
  <2>1. /\ status' = "running" => ~Complete(tokens')
        /\ status' # "failed" /\ handed' = 0 /\ ~torn' /\ ~disabled'
    BY <1>1, <1>2, <1>3
  <2>2. Hybrid' = Hybrid /\ Method' = "mtp"
    BY <1>1, Held
  <2>3. tokens' # <<>> /\ Len(tokens') + gen'.left >= MaxTokens + 1
    BY <1>3
  <2> QED  BY <2>1, <2>2, <2>3 DEF Turns, Complete
<1>6. Log' /\ Known' = Known + 1
  BY <1>2, <1>3, LogGrows
<1>7. Synced'
  BY <1>6, Held
<1> QED  BY <1>4, <1>5, <1>6, <1>7

LEMMA FirstKeeps ==
  ASSUME SpecInv, MtpFirst
  PROVE  SpecInv'
<1> DEFINE g == [Round(next, MaxTokens) EXCEPT !.at = "begin"]
<1>1. /\ MtpTurn /\ gen = NoGen /\ gen' = g /\ Give(next) /\ next' = next /\ cache' = cache
      /\ UNCHANGED <<mode, stream, alone, disabled, handed, torn, faults>>
  BY DEF MtpFirst
<1>2. next \in Vocab /\ cache \in Caches /\ tokens \in Seq(Vocab) /\ MaxTokens \in Nat
  BY SpecAssumption DEF SpecInv, SpecTypes
<1>3. status = "running" /\ ~disabled
  BY <1>1 DEF MtpTurn
<1>4. ~torn /\ Known \in Nat
  BY <1>3, GenStands
<1>5. /\ cache.ssm = IF Hybrid THEN cache.rows ELSE <<>>
      /\ cache.tape = <<>> /\ cache.rows = Said(Known) /\ next = Token(Known + 1)
  BY <1>1, <1>3, <1>4, SyncedNone DEF SpecInv, Synced
<1>6. g = [at |-> "begin", y |-> next, left |-> MaxTokens]
  BY DEF Round
<1> HIDE DEF g
<1>7. g.at = "begin" /\ g.y = next /\ g.left = MaxTokens
  BY <1>6
<1>8. g \in Gens /\ g # NoGen
  <2>1. g \in Gens
    BY <1>2, <1>6 DEF Gens
  <2> QED  BY <1>7, <2>1, GenFacts
<1>9. Len(tokens) + 1 + g.left >= MaxTokens + 1
  BY <1>2, <1>7
<1>10. (Known + 1) - 1 = Known
  BY <1>4
<1>11. SyncedAt(Known + 1, cache, next, tokens', g)
  BY <1>5, <1>7, <1>10, SyncedBetween
<1> QED  BY <1>1, <1>2, <1>5, <1>7, <1>8, <1>9, <1>11, GenKeeps

LEMMA ParkedKeeps ==
  ASSUME SpecInv, MtpParked
  PROVE  SpecInv'
<1>1. /\ MtpTurn /\ gen.at \in {"begin", "round"} /\ gen.left > 0 /\ cache' = Fed(cache, <<gen.y>>)
  BY DEF MtpParked
<1>2. PICK t \in Predict(cache'.rows, cache'.ssm) : Yield(t) /\ gen' = Round(t, gen.left - 1)
  BY DEF MtpParked
<1>3. cache \in Caches /\ tokens \in Seq(Vocab) /\ gen \in Gens /\ stream \in Streams /\ MaxTokens \in Nat
  BY SpecAssumption DEF SpecInv, SpecTypes
<1>4. status = "running"
  BY <1>1 DEF MtpTurn
<1>5. gen # NoGen /\ gen.y \in Vocab /\ gen.left \in 0..MaxTokens
  BY <1>1, <1>3, GenFacts
<1>6. ~torn /\ Known = Len(tokens) /\ Known \in Nat
  BY <1>5, GenStands
<1>7. Known >= 1 /\ Len(tokens) + gen.left >= MaxTokens + 1
  BY <1>3, <1>5, <1>6 DEF SpecInv, Turns
<1>8. /\ cache.ssm = IF Hybrid THEN cache.rows ELSE <<>>
      /\ cache.tape = <<>> /\ cache.rows = Said(Known - 1) /\ gen.y = Token(Known)
  BY <1>1, <1>4, <1>6, SyncedBetween DEF SpecInv, Synced
<1>9. /\ cache' \in Caches /\ cache'.rows = cache.rows \o <<gen.y>> /\ cache'.tape = cache.tape
      /\ cache'.ssm = IF Hybrid THEN cache.ssm \o <<gen.y>> ELSE <<>>
  <2>1. <<gen.y>> \in Seq(Vocab) /\ <<gen.y>> # <<>> /\ Len(<<gen.y>>) = 1
    BY <1>5
  <2> QED  BY <1>1, <1>3, <2>1, FedFacts
<1>10. cache'.rows = Said(Known)
  <2>1. Known - 1 \in Nat /\ (Known - 1) + 1 = Known
    BY <1>6, <1>7
  <2> QED  BY <1>3, <1>8, <1>9, <2>1, SaidNext
<1>11. cache'.ssm = IF Hybrid THEN cache'.rows ELSE <<>>
  BY <1>8, <1>9
<1>12. t = Token(Known + 1) /\ t \in Vocab
  <2>1. Predict(Said(Known), cache'.ssm) = {Token(Known + 1)}
    BY <1>3, <1>6, <1>10, <1>11, PredictSaid
  <2>2. Known + 1 \in Nat \ {0}
    BY <1>6
  <2> QED  BY <1>2, <1>3, <1>10, <2>1, <2>2, TokenTyped
<1>13. gen.left - 1 \in 0..MaxTokens /\ Len(tokens) + 1 + (gen.left - 1) >= MaxTokens + 1
  BY <1>1, <1>3, <1>5, <1>7
<1>14. /\ gen' \in Gens /\ gen' # NoGen /\ gen'.at = "round" /\ gen'.y = t
       /\ gen'.left = gen.left - 1
  BY <1>2, <1>12, <1>13, RoundFacts
<1>15. SyncedAt(Known + 1, cache', t, tokens', gen')
  <2>1. (Known + 1) - 1 = Known
    BY <1>6
  <2>2. /\ gen'.at \in {"begin", "round"} /\ gen'.y = Token(Known + 1) /\ t = gen'.y
        /\ cache'.tape = <<>> /\ cache'.rows = Said((Known + 1) - 1)
    BY <1>8, <1>9, <1>10, <1>12, <1>14, <2>1
  <2> QED  BY ONLY <1>11, <2>2, SyncedBetween
<1>16. /\ Give(t) /\ next' = t
       /\ UNCHANGED <<mode, stream, alone, disabled, handed, torn, faults>>
  BY <1>2 DEF Yield
<1> QED  BY <1>1, <1>8, <1>9, <1>12, <1>13, <1>14, <1>15, <1>16, GenKeeps

\* What holds while accepted drafts are yielded.
LEMMA WalkFacts ==
  ASSUME SpecInv, MtpTurn, gen.at = "walk"
  PROVE  /\ gen # NoGen /\ gen.due \in Seq(Vocab) /\ gen.drop \in 0..MaxK
         /\ gen.verdict \in Vocab \cup {NoTok} /\ gen.left \in 1..MaxTokens
         /\ Len(tokens) + gen.left >= MaxTokens + 1
         /\ gen.drop + Len(gen.due) <= MaxK
         /\ Hybrid => gen.drop + Len(gen.due) <= Len(cache.tape)
         /\ ~Hybrid => cache.tape = <<>>
         /\ cache.ssm = IF Hybrid THEN cache.rows ELSE <<>>
         /\ Walking(Known, cache, tokens, gen)
         /\ ~Complete(tokens)
<1>1. gen \in Gens /\ MaxTokens \in Nat /\ Len(tokens) \in Nat /\ Len(tokens) <= MaxTokens
  BY SpecAssumption DEF SpecInv, SpecTypes
<1>2. status = "running"
  BY DEF MtpTurn
<1>3. /\ gen # NoGen /\ gen.due \in Seq(Vocab) /\ gen.drop \in 0..MaxK
      /\ gen.verdict \in Vocab \cup {NoTok} /\ gen.left \in 0..MaxTokens
  BY <1>1, GenFacts
<1>4. ~torn
  BY <1>3, GenStands
<1>5. /\ Len(tokens) + gen.left >= MaxTokens + 1
      /\ gen.drop + Len(gen.due) <= MaxK
      /\ Hybrid => gen.drop + Len(gen.due) <= Len(cache.tape)
      /\ ~Hybrid => cache.tape = <<>>
      /\ ~Complete(tokens)
  BY <1>2, <1>3 DEF SpecInv, Turns
<1>6. gen.left \in 1..MaxTokens
  BY <1>1, <1>3, <1>5
<1>7. /\ cache.ssm = IF Hybrid THEN cache.rows ELSE <<>>
      /\ Walking(Known, cache, tokens, gen)
  BY <1>2, <1>4 DEF SpecInv, Synced, SyncedAt
<1> QED  BY <1>3, <1>5, <1>6, <1>7

\* One accepted draft is yielded.
Yields(k, c, o, q, g, h) ==
  /\ k \in Nat /\ c \in Caches /\ q \in Seq(Vocab)
  /\ Walking(k, c, o, g) /\ g.due \in Seq(Vocab) /\ g.due # <<>>
  /\ Last(q) = Head(g.due) /\ h.due = Tail(g.due) /\ h.drop = g.drop
  /\ h.verdict = g.verdict /\ g.drop \in Nat

LEMMA WalkingOn ==
  ASSUME NEW k, NEW c, NEW o, NEW q, NEW g, NEW h, Yields(k, c, o, q, g, h)
  PROVE  Walking(k + 1, c, q, h) /\ Head(g.due) = Token(k + 1)
<1>0. /\ k \in Nat /\ c \in Caches /\ q \in Seq(Vocab)
      /\ Walking(k, c, o, g) /\ g.due \in Seq(Vocab) /\ g.due # <<>>
      /\ Last(q) = Head(g.due) /\ h.due = Tail(g.due) /\ h.drop = g.drop
      /\ h.verdict = g.verdict /\ g.drop \in Nat
  BY DEF Yields
<1> USE <1>0
<1> DEFINE d == g.due
           n == Len(h.due)
<1>1. /\ h.due \in Seq(Vocab) /\ n \in Nat /\ Len(d) = n + 1 /\ Head(d) = d[1]
      /\ \A i \in 1..n : h.due[i] = d[i + 1]
  OBVIOUS
<1> HIDE DEF n
<1>2. /\ Len(c.rows) >= k + Len(d) /\ \A i \in 1..k + Len(d) : c.rows[i] = Token(i)
      /\ \A i \in 1..Len(d) : d[i] = Token(k + i)
  BY DEF Walking
<1>3. k + Len(d) = (k + 1) + n
  BY <1>1
<1>4. \A i \in 1..n : h.due[i] = Token((k + 1) + i)
  <2> TAKE i \in 1..n
  <2>1. i + 1 \in 1..Len(d) /\ k + (i + 1) = (k + 1) + i
    BY <1>1
  <2>2. d[i + 1] = Token(k + (i + 1))
    BY <1>2, <2>1
  <2> QED  BY <1>1, <2>1, <2>2
<1>5. Head(d) = Token(k + 1)
  <2>1. 1 \in 1..Len(d)
    BY <1>1
  <2> QED  BY <1>1, <1>2, <2>1
<1>6. h.verdict = NoTok => IF h.due = <<>> THEN Last(q) = Eos ELSE Last(h.due) = Eos
  <2> SUFFICES ASSUME h.verdict = NoTok
               PROVE  IF h.due = <<>> THEN Last(q) = Eos ELSE Last(h.due) = Eos
    OBVIOUS
  <2>1. d[Len(d)] = Eos
    BY DEF Walking, Last
  <2>2. CASE n = 0
    BY <1>1, <2>1, <2>2 DEF n
  <2>3. CASE n # 0
    <3>1. n \in 1..n /\ n + 1 = Len(d)
      BY <1>1, <2>3
    <3>2. h.due[n] = Eos
      BY <1>1, <2>1, <3>1
    <3>3. h.due # <<>>
      <4>1. Len(<<>>) = 0
        OBVIOUS
      <4> QED  BY <2>3, <4>1, Zenon DEF n
    <3> QED  BY <3>2, <3>3 DEF Last, n
  <2> QED  BY <2>2, <2>3
<1>7. h.verdict # NoTok => /\ Len(c.rows) = (k + 1) + n + h.drop
                           /\ h.verdict = Token((k + 1) + n + 1)
  <2> SUFFICES ASSUME h.verdict # NoTok
               PROVE  /\ Len(c.rows) = (k + 1) + n + h.drop
                      /\ h.verdict = Token((k + 1) + n + 1)
    OBVIOUS
  <2>1. Len(c.rows) = k + Len(d) + g.drop /\ g.verdict = Token(k + Len(d) + 1)
    BY DEF Walking
  <2>2. k + Len(d) + g.drop = (k + 1) + n + g.drop /\ k + Len(d) + 1 = (k + 1) + n + 1
    <3> DEFINE l == Len(d)
               x == g.drop
    <3>1. k \in Nat /\ n \in Nat /\ x \in Nat /\ l = n + 1
      BY <1>1
    <3> HIDE DEF l, x
    <3>2. k + l + x = (k + 1) + n + x /\ k + l + 1 = (k + 1) + n + 1
      BY ONLY <3>1
    <3> QED  BY <3>2 DEF l, x
  <2> QED  BY <2>1, <2>2
<1>8. Hybrid => /\ Len(c.tape) < Len(c.rows)
                /\ \A i \in 1..Len(c.tape) :
                     c.tape[i] = SubSeq(c.rows, 1, Len(c.rows) - Len(c.tape) - 1 + i)
  BY DEF Walking
<1>9. /\ Len(c.rows) >= (k + 1) + n
      /\ \A i \in 1..(k + 1) + n : c.rows[i] = Token(i)
  BY <1>2, <1>3
<1> QED  BY <1>4, <1>5, <1>6, <1>7, <1>8, <1>9 DEF Walking, n

LEMMA WalkKeeps ==
  ASSUME SpecInv, MtpWalk
  PROVE  SpecInv'
<1> DEFINE t == Head(gen.due)
<1>1. /\ MtpTurn /\ gen.at = "walk" /\ gen.due # <<>> /\ Yield(t) /\ cache' = cache
      /\ gen' = [gen EXCEPT !.due = Tail(@), !.left = @ - 1]
  BY DEF MtpWalk
<1>2. /\ cache \in Caches /\ tokens \in Seq(Vocab) /\ gen \in Gens /\ MaxTokens \in Nat /\ MaxK \in Nat
  BY SpecAssumption DEF SpecInv, SpecTypes
<1>3. /\ gen # NoGen /\ gen.due \in Seq(Vocab) /\ gen.drop \in 0..MaxK
      /\ gen.verdict \in Vocab \cup {NoTok} /\ gen.left \in 1..MaxTokens
      /\ Len(tokens) + gen.left >= MaxTokens + 1
      /\ gen.drop + Len(gen.due) <= MaxK
      /\ Hybrid => gen.drop + Len(gen.due) <= Len(cache.tape)
      /\ ~Hybrid => cache.tape = <<>>
      /\ cache.ssm = IF Hybrid THEN cache.rows ELSE <<>>
      /\ Walking(Known, cache, tokens, gen)
  BY <1>1, WalkFacts
<1>4. Known \in Nat /\ Known = Len(tokens)
  BY <1>3, GenStands
<1>5. t \in Vocab /\ Tail(gen.due) \in Seq(Vocab) /\ Len(gen.due) = Len(Tail(gen.due)) + 1
      /\ Len(Tail(gen.due)) \in Nat
  BY <1>1, <1>3
<1>6. gen' = [at |-> "walk", due |-> Tail(gen.due), drop |-> gen.drop, verdict |-> gen.verdict,
              left |-> gen.left - 1]
  <2>1. gen = [at |-> "walk", due |-> gen.due, drop |-> gen.drop, verdict |-> gen.verdict,
               left |-> gen.left]
    <3>1. gen \in [at : {"walk"}, due : Seq(Vocab), drop : 0..MaxK, verdict : Vocab \cup {NoTok},
                   left : 0..MaxTokens]
      <4>1. ~(gen \in [at : {"begin", "round"}, y : Vocab, left : 0..MaxTokens])
        BY <1>1
      <4> QED  BY <1>2, <1>3, <4>1 DEF Gens
    <3> QED  BY <3>1
  <2> DEFINE a == Tail(gen.due)
             b == gen.left - 1
             f == [gen EXCEPT !.due = a]
  <2>2. gen' = [f EXCEPT !.left = b]
    BY <1>1, <2>1
  <2> HIDE DEF a, b
  <2>3. f = [at |-> "walk", due |-> a, drop |-> gen.drop, verdict |-> gen.verdict, left |-> gen.left]
    BY <2>1
  <2> HIDE DEF f
  <2>4. [f EXCEPT !.left = b] = [at |-> "walk", due |-> a, drop |-> gen.drop,
                                 verdict |-> gen.verdict, left |-> b]
    BY <2>3
  <2> QED  BY <2>2, <2>4 DEF a, b
<1>7. /\ gen'.at = "walk" /\ gen'.due = Tail(gen.due) /\ gen'.drop = gen.drop
      /\ gen'.verdict = gen.verdict /\ gen'.left = gen.left - 1
  BY <1>6
<1>8. gen' \in Gens /\ gen' # NoGen
  <2>1. gen.left - 1 \in 0..MaxTokens
    BY <1>2, <1>3
  <2>2. gen' \in Gens
    BY <1>3, <1>5, <1>6, <2>1 DEF Gens
  <2> QED  BY <1>7, <2>2, GenFacts
<1>9. /\ Give(t) /\ next' = t
      /\ UNCHANGED <<mode, stream, alone, disabled, handed, torn, faults>>
  BY <1>1 DEF Yield
<1>10. tokens' \in Seq(Vocab) /\ Last(tokens') = t
  <2>1. status = "running"
    BY <1>1 DEF MtpTurn
  <2> QED  BY <1>5, <1>9, <2>1, GiveFacts DEF SpecInv
<1>11. Walking(Known + 1, cache, tokens', gen') /\ t = Token(Known + 1)
  <2>1. gen.drop \in Nat
    BY <1>2, <1>3
  <2>2. /\ Known \in Nat /\ cache \in Caches /\ tokens' \in Seq(Vocab)
        /\ Walking(Known, cache, tokens, gen) /\ gen.due \in Seq(Vocab) /\ gen.due # <<>>
        /\ Last(tokens') = Head(gen.due) /\ gen'.due = Tail(gen.due) /\ gen'.drop = gen.drop
        /\ gen'.verdict = gen.verdict
    BY <1>1, <1>2, <1>3, <1>4, <1>7, <1>10
  <2>3. Yields(Known, cache, tokens, tokens', gen, gen')
    BY <2>1, <2>2, Zenon DEF Yields
  <2>4. Walking(Known + 1, cache, tokens', gen') /\ Head(gen.due) = Token(Known + 1)
    BY <2>3, WalkingOn, Zenon
  <2> QED  BY <2>4
<1>12. SyncedAt(Known + 1, cache', t, tokens', gen')
  BY <1>1, <1>3, <1>7, <1>11 DEF SyncedAt
<1>13. Len(tokens) + 1 + gen'.left >= MaxTokens + 1
  BY <1>2, <1>3, <1>7
<1>14. /\ gen'.drop + Len(gen'.due) <= MaxK
       /\ Hybrid => gen'.drop + Len(gen'.due) <= Len(cache'.tape)
  <2>1. gen.drop \in Int /\ gen.drop + Len(gen'.due) <= gen.drop + Len(gen.due)
    BY <1>2, <1>3, <1>5, <1>7
  <2>2. Len(cache.tape) \in Nat /\ Len(gen.due) \in Nat /\ Len(gen'.due) \in Nat
    BY <1>2, <1>3, <1>5, <1>7, SMTT(20) DEF Caches
  <2> DEFINE x == gen'.drop + Len(gen'.due)
             y == gen.drop + Len(gen.due)
             l == Len(cache.tape)
  <2>3. x \in Int /\ y \in Int
    BY <1>7, <2>1, <2>2
  <2>4. /\ l \in Int /\ MaxK \in Int
        /\ x <= y /\ y <= MaxK /\ (Hybrid => y <= l)
    BY <1>2, <1>3, <1>7, <2>1, <2>2
  <2>5. cache' = cache
    BY <1>1
  <2>6. x <= MaxK /\ (Hybrid => x <= l)
    <3> HIDE DEF x, y, l
    <3> QED  BY ONLY <2>3, <2>4
  <2> QED  BY <2>5, <2>6
<1> HIDE DEF t
<1> QED  BY <1>1, <1>2, <1>3, <1>5, <1>8, <1>9, <1>11, <1>12, <1>13, <1>14, GenKeeps DEF t

\* After the accepted drafts.
LEMMA SettleKeeps ==
  ASSUME SpecInv, MtpSettle
  PROVE  SpecInv'
<1> DEFINE t == gen.verdict
<1>1. /\ MtpTurn /\ gen.at = "walk" /\ gen.due = <<>> /\ t # NoTok /\ Yield(t)
      /\ cache' = IF gen.drop = 0 THEN Cleared(cache) ELSE RolledBack(cache, gen.drop)
      /\ gen' = Round(t, gen.left - 1)
  BY DEF MtpSettle
<1>2. /\ cache \in Caches /\ tokens \in Seq(Vocab) /\ stream \in Streams
      /\ MaxTokens \in Nat /\ MaxK \in Nat
  BY SpecAssumption DEF SpecInv, SpecTypes
<1>3. /\ gen # NoGen /\ gen.drop \in 0..MaxK /\ t \in Vocab /\ gen.left \in 1..MaxTokens
      /\ Len(tokens) + gen.left >= MaxTokens + 1
      /\ Hybrid => gen.drop + Len(gen.due) <= Len(cache.tape)
      /\ ~Hybrid => cache.tape = <<>>
      /\ cache.ssm = IF Hybrid THEN cache.rows ELSE <<>>
      /\ Walking(Known, cache, tokens, gen)
  BY <1>1, WalkFacts
<1>4. Known \in Nat /\ Len(gen.due) = 0 /\ gen.drop \in Nat
  BY <1>1, <1>2, <1>3, GenStands
<1>5. /\ cache.rows \in Seq(Vocab) /\ Len(cache.rows) \in Nat /\ Len(cache.tape) \in Nat
  BY <1>2 DEF Caches
<1>6. /\ Len(cache.rows) = Known + gen.drop
      /\ \A i \in 1..Known : cache.rows[i] = Token(i)
      /\ t = Token(Known + 1)
  <2>1. /\ Len(cache.rows) = Known + Len(gen.due) + gen.drop
        /\ \A i \in 1..Known + Len(gen.due) : cache.rows[i] = Token(i)
        /\ t = Token(Known + Len(gen.due) + 1)
    BY <1>1, <1>3 DEF Walking
  <2>2. Known + Len(gen.due) = Known
    BY <1>4
  <2> QED  BY <2>1, <2>2
<1>7. SubSeq(cache.rows, 1, Known) = Said(Known)
  <2>1. Known <= Len(cache.rows)
    BY <1>4, <1>6
  <2> QED  BY <1>2, <1>4, <1>5, <1>6, <2>1, SaidPart
<1>8. /\ cache' \in Caches /\ cache'.tape = <<>> /\ cache'.rows = Said(Known)
      /\ cache'.ssm = IF Hybrid THEN cache'.rows ELSE <<>>
  <2>1. CASE gen.drop = 0
    <3>1. /\ cache' \in Caches /\ cache'.rows = cache.rows /\ cache'.ssm = cache.ssm
          /\ cache'.tape = <<>>
      BY <1>1, <1>2, <2>1, ClearedFacts
    <3>2. Len(cache.rows) = Known
      BY <1>4, <1>6, <2>1
    <3>3. cache.rows = Said(Known)
      <4>1. SubSeq(cache.rows, 1, Len(cache.rows)) = cache.rows
        BY <1>5
      <4> QED  BY <1>7, <3>2, <4>1
    <3> QED  BY <1>3, <3>1, <3>3
  <2>2. CASE gen.drop # 0
    <3>1. cache.tape # <<>> => gen.drop \in 1..Len(cache.tape)
      <4>1. cache.tape # <<>> => Hybrid
        BY <1>3
      <4> QED  BY <1>3, <1>4, <1>5, <2>2, <4>1
    <3>2. gen.drop <= Len(cache.rows) /\ Len(cache.rows) - gen.drop = Known
      BY <1>4, <1>6
    <3>3. /\ cache' \in Caches /\ cache'.tape = <<>>
          /\ cache'.rows = SubSeq(cache.rows, 1, Len(cache.rows) - gen.drop)
          /\ cache'.ssm = IF cache.tape # <<>> THEN cache.tape[Len(cache.tape) - gen.drop + 1]
                          ELSE cache.ssm
      BY <1>1, <1>2, <1>4, <2>2, <3>1, <3>2, RolledFacts
    <3>4. cache'.rows = Said(Known)
      BY <1>7, <3>2, <3>3
    <3>5. ASSUME Hybrid  PROVE cache'.ssm = cache'.rows
      <4>1. gen.drop <= Len(cache.tape) /\ Len(cache.tape) # 0
        BY <1>3, <1>4, <1>5, <2>2, <3>5
      <4>2. cache.tape # <<>>
        <5>1. Len(<<>>) = 0
          OBVIOUS
        <5> QED  BY <4>1, <5>1, Zenon
      <4> DEFINE i == Len(cache.tape) - gen.drop + 1
      <4>3. /\ i \in 1..Len(cache.tape)
            /\ Len(cache.rows) - Len(cache.tape) - 1 + i = Len(cache.rows) - gen.drop
        <5>1. \A a, b, d \in Nat : d # 0 /\ d <= a =>
                a - d + 1 \in 1..a /\ b - a - 1 + (a - d + 1) = b - d
          OBVIOUS
        <5> QED  BY <1>4, <1>5, <2>2, <4>1, <5>1, Zenon
      <4>4. cache.tape[i] = SubSeq(cache.rows, 1, Len(cache.rows) - Len(cache.tape) - 1 + i)
        <5> HIDE DEF i
        <5> QED  BY <1>3, <3>5, <4>3 DEF Walking
      <4>5. cache.tape[i] = SubSeq(cache.rows, 1, Len(cache.rows) - gen.drop)
        BY <4>3, <4>4, Zenon
      <4> QED  BY <3>3, <4>2, <4>5
    <3>6. ~Hybrid => cache'.ssm = <<>>
      BY <1>3, <3>3
    <3> QED  BY <3>3, <3>4, <3>5, <3>6
  <2> QED  BY <2>1, <2>2
<1>9. gen.left - 1 \in 0..MaxTokens /\ Len(tokens) + 1 + (gen.left - 1) >= MaxTokens + 1
  BY <1>2, <1>3, SMTT(20)
<1>10. /\ gen' \in Gens /\ gen' # NoGen /\ gen'.at = "round" /\ gen'.y = t
       /\ gen'.left = gen.left - 1
  BY <1>1, <1>3, <1>9, RoundFacts
<1>11. SyncedAt(Known + 1, cache', t, tokens', gen')
  <2>1. (Known + 1) - 1 = Known
    BY <1>4
  <2>2. /\ gen'.at \in {"begin", "round"} /\ gen'.y = Token(Known + 1) /\ t = gen'.y
        /\ cache'.tape = <<>> /\ cache'.rows = Said((Known + 1) - 1)
        /\ cache'.ssm = IF Hybrid THEN cache'.rows ELSE <<>>
    BY <1>6, <1>8, <1>10, <2>1
  <2> QED  BY ONLY <2>2, SyncedBetween
<1>12. /\ Give(t) /\ next' = t
       /\ UNCHANGED <<mode, stream, alone, disabled, handed, torn, faults>>
  BY <1>1 DEF Yield
<1> HIDE DEF t
<1> QED  BY <1>1, <1>3, <1>6, <1>8, <1>9, <1>10, <1>11, <1>12, GenKeeps

\* The generator raises; it is never exhausted while the request goes on.
LEMMA FailsKeeps ==
  ASSUME SpecInv, MtpFails
  PROVE  SpecInv' /\ faults' > 0
<1>1. /\ MtpTurn /\ status' = "failed" /\ gen' = NoGen /\ disabled' = TRUE
      /\ UNCHANGED <<mode, stream, cache, next, tokens, alone, handed, torn>>
      /\ \/ Exhausted
         \/ gen.at \in {"begin", "round"} /\ faults < MaxFaults /\ faults' = faults + 1
  BY DEF MtpFails
<1>2. ~Exhausted
  <2> SUFFICES ASSUME Exhausted  PROVE FALSE
    OBVIOUS
  <2>1. gen # NoGen /\ gen \in Gens /\ Len(tokens) \in Nat /\ Len(tokens) <= MaxTokens
        /\ MaxTokens \in Nat
    BY SpecAssumption DEF SpecInv, SpecTypes, Exhausted
  <2>2. gen.left \in 0..MaxTokens /\ Len(tokens) + gen.left >= MaxTokens + 1 /\ tokens # <<>>
    BY <2>1, GenFacts DEF SpecInv, Turns
  <2>3. gen.left # 0
    BY <2>1, <2>2
  <2>4. gen.at = "walk" /\ gen.due = <<>> /\ gen.verdict = NoTok
    BY <2>3 DEF Exhausted
  <2>5. Walking(Known, cache, tokens, gen) /\ ~Complete(tokens)
    BY <1>1, <2>4, WalkFacts
  <2>6. Last(tokens) = Eos
    BY <2>4, <2>5 DEF Walking
  <2> QED  BY <2>2, <2>5, <2>6 DEF Complete
<1>3. /\ gen.at \in {"begin", "round"} /\ faults' = faults + 1 /\ faults' \in 0..MaxFaults
      /\ faults' > 0
  <2>1. faults \in 0..MaxFaults /\ MaxFaults \in Nat
    BY SpecAssumption DEF SpecInv, SpecTypes
  <2> QED  BY <1>1, <1>2, <2>1
<1>4. SpecTypes'
  <2>1. disabled' \in BOOLEAN /\ gen' \in Gens
    BY <1>1 DEF Gens
  <2>2. /\ mode' \in Modes /\ stream' \in Streams /\ next' \in Vocab
        /\ cache' \in Caches
        /\ tokens' \in Seq(Vocab) /\ Len(tokens') <= MaxTokens /\ handed' \in 0..Len(tokens')
        /\ alone' \in BOOLEAN /\ torn' \in BOOLEAN
    BY <1>1 DEF SpecInv, SpecTypes
  <2> QED  BY <1>1, <1>3, <2>1, <2>2 DEF SpecTypes, Gens, Caches
<1>5. Turns'
  <2>1. gen' = NoGen /\ gen'.at # "walk"
    BY <1>1 DEF NoGen
  <2>2. Hybrid' = Hybrid /\ Method' = Method
    BY <1>1, Held
  <2>3. /\ torn' => handed' # 0
        /\ handed' # 0 => gen' = NoGen /\ disabled' /\ handed' >= 2 /\ Method' = "mtp"
        /\ ~Hybrid' => cache'.tape = <<>>
    BY <1>1, <2>2 DEF SpecInv, Turns
  <2> QED  BY <1>1, <1>3, <2>1, <2>3 DEF Turns
<1>6. Log'
  <2>1. Own' = Own /\ Known' = Known
    BY <1>1 DEF Own, Known
  <2> QED  BY <1>1, <2>1, Held DEF SpecInv, Log
<1>7. Synced'
  BY <1>1, Held
<1> QED  BY <1>3, <1>4, <1>5, <1>6, <1>7 DEF SpecInv

LEMMA CompanyKeeps ==
  ASSUME SpecInv, Company
  PROVE  SpecInv'
<1>1. /\ alone' = ~alone
      /\ UNCHANGED <<mode, stream, cache, next, tokens, status, gen, disabled, handed, torn, faults>>
  BY DEF Company
<1>2. alone' \in BOOLEAN
  BY <1>1 DEF SpecInv, SpecTypes
<1>3. SpecTypes'
  BY <1>1, <1>2 DEF SpecInv, SpecTypes, Gens, Caches
<1>4. Own' = Own /\ Known' = Known
  BY <1>1 DEF Own, Known
<1>5. Turns'
  BY <1>1 DEF SpecInv, Turns, Complete, Method, Hybrid
<1>6. Log' /\ Synced'
  BY <1>1, <1>4, Held DEF SpecInv, Log, Synced
<1> QED  BY <1>3, <1>5, <1>6 DEF SpecInv

-----------------------------------------------------------------------------
(* Steps that verify drafts.                                               *)

LEMMA SubSeqOfEnd ==
  ASSUME NEW s \in Seq(Vocab), NEW t \in Seq(Vocab), NEW k \in Nat, k = Len(s),
         NEW i \in Nat, i <= Len(t)
  PROVE  SubSeq(s \o t, 1, k + i) = s \o SubSeq(t, 1, i)
<1> DEFINE a == SubSeq(s \o t, 1, k + i)
           b == SubSeq(t, 1, i)
<1>1. /\ s \o t \in Seq(Vocab) /\ Len(s \o t) = Len(s) + Len(t)
      /\ \A j \in 1..Len(s) : (s \o t)[j] = s[j]
      /\ \A j \in 1..Len(t) : (s \o t)[Len(s) + j] = t[j]
  BY ConcatFacts
<1>2. k + i \in Nat /\ k + i <= Len(s \o t)
  BY <1>1
<1>3. a \in Seq(Vocab) /\ Len(a) = k + i /\ \A j \in 1..k + i : a[j] = (s \o t)[j]
  BY <1>1, <1>2, SubSeqFacts
<1>4. b \in Seq(Vocab) /\ Len(b) = i /\ \A j \in 1..i : b[j] = t[j]
  BY SubSeqFacts
<1> HIDE DEF a, b
<1>5. /\ s \o b \in Seq(Vocab) /\ Len(s \o b) = Len(s) + Len(b)
      /\ \A j \in 1..Len(s) : (s \o b)[j] = s[j]
      /\ \A j \in 1..Len(b) : (s \o b)[Len(s) + j] = b[j]
  <2>1. s \in Seq(Vocab) /\ b \in Seq(Vocab)
    BY <1>4
  <2> QED  BY ONLY <2>1, ConcatFacts
<1>6. ASSUME NEW j \in 1..k + i  PROVE a[j] = (s \o b)[j]
  <2>1. CASE j <= k
    <3>1. j \in 1..Len(s)
      BY <2>1
    <3> QED  BY <1>1, <1>3, <1>5, <3>1
  <2>2. CASE ~(j <= k)
    <3>1. j - k \in 1..i /\ Len(s) + (j - k) = j /\ j - k \in 1..Len(t)
      BY <1>1, <2>2
    <3>2. (s \o t)[Len(s) + (j - k)] = t[j - k] /\ (s \o b)[Len(s) + (j - k)] = b[j - k]
      BY <1>1, <1>4, <1>5, <3>1
    <3> QED  BY <1>3, <1>4, <3>1, <3>2
  <2> QED  BY <2>1, <2>2
<1>7. Len(a) = Len(s \o b)
  BY <1>3, <1>4, <1>5
<1>8. a = s \o b
  BY <1>3, <1>5, <1>6, <1>7, SameSeq
<1> QED  BY <1>8 DEF a, b

\* A forward over the token due and some drafts, in caches that hold k tokens
\* of the stream.
LEMMA VerifyFacts ==
  ASSUME SpecTypes, NEW k \in Nat, cache.rows = Said(k),
         cache.ssm = IF Hybrid THEN cache.rows ELSE <<>>,
         NEW y, y = Token(k + 1), NEW drafts \in Drafts
  PROVE  LET fed == Fed(cache, <<y>> \o drafts)
         IN  /\ fed \in Caches /\ fed.rows = Said(k + 1) \o drafts
             /\ Len(fed.rows) = k + 1 + Len(drafts)
             /\ fed.ssm = IF Hybrid THEN fed.rows ELSE <<>>
             /\ ~Hybrid => fed.tape = cache.tape
             /\ Hybrid => /\ Len(fed.tape) = Len(drafts)
                          /\ \A i \in 1..Len(drafts) : fed.tape[i] = SubSeq(fed.rows, 1, k + i)
<1> DEFINE block == <<y>> \o drafts
           fed == Fed(cache, block)
           r == Said(k) \o block
<1>1. stream \in Streams /\ cache \in Caches /\ k + 1 \in Nat
  BY DEF SpecTypes
<1>2. drafts \in Seq(Vocab) /\ Len(drafts) \in Nat /\ Len(drafts) >= 1
  BY DraftFacts, SpecAssumption
<1>3. y \in Vocab
  BY <1>1, TokenTyped
<1>4. block \in Seq(Vocab) /\ Len(block) = Len(drafts) + 1
  BY <1>2, <1>3, BlockFacts
<1>5. Said(k) \in Seq(Vocab) /\ Len(Said(k)) = k /\ Said(k + 1) \in Seq(Vocab) /\ Len(Said(k + 1)) = k + 1
  BY <1>1, SaidFacts
<1>6. r = Said(k + 1) \o drafts
  <2>1. Said(k) \o <<y>> = Said(k + 1)
    BY <1>1, SaidNext
  <2>2. <<y>> \in Seq(Vocab)
    BY <1>3
  <2>3. Said(k) \o (<<y>> \o drafts) = (Said(k) \o <<y>>) \o drafts
    <3>1. Said(k) \in Seq(Vocab) /\ drafts \in Seq(Vocab)
      BY <1>2, <1>5
    <3> QED  BY ONLY <2>2, <3>1, ConcatAssociative
  <2> QED  BY <2>1, <2>3
<1> HIDE DEF block
<1>7. block # <<>> /\ Len(block) > 1 /\ Len(block) - 1 = Len(drafts)
  BY <1>2, <1>4
<1>8. /\ fed \in Caches /\ fed.rows = cache.rows \o block
      /\ fed.ssm = IF Hybrid THEN cache.ssm \o block ELSE <<>>
      /\ ~Hybrid => fed.tape = cache.tape
      /\ Hybrid =>
           /\ Len(fed.tape) = Len(block) - 1
           /\ \A i \in 1..Len(block) - 1 : fed.tape[i] = cache.ssm \o SubSeq(block, 1, i)
  BY <1>1, <1>4, <1>7, FedFacts
<1> HIDE DEF fed
<1>9. fed.rows = r /\ (Hybrid => fed.ssm = r) /\ (~Hybrid => fed.ssm = <<>>)
  BY <1>8
<1>10. ASSUME Hybrid, NEW i \in 1..Len(drafts)
       PROVE  fed.tape[i] = SubSeq(fed.rows, 1, k + i)
  <2>1. i \in Nat /\ i <= Len(block)
    BY <1>2, <1>4
  <2>2. SubSeq(Said(k) \o block, 1, k + i) = Said(k) \o SubSeq(block, 1, i)
    BY <1>4, <1>5, <2>1, SubSeqOfEnd
  <2>3. fed.tape[i] = Said(k) \o SubSeq(block, 1, i)
    BY <1>7, <1>8, <1>10
  <2> QED  BY <1>9, <2>2, <2>3
<1>11. Len(fed.rows) = k + 1 + Len(drafts)
  <2>1. Len(Said(k + 1) \o drafts) = Len(Said(k + 1)) + Len(drafts)
    BY <1>2, <1>5
  <2> QED  BY <1>5, <1>6, <1>9, <2>1
<1>12. Hybrid => Len(fed.tape) = Len(drafts)
  BY <1>7, <1>8
<1> HIDE DEF r
<1> QED  BY <1>6, <1>8, <1>9, <1>10, <1>11, <1>12 DEF fed, block

\* What a verify forward accepts, in the caches of VerifyFacts.
Accepting(k, y, drafts, n, t) ==
  /\ SpecTypes /\ k \in Nat /\ cache.rows = Said(k)
  /\ cache.ssm = IF Hybrid THEN cache.rows ELSE <<>>
  /\ y = Token(k + 1) /\ drafts \in Drafts /\ n \in Nat /\ n <= Len(drafts)
  /\ Verdict(y, drafts, n, t)

Accepted(k, drafts, n, t) ==
  /\ SubSeq(drafts, 1, n) \in Seq(Vocab) /\ Len(SubSeq(drafts, 1, n)) = n
  /\ \A i \in 1..n : SubSeq(drafts, 1, n)[i] = Token(k + 1 + i)
  /\ t = Token(k + n + 2)
  /\ \A i \in 1..k + 1 + n : (Said(k + 1) \o drafts)[i] = Token(i)

LEMMA AcceptedFacts ==
  ASSUME NEW k, NEW y, NEW drafts, NEW n, NEW t, Accepting(k, y, drafts, n, t)
  PROVE  Accepted(k, drafts, n, t)
<1>0. /\ SpecTypes /\ k \in Nat /\ cache.rows = Said(k)
      /\ cache.ssm = IF Hybrid THEN cache.rows ELSE <<>>
      /\ y = Token(k + 1) /\ drafts \in Drafts /\ n \in Nat /\ n <= Len(drafts)
      /\ Verdict(y, drafts, n, t)
  BY DEF Accepting
<1> USE <1>0
<1>1. stream \in Streams /\ k + 1 \in Nat
  BY DEF SpecTypes
<1>2. drafts \in Seq(Vocab) /\ Len(drafts) \in Nat
  BY DraftFacts
<1>3. Hybrid => cache.ssm = cache.rows
  OBVIOUS
<1>4. (\A i \in 1..n : drafts[i] = Token(k + 1 + i)) /\ t = Token(k + n + 2)
  <2>1. /\ stream \in Streams /\ k \in Nat /\ cache.rows = Said(k) /\ y = Token(k + 1)
        /\ drafts \in Seq(Vocab) /\ n \in Nat /\ n <= Len(drafts) /\ Verdict(y, drafts, n, t)
    BY <1>1, <1>2
  <2> QED  BY ONLY <1>3, <2>1, VerdictSaid
<1>5. /\ SubSeq(drafts, 1, n) \in Seq(Vocab) /\ Len(SubSeq(drafts, 1, n)) = n
      /\ \A i \in 1..n : SubSeq(drafts, 1, n)[i] = drafts[i]
  BY <1>2, SubSeqFacts
<1>6. /\ Said(k + 1) \in Seq(Vocab) /\ Len(Said(k + 1)) = k + 1
      /\ \A i \in 1..k + 1 : Said(k + 1)[i] = Token(i)
  BY <1>1, SaidFacts
<1>7. ASSUME NEW i \in 1..k + 1 + n  PROVE (Said(k + 1) \o drafts)[i] = Token(i)
  <2> DEFINE s == Said(k + 1)
  <2> HIDE DEF s
  <2>1. s \in Seq(Vocab) /\ drafts \in Seq(Vocab)
    BY <1>2, <1>6 DEF s
  <2>2. /\ \A j \in 1..Len(s) : (s \o drafts)[j] = s[j]
        /\ \A j \in 1..Len(drafts) : (s \o drafts)[Len(s) + j] = drafts[j]
    BY ONLY <2>1, ConcatFacts
  <2>3. Len(s) = k + 1 /\ \A j \in 1..k + 1 : s[j] = Token(j)
    BY <1>6 DEF s
  <2>4. CASE i <= k + 1
    <3>1. i \in 1..k + 1 /\ i \in 1..Len(s)
      BY <2>3, <2>4
    <3>2. (s \o drafts)[i] = Token(i)
      BY <2>2, <2>3, <3>1
    <3> QED  BY <3>2 DEF s
  <2>5. CASE ~(i <= k + 1)
    <3>1. i - (k + 1) \in 1..n /\ i - (k + 1) \in 1..Len(drafts)
          /\ Len(s) + (i - (k + 1)) = i /\ k + 1 + (i - (k + 1)) = i
      BY <1>2, <2>3, <2>5
    <3>2. (s \o drafts)[Len(s) + (i - (k + 1))] = drafts[i - (k + 1)]
      BY <2>2, <3>1
    <3>3. drafts[i - (k + 1)] = Token(k + 1 + (i - (k + 1)))
      BY <1>4, <3>1
    <3>4. (s \o drafts)[i] = Token(i)
      BY <3>1, <3>2, <3>3
    <3> QED  BY <3>4 DEF s
  <2>6. (s \o drafts)[i] = Token(i)
    BY <2>4, <2>5 DEF s
  <2> QED  BY <2>6 DEF s
<1> QED  BY <1>4, <1>5, <1>7, Zenon DEF Accepted

LEMMA VerifyKeeps ==
  ASSUME SpecInv, MtpVerify
  PROVE  SpecInv'
<1>1. MtpTurn /\ gen.at = "round" /\ gen.left > 0
  BY DEF MtpVerify
<1>2. PICK drafts \in Drafts, n \in 0..MaxK, t \in Vocab :
        /\ n <= Len(drafts) /\ Verdict(gen.y, drafts, n, t)
        /\ LET fed   == Fed(cache, <<gen.y>> \o drafts)
               due   == UpToEos(SubSeq(drafts, 1, n))
           IN IF n = 0
              THEN /\ cache' = RolledBack(fed, Len(drafts))
                   /\ Yield(t) /\ gen' = Round(t, gen.left - 1)
              ELSE /\ cache' = fed /\ Yield(Head(due))
                   /\ gen' = [at |-> "walk", due |-> Tail(due), drop |-> Len(drafts) - n,
                              verdict |-> IF Last(due) = Eos THEN NoTok ELSE t,
                              left |-> gen.left - 1]
  BY DEF MtpVerify
<1> DEFINE k   == Known - 1
           fed == Fed(cache, <<gen.y>> \o drafts)
           acc == SubSeq(drafts, 1, n)
           due == UpToEos(acc)
<1>3. /\ SpecTypes /\ cache \in Caches /\ tokens \in Seq(Vocab) /\ gen \in Gens /\ stream \in Streams
      /\ MaxTokens \in Nat /\ MaxK \in Nat /\ NoTok \notin Vocab
  BY SpecAssumption DEF SpecInv, SpecTypes
<1>4. status = "running"
  BY <1>1 DEF MtpTurn
<1>5. gen # NoGen /\ gen.y \in Vocab /\ gen.left \in 0..MaxTokens
  BY <1>1, <1>3, GenFacts
<1>6. ~torn /\ Known = Len(tokens) /\ Known \in Nat
  BY <1>5, GenStands
<1>7. /\ Known >= 1 /\ Len(tokens) + gen.left >= MaxTokens + 1
      /\ ~Hybrid => cache.tape = <<>>
  BY <1>3, <1>5, <1>6 DEF SpecInv, Turns
<1>8. /\ cache.ssm = IF Hybrid THEN cache.rows ELSE <<>>
      /\ cache.rows = Said(k) /\ gen.y = Token(Known)
  BY <1>1, <1>4, <1>6, SyncedBetween DEF SpecInv, Synced
<1>9. k \in Nat /\ k + 1 = Known
  BY <1>6, <1>7
<1> HIDE DEF k
<1>10. /\ fed \in Caches /\ fed.rows = Said(k + 1) \o drafts
       /\ Len(fed.rows) = k + 1 + Len(drafts)
       /\ fed.ssm = IF Hybrid THEN fed.rows ELSE <<>>
       /\ ~Hybrid => fed.tape = cache.tape
       /\ Hybrid => /\ Len(fed.tape) = Len(drafts)
                    /\ \A i \in 1..Len(drafts) : fed.tape[i] = SubSeq(fed.rows, 1, k + i)
  BY <1>3, <1>8, <1>9, VerifyFacts
<1>11. n \in Nat /\ drafts \in Seq(Vocab) /\ Len(drafts) \in 1..MaxK /\ Len(drafts) \in Nat
  BY <1>3, DraftFacts
<1>12. /\ acc \in Seq(Vocab) /\ Len(acc) = n
       /\ \A i \in 1..n : acc[i] = Token(k + 1 + i)
       /\ t = Token(k + n + 2)
       /\ \A i \in 1..k + 1 + n : fed.rows[i] = Token(i)
  <2>1. /\ SpecTypes /\ k \in Nat /\ cache.rows = Said(k)
        /\ gen.y = Token(k + 1) /\ drafts \in Drafts /\ n \in Nat /\ n <= Len(drafts)
        /\ Verdict(gen.y, drafts, n, t)
    BY <1>2, <1>3, <1>8, <1>9, <1>11
  <2>2. cache.ssm = IF Hybrid THEN cache.rows ELSE <<>>
    BY <1>8
  <2>3. /\ acc \in Seq(Vocab) /\ Len(acc) = n
        /\ \A i \in 1..n : acc[i] = Token(k + 1 + i)
        /\ t = Token(k + n + 2)
        /\ \A i \in 1..k + 1 + n : (Said(k + 1) \o drafts)[i] = Token(i)
    <3>1. Accepting(k, gen.y, drafts, n, t)
      BY <2>1, <2>2 DEF Accepting
    <3>2. Accepted(k, drafts, n, t)
      BY <3>1, AcceptedFacts, Zenon
    <3> QED  BY <3>2 DEF Accepted
  <2>4. fed.rows = Said(k + 1) \o drafts
    BY <1>10
  <2> HIDE DEF fed, acc
  <2> QED  BY <2>3, <2>4
<1>13. gen.left - 1 \in 0..MaxTokens /\ Len(tokens) + 1 + (gen.left - 1) >= MaxTokens + 1
  BY <1>1, <1>3, <1>5, <1>7
<1> HIDE DEF fed, acc
<1>14. CASE n = 0
  <2>1. /\ cache' = RolledBack(fed, Len(drafts)) /\ Yield(t) /\ gen' = Round(t, gen.left - 1)
    BY <1>2, <1>14 DEF fed
  <2>2. t = Token(Known + 1)
    <3>1. k + n + 2 = Known + 1
      BY <1>9, <1>14
    <3> QED  BY <1>12, <3>1
  <2>3. fed.tape # <<>> => Len(drafts) \in 1..Len(fed.tape)
    BY <1>7, <1>10, <1>11
  <2>4. Len(drafts) <= Len(fed.rows) /\ Len(fed.rows) - Len(drafts) = Known
    BY <1>9, <1>10, <1>11
  <2>5. /\ cache' \in Caches /\ cache'.tape = <<>>
        /\ cache'.rows = SubSeq(fed.rows, 1, Len(fed.rows) - Len(drafts))
        /\ cache'.ssm = IF fed.tape # <<>> THEN fed.tape[Len(fed.tape) - Len(drafts) + 1] ELSE fed.ssm
    BY <1>10, <1>11, <2>1, <2>3, <2>4, RolledFacts
  <2>6. SubSeq(fed.rows, 1, Known) = Said(Known)
    <3>1. Said(k + 1) \in Seq(Vocab) /\ Len(Said(k + 1)) = Known
      BY <1>3, <1>6, <1>9, SaidFacts
    <3> DEFINE s == Said(k + 1)
    <3> HIDE DEF s
    <3>2. s \in Seq(Vocab) /\ Known = Len(s)
      BY <3>1 DEF s
    <3>3. SubSeq(s \o drafts, 1, Known) = s
      BY <1>6, <1>11, <3>2, DropEnd
    <3> QED  BY <1>9, <1>10, <3>3 DEF s
  <2>7. cache'.rows = Said(Known)
    BY <2>4, <2>5, <2>6
  <2>8. ASSUME Hybrid  PROVE cache'.ssm = cache'.rows
    <3>1. Len(fed.tape) = Len(drafts) /\ Len(fed.tape) # 0 /\ 1 \in 1..Len(drafts)
          /\ Len(fed.tape) - Len(drafts) + 1 = 1
      BY <1>10, <1>11, <2>8
    <3>2. fed.tape # <<>>
      <4>1. Len(<<>>) = 0
        OBVIOUS
      <4> QED  BY <3>1, <4>1, Zenon
    <3>3. fed.tape[1] = SubSeq(fed.rows, 1, k + 1)
      BY <1>10, <2>8, <3>1
    <3> QED  BY <1>9, <2>5, <2>6, <2>7, <3>1, <3>2, <3>3
  <2>9. ~Hybrid => cache'.ssm = <<>>
    BY <1>7, <1>10, <2>5
  <2>10. /\ gen' \in Gens /\ gen' # NoGen /\ gen'.at = "round" /\ gen'.y = t
         /\ gen'.left = gen.left - 1
    BY <1>13, <2>1, RoundFacts
  <2>11. SyncedAt(Known + 1, cache', t, tokens', gen')
    <3>1. (Known + 1) - 1 = Known
      BY <1>6
    <3>2. /\ gen'.at \in {"begin", "round"} /\ gen'.y = Token(Known + 1) /\ t = gen'.y
          /\ cache'.tape = <<>> /\ cache'.rows = Said((Known + 1) - 1)
          /\ cache'.ssm = IF Hybrid THEN cache'.rows ELSE <<>>
      BY <2>2, <2>5, <2>7, <2>8, <2>9, <2>10, <3>1
    <3> QED  BY ONLY <3>2, SyncedBetween
  <2>12. /\ Give(t) /\ next' = t
         /\ UNCHANGED <<mode, stream, alone, disabled, handed, torn, faults>>
    BY <2>1 DEF Yield
  <2> QED  BY <1>1, <1>13, <2>2, <2>5, <2>10, <2>11, <2>12, GenKeeps
<1>15. CASE n # 0
  <2> DEFINE u == Head(due)
             v == IF Last(due) = Eos THEN NoTok ELSE t
             g == [due |-> due, drop |-> Len(drafts) - n, verdict |-> v]
  <2>1. /\ cache' = fed /\ Yield(u)
        /\ gen' = [at |-> "walk", due |-> Tail(due), drop |-> Len(drafts) - n,
                   verdict |-> v, left |-> gen.left - 1]
    BY <1>2, <1>15 DEF fed, acc
  <2>2. /\ due \in Seq(Vocab) /\ Len(due) \in 1..n
        /\ \A i \in 1..Len(due) : due[i] = acc[i]
        /\ due = acc \/ Last(due) = Eos
    <3>1. acc # <<>>
      <4>1. Len(<<>>) = 0
        OBVIOUS
      <4> QED  BY <1>12, <1>15, <4>1, Zenon
    <3> QED  BY <1>12, <3>1, UpToEosFacts
  <2> HIDE DEF due
  <2>3. Len(due) \in Nat /\ Len(drafts) - n \in 0..MaxK /\ Len(drafts) - n \in Nat
        /\ Len(drafts) - n + Len(due) <= Len(drafts)
    <3>1. /\ n \in Nat /\ n <= Len(drafts) /\ Len(due) \in 1..n
          /\ Len(drafts) \in Nat /\ Len(drafts) <= MaxK /\ MaxK \in Nat
      BY <1>2, <1>3, <1>11, <2>2
    <3> QED  BY ONLY <3>1
  <2>4. due # <<>> /\ u \in Vocab /\ Tail(due) \in Seq(Vocab) /\ Len(Tail(due)) = Len(due) - 1
    BY <2>2
  <2>5. v \in Vocab \cup {NoTok} /\ (v = NoTok <=> Last(due) = Eos) /\ (v # NoTok => v = t)
    BY <1>3
  <2> HIDE DEF v
  <2>6. Walking(Known, fed, tokens, g)
    <3>1. g.due = due /\ g.drop = Len(drafts) - n /\ g.verdict = v
      OBVIOUS
    <3> HIDE DEF g
    <3>2. /\ Len(fed.rows) >= Known + Len(due)
          /\ \A i \in 1..Known + Len(due) : fed.rows[i] = Token(i)
      <4>1. /\ n \in Nat /\ n <= Len(drafts) /\ Len(due) \in 1..n /\ k \in Nat /\ k + 1 = Known
            /\ Len(drafts) \in Nat /\ Len(fed.rows) = k + 1 + Len(drafts)
        BY <1>2, <1>9, <1>10, <1>11, <2>2
      <4>2. Len(fed.rows) >= Known + Len(due)
        BY ONLY <4>1
      <4>3. \A i \in 1..Known + Len(due) : i \in 1..k + 1 + n
        BY ONLY <4>1
      <4> QED  BY <1>12, <4>2, <4>3
    <3>3. \A i \in 1..Len(due) : due[i] = Token(Known + i)
      BY <1>9, <1>12, <2>2
    <3>4. v = NoTok => IF due = <<>> THEN Last(tokens) = Eos ELSE Last(due) = Eos
      BY <2>4, <2>5
    <3>5. ASSUME v # NoTok
          PROVE  /\ Len(fed.rows) = Known + Len(due) + (Len(drafts) - n)
                 /\ v = Token(Known + Len(due) + 1)
      <4>1. Len(due) = n /\ v = t
        BY <1>12, <2>2, <2>5, <3>5
      <4>2. k + n + 2 = Known + Len(due) + 1
        BY <1>9, <1>11, <4>1
      <4>3. Len(fed.rows) = Known + Len(due) + (Len(drafts) - n)
        BY <1>9, <1>10, <1>11, <4>1
      <4> QED  BY <1>12, <4>1, <4>2, <4>3
    <3>6. ASSUME Hybrid
          PROVE  /\ Len(fed.tape) < Len(fed.rows)
                 /\ \A i \in 1..Len(fed.tape) :
                      fed.tape[i] = SubSeq(fed.rows, 1, Len(fed.rows) - Len(fed.tape) - 1 + i)
      <4>1. Len(fed.tape) = Len(drafts) /\ Len(fed.rows) = k + 1 + Len(drafts)
        BY <1>10, <3>6
      <4>2. Len(fed.tape) < Len(fed.rows)
        BY <1>9, <1>11, <4>1
      <4>3. ASSUME NEW i \in 1..Len(fed.tape)
            PROVE  fed.tape[i] = SubSeq(fed.rows, 1, Len(fed.rows) - Len(fed.tape) - 1 + i)
        <5>1. i \in 1..Len(drafts) /\ Len(fed.rows) - Len(fed.tape) - 1 + i = k + i
          BY <1>9, <1>11, <4>1, <4>3
        <5> QED  BY <1>10, <3>6, <5>1
      <4> QED  BY <4>2, <4>3
    <3> QED  BY <3>1, <3>2, <3>3, <3>4, <3>5, <3>6 DEF Walking
  <2>7. /\ gen'.at = "walk" /\ gen'.due = Tail(due) /\ gen'.drop = Len(drafts) - n
        /\ gen'.verdict = v /\ gen'.left = gen.left - 1
    BY <2>1
  <2>8. gen' \in Gens /\ gen' # NoGen
    <3>1. gen' \in Gens
      BY <1>13, <2>1, <2>3, <2>4, <2>5 DEF Gens
    <3> QED  BY <2>7, <3>1, GenFacts
  <2>9. /\ Give(u) /\ next' = u
        /\ UNCHANGED <<mode, stream, alone, disabled, handed, torn, faults>>
    BY <2>1 DEF Yield
  <2>10. tokens' \in Seq(Vocab) /\ Last(tokens') = u
    BY <1>4, <2>4, <2>9, GiveFacts DEF SpecInv
  <2>11. Walking(Known + 1, fed, tokens', gen') /\ u = Token(Known + 1)
    <3>1. /\ g.due \in Seq(Vocab) /\ g.due # <<>> /\ Last(tokens') = Head(g.due)
          /\ gen'.due = Tail(g.due) /\ gen'.drop = g.drop /\ gen'.verdict = g.verdict
          /\ g.drop \in Nat
      BY <2>2, <2>3, <2>4, <2>7, <2>10
    <3>2. /\ Known \in Nat /\ fed \in Caches /\ tokens' \in Seq(Vocab)
          /\ Walking(Known, fed, tokens, g)
      BY <1>6, <1>10, <2>6, <2>10
    <3>3. Walking(Known + 1, fed, tokens', gen') /\ Head(g.due) = Token(Known + 1)
      <4> HIDE DEF g
      <4>1. Yields(Known, fed, tokens, tokens', g, gen')
        BY <3>1, <3>2, Zenon DEF Yields
      <4> QED  BY <4>1, WalkingOn, Zenon
    <3> QED  BY <3>3
  <2>12. SyncedAt(Known + 1, cache', u, tokens', gen')
    <3>1. cache'.ssm = IF Hybrid THEN cache'.rows ELSE <<>>
      BY <1>10, <2>1
    <3>2. Walking(Known + 1, cache', tokens', gen')
      BY <2>1, <2>11
    <3> QED  BY <2>7, <3>1, <3>2 DEF SyncedAt
  <2>13. /\ gen'.drop + Len(gen'.due) <= MaxK
         /\ Hybrid => gen'.drop + Len(gen'.due) <= Len(cache'.tape)
    <3>1. gen'.drop + Len(gen'.due) <= Len(drafts) /\ Len(drafts) <= MaxK
          /\ gen'.drop \in Nat /\ Len(gen'.due) \in Nat
      BY <1>11, <2>2, <2>3, <2>4, <2>7
    <3>2. Hybrid => Len(cache'.tape) = Len(drafts)
      BY <1>10, <2>1
    <3> QED  BY <1>3, <1>11, <3>1, <3>2
  <2>14. cache' \in Caches /\ (~Hybrid => cache'.tape = <<>>)
    BY <1>7, <1>10, <2>1
  <2>15. Len(tokens) + 1 + gen'.left >= MaxTokens + 1
    BY <1>13, <2>7
  <2> HIDE DEF u
  <2> QED  BY <1>1, <2>4, <2>8, <2>9, <2>11, <2>12, <2>13, <2>14, <2>15, GenKeeps
<1> QED  BY <1>14, <1>15

\* A response that goes on has room.
LEMMA RoomLeft ==
  ASSUME NEW o \in Seq(Vocab), Len(o) # 0, ~Complete(o)
  PROVE  Len(o) < MaxTokens
<1>1. o # <<>> /\ Len(o) \in Nat /\ MaxTokens \in Nat
  BY SpecAssumption
<1>2. ~(Len(o) >= MaxTokens)
  BY <1>1, Zenon DEF Complete
<1> QED  BY <1>1, <1>2

LEMMA TrimmedFacts ==
  ASSUME NEW c \in Caches, NEW n \in Nat, n <= Len(c.rows)
  PROVE  /\ Trimmed(c, n) \in Caches
         /\ Trimmed(c, n).rows = SubSeq(c.rows, 1, Len(c.rows) - n)
         /\ Trimmed(c, n).ssm = c.ssm /\ Trimmed(c, n).tape = c.tape
<1> DEFINE r == SubSeq(c.rows, 1, Len(c.rows) - n)
<1>1. PICK x \in Seq(Vocab), y \in Seq(Vocab), z \in Seq(Seq(Vocab)) :
        c = [rows |-> x, ssm |-> y, tape |-> z]
  BY DEF Caches
<1>2. r \in Seq(Vocab)
  <2>1. c.rows \in Seq(Vocab) /\ Len(c.rows) - n \in Nat /\ Len(c.rows) - n <= Len(c.rows)
    BY <1>1
  <2> QED  BY <2>1, SubSeqFacts
<1>3. Trimmed(c, n) = [c EXCEPT !.rows = r]
  BY DEF Trimmed
<1> HIDE DEF r
<1>4. Trimmed(c, n) = [rows |-> r, ssm |-> y, tape |-> z]
  BY <1>1, <1>3
<1>5. Trimmed(c, n) \in Caches
  BY <1>2, <1>4 DEF Caches
<1>6. c.ssm = y /\ c.tape = z
  BY <1>1
<1> QED  BY <1>4, <1>5, <1>6 DEF r

\* A suffix step gives the staged token and what it accepted, up to the end of
\* the response; it has to be all of it when the request goes on.
LEMMA SuffixKeeps ==
  ASSUME SpecInv, SuffixVerify
  PROVE  /\ SpecInv'
         /\ \E m \in Nat \ {0} : /\ tokens' = Said(Known + m)
                                /\ \A i \in Known + 1..Known + m - 1 : Token(i) # Eos
<1>1. /\ status = "running" /\ Method = "suffix" /\ alone
      /\ status' = IF Complete(tokens') THEN "finished" ELSE status
      /\ UNCHANGED <<mode, stream, alone, gen, disabled, handed, torn, faults>>
  BY DEF SuffixVerify
<1>2. PICK drafts \in SuffixDrafts, n \in 0..MaxK, t \in Vocab :
        /\ n <= Len(drafts) /\ Verdict(next, drafts, n, t)
        /\ LET given   == Append(tokens, next)
               pending == SubSeq(drafts, 1, n)
               kept    == Trimmed(Fed(cache, <<next>> \o drafts), Len(drafts) - n)
           IN /\ tokens' = given \o SubSeq(pending, 1, Given(given, pending))
              /\ cache' = Trimmed(kept, Unused(given, pending))
        /\ next' = t
  BY DEF SuffixVerify
<1> DEFINE k       == Known
           given   == Append(tokens, next)
           pending == SubSeq(drafts, 1, n)
           fed     == Fed(cache, <<next>> \o drafts)
           kept    == Trimmed(fed, Len(drafts) - n)
           g       == Given(given, pending)
           new     == SubSeq(pending, 1, g)
<1>3. /\ SpecTypes /\ cache \in Caches /\ tokens \in Seq(Vocab) /\ gen \in Gens /\ stream \in Streams
      /\ MaxTokens \in Nat \ {0} /\ MaxK \in Nat /\ next \in Vocab /\ Len(tokens) <= MaxTokens
  BY SpecAssumption DEF SpecInv, SpecTypes
<1>4. drafts \in Drafts /\ drafts \in Seq(Vocab) /\ Len(drafts) \in Nat /\ n \in Nat
  BY <1>3, DraftFacts DEF SuffixDrafts
<1>5. ~Hybrid
  BY <1>1, <1>3, SpecAssumption DEF SpecTypes, Method, Hybrid
<1>6. handed = 0 /\ ~torn /\ gen = NoGen /\ cache.tape = <<>> /\ ~Complete(tokens)
  BY <1>1, <1>5 DEF SpecInv, Turns
<1>7. k = Len(tokens) /\ k \in Nat /\ Own = tokens /\ tokens = Said(k)
  BY <1>3, <1>6, OwnFacts DEF SpecInv, Log
<1>8. /\ cache.ssm = IF Hybrid THEN cache.rows ELSE <<>>
      /\ cache.rows = Said(k) /\ next = Token(k + 1)
  BY <1>1, <1>6, SyncedNone DEF SpecInv, Synced
<1> HIDE DEF k
<1>9. /\ fed \in Caches /\ fed.rows = Said(k + 1) \o drafts
      /\ Len(fed.rows) = k + 1 + Len(drafts)
      /\ fed.ssm = <<>> /\ fed.tape = <<>>
  <2>1. /\ fed \in Caches /\ fed.rows = Said(k + 1) \o drafts
        /\ Len(fed.rows) = k + 1 + Len(drafts)
        /\ fed.ssm = IF Hybrid THEN fed.rows ELSE <<>>
        /\ ~Hybrid => fed.tape = cache.tape
    <3>1. /\ SpecTypes /\ k \in Nat /\ cache.rows = Said(k) /\ next = Token(k + 1)
          /\ drafts \in Drafts
      BY <1>3, <1>4, <1>7, <1>8
    <3>2. cache.ssm = IF Hybrid THEN cache.rows ELSE <<>>
      BY <1>8
    <3> QED  BY <3>1, <3>2, VerifyFacts, Zenon
  <2> HIDE DEF fed
  <2> QED  BY <1>5, <1>6, <2>1
<1>10. /\ pending \in Seq(Vocab) /\ Len(pending) = n
       /\ \A i \in 1..n : pending[i] = Token(k + 1 + i)
       /\ t = Token(k + n + 2)
       /\ \A i \in 1..k + 1 + n : fed.rows[i] = Token(i)
  <2>1. /\ SpecTypes /\ k \in Nat /\ cache.rows = Said(k)
        /\ next = Token(k + 1) /\ drafts \in Drafts /\ n \in Nat /\ n <= Len(drafts)
        /\ Verdict(next, drafts, n, t)
    BY <1>2, <1>3, <1>4, <1>7, <1>8
  <2>2. cache.ssm = IF Hybrid THEN cache.rows ELSE <<>>
    BY <1>8
  <2>3. /\ pending \in Seq(Vocab) /\ Len(pending) = n
        /\ \A i \in 1..n : pending[i] = Token(k + 1 + i)
        /\ t = Token(k + n + 2)
        /\ \A i \in 1..k + 1 + n : (Said(k + 1) \o drafts)[i] = Token(i)
    <3>1. Accepting(k, next, drafts, n, t)
      BY <2>1, <2>2 DEF Accepting
    <3>2. Accepted(k, drafts, n, t)
      BY <3>1, AcceptedFacts, Zenon
    <3> QED  BY <3>2 DEF Accepted
  <2>4. fed.rows = Said(k + 1) \o drafts
    BY <1>9
  <2> HIDE DEF fed, pending
  <2> QED  BY <2>3, <2>4
<1> HIDE DEF fed, pending
<1>11. given \in Seq(Vocab) /\ Len(given) = k + 1 /\ given = Said(k + 1)
  <2>1. given \in Seq(Vocab) /\ Len(given) = k + 1
    BY <1>3, <1>7
  <2>2. Append(Said(k), Token(k + 1)) = Said(k + 1)
    BY <1>3, <1>7, SaidNext
  <2> QED  BY <1>7, <1>8, <2>1, <2>2
<1>12. tokens' = given \o new /\ cache' = Trimmed(kept, Unused(given, pending)) /\ next' = t
  BY <1>2 DEF fed, pending
<1> HIDE DEF given
<1>13. /\ g \in 0..Len(pending)
       /\ Complete(given) => g = 0
       /\ \A i \in 1..g - 1 : ~Complete(given \o SubSeq(pending, 1, i))
       /\ g = Len(pending) \/ Complete(given \o SubSeq(pending, 1, g))
  BY <1>10, <1>11, GivenFacts
<1> HIDE DEF g
<1>14. g \in Nat /\ g <= n
  BY <1>4, <1>10, <1>13
<1>15. new \in Seq(Vocab) /\ Len(new) = g /\ \A i \in 1..g : new[i] = pending[i]
  BY <1>10, <1>14, SubSeqFacts
<1> HIDE DEF new
<1>16. tokens' = Said(k + 1 + g) /\ tokens' \in Seq(Vocab) /\ Len(tokens') = k + 1 + g
  <2>1. \A i \in 1..Len(new) : new[i] = Token((k + 1) + i)
    BY <1>10, <1>14, <1>15
  <2>2. k + 1 \in Nat /\ new \in Seq(Vocab) /\ stream \in Streams /\ k + 1 + g \in Nat
    BY <1>3, <1>7, <1>14, <1>15
  <2>3. Said(k + 1) \o new = Said((k + 1) + Len(new))
    BY ONLY <2>1, <2>2, SaidMore
  <2>4. tokens' = Said(k + 1 + g)
    BY <1>11, <1>12, <1>15, <2>3
  <2> QED  BY <2>2, <2>4, SaidFacts
<1>17. Len(tokens') <= MaxTokens
  <2>1. k < MaxTokens
    BY <1>3, <1>6, <1>7 DEF Complete
  <2>2. CASE g = 0
    BY <1>3, <1>7, <1>16, <2>1, <2>2
  <2>3. CASE g = 1
    <3>1. ~Complete(given)
      BY <1>13, <2>3
    <3>2. k + 1 < MaxTokens
      <4>1. given \in Seq(Vocab) /\ Len(given) # 0 /\ ~Complete(given) /\ Len(given) = k + 1
        <5>1. Len(given) = k + 1 /\ given \in Seq(Vocab)
          BY <1>11
        <5>2. k + 1 # 0
          BY <1>7
        <5> QED  BY <3>1, <5>1, <5>2, Zenon
      <4> QED  BY ONLY <4>1, RoomLeft
    <3> QED  BY <1>3, <1>7, <1>16, <2>3, <3>2
  <2>4. CASE g > 1
    <3> DEFINE i == g - 1
               s == SubSeq(pending, 1, i)
    <3>1. i \in Nat /\ i \in 1..g - 1 /\ i <= Len(pending) /\ g = i + 1
      BY <1>10, <1>14, <2>4
    <3>2. ~Complete(given \o s)
      <4> HIDE DEF i
      <4> QED  BY <1>13, <3>1
    <3> HIDE DEF i
    <3>3. s \in Seq(Vocab) /\ Len(s) = i
      BY <1>10, <3>1, SubSeqFacts
    <3> HIDE DEF s
    <3>4. given \o s \in Seq(Vocab) /\ Len(given \o s) = k + 1 + i
      BY <1>7, <1>11, <3>3
    <3>5. k + 1 + i < MaxTokens
      <4>1. k + 1 + i # 0
        BY <1>7, <3>1
      <4> DEFINE q == given \o s
      <4> HIDE DEF q
      <4>2. q \in Seq(Vocab) /\ Len(q) # 0 /\ ~Complete(q) /\ Len(q) = k + 1 + i
        BY <3>2, <3>4, <4>1 DEF q
      <4> QED  BY ONLY <4>2, RoomLeft
    <3> QED  BY <1>3, <1>7, <1>16, <3>1, <3>5
  <2> QED  BY <1>14, <2>2, <2>3, <2>4
<1>18. /\ kept \in Caches /\ kept.rows = Said(k + 1 + n) /\ Len(kept.rows) = k + 1 + n
       /\ kept.ssm = <<>> /\ kept.tape = <<>>
  <2>1. /\ Len(drafts) - n \in Nat /\ Len(drafts) - n <= Len(fed.rows)
        /\ Len(fed.rows) - (Len(drafts) - n) = k + 1 + n
        /\ k + 1 + n \in Nat /\ k + 1 + n <= Len(fed.rows)
    <3>1. n \in Nat /\ n <= Len(drafts) /\ Len(drafts) \in Nat /\ k \in Nat
          /\ Len(fed.rows) = k + 1 + Len(drafts)
      BY <1>2, <1>4, <1>7, <1>9
    <3> QED  BY ONLY <3>1
  <2>2. /\ kept \in Caches /\ kept.ssm = fed.ssm /\ kept.tape = fed.tape
        /\ kept.rows = SubSeq(fed.rows, 1, k + 1 + n)
    BY <1>9, <2>1, TrimmedFacts
  <2>3. SubSeq(fed.rows, 1, k + 1 + n) = Said(k + 1 + n)
    <3>1. fed.rows \in Seq(Vocab)
      BY <1>9 DEF Caches
    <3> QED  BY <1>3, <1>10, <2>1, <3>1, SaidPart
  <2>4. Len(Said(k + 1 + n)) = k + 1 + n
    BY <1>3, <2>1, SaidFacts
  <2> HIDE DEF kept
  <2> QED  BY <1>9, <2>2, <2>3, <2>4
<1> HIDE DEF kept
<1>19. Unused(given, pending) \in Nat /\ Unused(given, pending) <= n
  BY <1>4, <1>10, <1>14 DEF Unused, g
<1>20. /\ cache' \in Caches /\ cache'.ssm = <<>> /\ cache'.tape = <<>>
       /\ cache'.rows = SubSeq(kept.rows, 1, Len(kept.rows) - Unused(given, pending))
  <2>1. Unused(given, pending) <= Len(kept.rows)
    BY <1>4, <1>7, <1>18, <1>19
  <2> QED  BY <1>12, <1>18, <1>19, <2>1, TrimmedFacts
<1>21. SpecTypes'
  <2>1. handed' \in 0..Len(tokens')
    BY <1>1, <1>6, <1>7, <1>14, <1>16
  <2>2. mode' \in Modes /\ stream' \in Streams /\ gen' \in Gens /\ alone' \in BOOLEAN
        /\ torn' \in BOOLEAN /\ disabled' \in BOOLEAN /\ faults' \in 0..MaxFaults /\ next' \in Vocab
    BY <1>1, <1>12 DEF SpecInv, SpecTypes
  <2>3. status' \in {"running", "finished", "failed"}
    BY <1>1
  <2> QED  BY <1>16, <1>17, <1>20, <2>1, <2>2, <2>3 DEF SpecTypes, Gens, Caches
<1>22. Turns'
  <2>1. NoGen.at = "none"
    BY DEF NoGen
  <2>2. /\ status' = "running" => ~Complete(tokens')
        /\ status' # "failed" /\ gen' = NoGen /\ gen'.at # "walk" /\ handed' = 0 /\ ~torn'
    BY <1>1, <1>6, <2>1
  <2> QED  BY <1>20, <2>2 DEF Turns, Complete
<1>23. Known' = k + 1 + g /\ Own' = tokens'
  BY <1>1, <1>6, <1>16 DEF Known, Own
<1>24. Log'
  BY <1>1, <1>16, <1>23, Held
<1>25. Synced'
  <2>1. ASSUME status' = "running"
        PROVE  SyncedAt(Known', cache', next', tokens', gen')
    <3>1. ~Complete(given \o new)
      BY <1>1, <1>12, <2>1
    <3>2. g = n
      BY <1>10, <1>13, <3>1 DEF new
    <3>3. ~Complete(given)
      <4> SUFFICES ASSUME Complete(given)  PROVE FALSE
        OBVIOUS
      <4>1. g = 0
        BY <1>13
      <4>2. new = <<>>
        BY <1>15, <4>1
      <4>3. given \o new = given
        BY <1>11, <4>2
      <4> QED  BY <3>1, <4>3
    <3>4. Unused(given, pending) = 0
      BY <1>4, <1>10, <3>2, <3>3 DEF Unused, g
    <3>5. cache'.rows = Said(k + 1 + n)
      <4>1. kept.rows \in Seq(Vocab)
        BY <1>18 DEF Caches
      <4>2. SubSeq(kept.rows, 1, Len(kept.rows)) = kept.rows
        BY <4>1
      <4>3. Len(kept.rows) - 0 = Len(kept.rows)
        BY <4>1
      <4> QED  BY <1>18, <1>20, <3>4, <4>2, <4>3
    <3>6. next' = Token((k + 1 + n) + 1) /\ Known' = k + 1 + n
      <4>1. k + n + 2 = (k + 1 + n) + 1
        BY <1>4, <1>7
      <4> QED  BY <1>10, <1>12, <1>23, <3>2, <4>1
    <3> QED  BY <1>1, <1>5, <1>6, <1>20, <3>5, <3>6, SyncedNone
  <2> QED  BY <1>1, <2>1, Held
<1>26. ASSUME NEW i \in 0..g, i < g  PROVE Token(k + 1 + i) # Eos
  <2> SUFFICES ASSUME Token(k + 1 + i) = Eos  PROVE FALSE
    OBVIOUS
  <2> DEFINE s == Said(k + 1 + i)
  <2>1. i \in Nat /\ k + 1 + i \in Nat /\ k + 1 + i \in 1..k + 1 + i
    BY <1>7, <1>14
  <2>2. s # <<>> /\ Last(s) = Eos
    <3>1. Len(s) = k + 1 + i /\ s[k + 1 + i] = Token(k + 1 + i)
      BY <1>3, <2>1, SaidFacts
    <3> HIDE DEF s
    <3>2. Len(<<>>) = 0 /\ Len(s) # 0
      BY <1>7, <2>1, <3>1
    <3>3. Last(s) = Eos
      BY <3>1 DEF Last
    <3> QED  BY <3>2, <3>3, Zenon
  <2>3. Complete(s)
    BY <2>2, Zenon DEF Complete
  <2>4. CASE i = 0
    <3>1. k + 1 + i = k + 1
      BY <1>7, <2>4
    <3>2. Complete(given)
      BY <1>11, <2>3, <3>1
    <3> QED  BY <1>13, <1>26, <2>4, <3>2
  <2>5. CASE i # 0
    <3> DEFINE d == SubSeq(pending, 1, i)
    <3>1. i \in 1..g - 1 /\ i <= Len(pending) /\ i <= n
      BY <1>4, <1>10, <1>14, <1>26, <2>5
    <3>2. d \in Seq(Vocab) /\ Len(d) = i /\ \A j \in 1..i : d[j] = pending[j]
      BY <1>10, <2>1, <3>1, SubSeqFacts
    <3>3. ~Complete(given \o d)
      BY <1>13, <3>1
    <3> HIDE DEF d
    <3>4. \A j \in 1..Len(d) : d[j] = Token((k + 1) + j)
      BY <1>4, <1>10, <3>1, <3>2
    <3>5. k + 1 \in Nat /\ d \in Seq(Vocab) /\ stream \in Streams
      BY <1>3, <1>7, <3>2
    <3>6. Said(k + 1) \o d = Said((k + 1) + Len(d))
      BY ONLY <3>4, <3>5, SaidMore
    <3>7. given \o d = s
      BY <1>11, <3>2, <3>6
    <3> QED  BY <2>3, <3>3, <3>7
  <2> QED  BY <2>4, <2>5
<1>27. \A i \in k + 1..k + (1 + g) - 1 : Token(i) # Eos
  <2> TAKE i \in k + 1..k + (1 + g) - 1
  <2> DEFINE j == i - (k + 1)
  <2>1. j \in 0..g /\ j < g /\ k + 1 + j = i
    BY <1>7, <1>14
  <2> HIDE DEF j
  <2> QED  BY <1>26, <2>1
<1>28. 1 + g \in Nat \ {0} /\ k + (1 + g) = k + 1 + g
  BY <1>7, <1>14
<1>29. tokens' = Said(k + (1 + g))
  BY <1>16, <1>28
<1> QED  BY <1>21, <1>22, <1>24, <1>25, <1>27, <1>28, <1>29 DEF SpecInv, k

-----------------------------------------------------------------------------
(* The invariant holds.                                                    *)

LEMMA SpecStarts ==
  ASSUME Init
  PROVE  SpecInv
<1>1. /\ mode \in Modes /\ stream \in Streams
      /\ cache = [rows |-> <<>>, ssm |-> <<>>, tape |-> <<>>]
      /\ next = Token(1) /\ tokens = <<>> /\ status = "running" /\ alone \in BOOLEAN
      /\ gen = NoGen /\ disabled = FALSE /\ handed = 0 /\ torn = FALSE /\ faults = 0
  BY DEF Init
<1>2. MaxTokens \in Nat /\ MaxFaults \in Nat
  BY SpecAssumption
<1>3. cache \in Caches /\ cache.rows = <<>> /\ cache.ssm = <<>> /\ cache.tape = <<>>
  <2>1. <<>> \in Seq(Vocab) /\ <<>> \in Seq(Seq(Vocab))
    OBVIOUS
  <2> QED  BY <1>1, <2>1 DEF Caches
<1>4. next \in Vocab
  BY <1>1, TokenTyped
<1>5. SpecTypes
  <2>1. tokens \in Seq(Vocab) /\ Len(tokens) = 0
    BY <1>1
  <2>2. gen \in Gens
    BY <1>1 DEF Gens
  <2>3. Len(tokens) <= MaxTokens /\ handed \in 0..Len(tokens) /\ faults \in 0..MaxFaults
    BY <1>1, <1>2, <2>1
  <2>4. disabled \in BOOLEAN /\ torn \in BOOLEAN
    BY <1>1
  <2> QED  BY <1>1, <1>3, <1>4, <2>1, <2>2, <2>3, <2>4, Zenon DEF SpecTypes
<1>6. Turns
  <2>1. NoGen.at = "none"
    BY DEF NoGen
  <2> QED  BY <1>1, <1>3, <2>1 DEF Turns, Complete
<1>7. Own = <<>> /\ Known = 0
  BY <1>1 DEF Own, Known
<1>8. Said(0) = <<>>
  <2>1. Said(0) \in Seq(Vocab) /\ Len(Said(0)) = 0
    BY <1>1, SaidFacts
  <2> QED  BY <2>1
<1>9. Log
  BY <1>7, <1>8 DEF Log
<1>10. Synced
  <2>1. 0 + 1 = 1
    OBVIOUS
  <2>2. SyncedAt(0, cache, next, tokens, NoGen)
    BY <1>1, <1>3, <1>8, <2>1, SyncedNone
  <2> QED  BY <1>1, <1>7, <2>2 DEF Synced
<1> QED  BY <1>5, <1>6, <1>9, <1>10 DEF SpecInv

LEMMA FirstFailsKeeps ==
  ASSUME SpecInv, MtpFirstFails
  PROVE  SpecInv'
<1>1. /\ status = "running" /\ gen = NoGen /\ PlainStep(cache) /\ faults < MaxFaults
      /\ faults' = faults + 1 /\ disabled' = TRUE
      /\ UNCHANGED <<mode, stream, alone, gen, handed, torn>>
  BY DEF MtpFirstFails, MtpTurn
<1>2. faults' \in 0..MaxFaults
  BY <1>1, SpecAssumption DEF SpecInv, SpecTypes
<1> QED  BY <1>1, <1>2, PlainKeeps

\* A request whose batch steps the plain way has no generator.
LEMMA OthersKeep ==
  ASSUME SpecInv, MtpPlain \/ SuffixPlain
  PROVE  SpecInv'
<1>1. /\ status = "running" /\ PlainStep(cache)
      /\ UNCHANGED <<mode, stream, alone, gen, disabled, handed, torn, faults>>
  BY DEF MtpPlain, SuffixPlain
<1>2. gen = NoGen
  BY DEF MtpPlain, SuffixPlain, SpecInv, Turns
<1>3. disabled' \in BOOLEAN /\ faults' \in 0..MaxFaults
  BY <1>1 DEF SpecInv, SpecTypes
<1> QED  BY <1>1, <1>2, <1>3, PlainKeeps

LEMMA StillKeeps ==
  ASSUME SpecInv, UNCHANGED vars
  PROVE  SpecInv'
<1>1. UNCHANGED <<mode, stream, cache, next, tokens, status, alone, gen, disabled, handed, torn, faults>>
  BY DEF vars
<1>2. Own' = Own /\ Known' = Known
  BY <1>1 DEF Own, Known
<1>3. SpecTypes'
  BY <1>1 DEF SpecInv, SpecTypes, Gens, Caches
<1>4. Turns'
  BY <1>1 DEF SpecInv, Turns, Complete, Method, Hybrid
<1>5. Log' /\ Synced'
  BY <1>1, <1>2, Held DEF SpecInv, Log, Synced
<1> QED  BY <1>3, <1>4, <1>5 DEF SpecInv

LEMMA SpecStep ==
  ASSUME SpecInv, [Next]_vars
  PROVE  SpecInv'
<1>1. CASE MtpFirst
  BY <1>1, FirstKeeps
<1>2. CASE MtpFirstFails
  BY <1>2, FirstFailsKeeps
<1>3. CASE MtpParked
  BY <1>3, ParkedKeeps
<1>4. CASE MtpVerify
  BY <1>4, VerifyKeeps
<1>5. CASE MtpWalk
  BY <1>5, WalkKeeps
<1>6. CASE MtpSettle
  BY <1>6, SettleKeeps
<1>7. CASE MtpFails
  BY <1>7, FailsKeeps
<1>8. CASE MtpHandOff
  BY <1>8, HandOffKeeps
<1>9. CASE MtpPlain \/ SuffixPlain
  BY <1>9, OthersKeep
<1>10. CASE SuffixVerify
  BY <1>10, SuffixKeeps
<1>11. CASE Company
  BY <1>11, CompanyKeeps
<1>12. CASE Over \/ UNCHANGED vars
  BY <1>12, StillKeeps DEF Over
<1> QED  BY <1>1, <1>2, <1>3, <1>4, <1>5, <1>6, <1>7, <1>8, <1>9, <1>10, <1>11, <1>12 DEF Next

\* Wherever a generator is suspended, the caches, the staged token and what it
\* is going to yield continue the stream from the token given last.
THEOREM SpecInvariant == Spec => []SpecInv
<1>1. Init => SpecInv
  BY SpecStarts
<1>2. SpecInv /\ [Next]_vars => SpecInv'
  BY SpecStep
<1> QED  BY <1>1, <1>2, PTL DEF Spec

\* Everything keeps its type, and the tape of a suspended verify round has one
\* entry for each of its drafts ("SSM tape invariant", generator.py).
THEOREM SpecTypesHold == Spec => []TypeOK
<1>1. SpecInv => TypeOK
  <2> SUFFICES ASSUME SpecInv  PROVE TypeOK
    OBVIOUS
  <2>1. SpecTypes /\ Turns /\ gen \in Gens /\ cache \in Caches
    BY DEF SpecInv, SpecTypes
  <2>2. cache.rows \in Seq(Vocab) /\ cache.ssm \in Seq(Vocab)
    BY <2>1 DEF Caches
  <2>3. \A i \in DOMAIN cache.tape : cache.tape[i] \in Seq(Vocab)
    <3> DEFINE T == Seq(Vocab)
    <3>1. cache.tape \in Seq(T)
      BY <2>1 DEF Caches
    <3> HIDE DEF T
    <3>2. \A i \in DOMAIN cache.tape : cache.tape[i] \in T
      BY <3>1
    <3> QED  BY <3>2 DEF T
  <2>4. gen.at \in {"none", "begin", "round", "walk"}
    BY <2>1, GenFacts
  <2>5. gen.at = "walk" => /\ gen.verdict \in Vocab \cup {NoTok}
                           /\ gen.drop + Len(gen.due) <= MaxK
                           /\ Hybrid => gen.drop + Len(gen.due) < Len(cache.tape) + 1
    <3> SUFFICES ASSUME gen.at = "walk"
                 PROVE  /\ gen.verdict \in Vocab \cup {NoTok}
                        /\ gen.drop + Len(gen.due) <= MaxK
                        /\ Hybrid => gen.drop + Len(gen.due) < Len(cache.tape) + 1
      OBVIOUS
    <3>1. /\ gen.verdict \in Vocab \cup {NoTok} /\ gen.due \in Seq(Vocab) /\ gen.drop \in 0..MaxK
          /\ gen.drop + Len(gen.due) <= MaxK
          /\ Hybrid => gen.drop + Len(gen.due) <= Len(cache.tape)
      BY <2>1, GenFacts DEF Turns
    <3>2. Len(gen.due) \in Nat /\ gen.drop \in Nat /\ Len(cache.tape) \in Nat
      BY <2>1, <3>1, SpecAssumption DEF Caches
    <3> QED  BY <3>1, <3>2
  <2>6. handed \in 0..MaxTokens
    BY <2>1, SpecAssumption DEF SpecTypes
  <2> QED  BY <2>1, <2>2, <2>3, <2>4, <2>5, <2>6 DEF TypeOK, SpecTypes
<1> QED  BY <1>1, SpecInvariant, PTL

\* The token log and the caches agree: plain and suffix steps have fed exactly
\* what they gave, a generator between two rounds lags one token behind, and
\* while it yields accepted drafts it is ahead by what it has not yielded.
THEOREM TokensInStep == Spec => []InStep
<1>1. SpecInv => InStep
  <2> SUFFICES ASSUME SpecInv, status = "running", ~torn
               PROVE  /\ Hybrid => cache.ssm = cache.rows
                      /\ gen.at = "none" => cache.rows = Own
                      /\ gen.at \in {"begin", "round"} => cache.rows = Front(Own)
                      /\ gen.at = "walk" => IsPrefix(Own \o gen.due, cache.rows)
    BY DEF InStep
  <2>1. /\ stream \in Streams /\ cache.rows \in Seq(Vocab) /\ gen \in Gens
        /\ Own \in Seq(Vocab) /\ Len(Own) = Known /\ Known \in Nat /\ Own = Said(Known)
    BY OwnFacts DEF SpecInv, SpecTypes, Caches, Log
  <2>2. SyncedAt(Known, cache, next, tokens, gen)
    BY DEF SpecInv, Synced
  <2>3. Hybrid => cache.ssm = cache.rows
    BY <2>2 DEF SyncedAt
  <2>4. gen.at = "none" => cache.rows = Own
    BY <2>1, <2>2 DEF SyncedAt
  <2>5. ASSUME gen.at \in {"begin", "round"}  PROVE cache.rows = Front(Own)
    <3>1. cache.rows = Said(Known - 1)
      BY <2>2, <2>5, SyncedBetween
    <3>2. gen # NoGen
      BY <2>1, <2>5, GenFacts
    <3>3. tokens # <<>> /\ Known = Len(tokens) /\ tokens \in Seq(Vocab)
      BY <3>2, GenStands DEF SpecInv, Turns, SpecTypes
    <3>4. Known - 1 \in Nat /\ Known - 1 <= Len(Own)
      BY <2>1, <3>3
    <3>5. \A i \in 1..Known - 1 : Own[i] = Token(i)
      BY <2>1, <3>4, SaidFacts
    <3>6. SubSeq(Own, 1, Known - 1) = Said(Known - 1)
      BY <2>1, <3>4, <3>5, SaidPart
    <3> QED  BY <2>1, <3>1, <3>6 DEF Front
  <2>6. ASSUME gen.at = "walk"  PROVE IsPrefix(Own \o gen.due, cache.rows)
    <3>1. Walking(Known, cache, tokens, gen) /\ gen.due \in Seq(Vocab)
      BY <2>1, <2>2, <2>6, GenFacts DEF SyncedAt
    <3> DEFINE n == Known + Len(gen.due)
               s == Own \o gen.due
    <3>2. /\ Len(cache.rows) >= n /\ n \in Nat
          /\ \A i \in 1..n : cache.rows[i] = Token(i)
          /\ \A i \in 1..Len(gen.due) : gen.due[i] = Token(Known + i)
      BY <2>1, <3>1 DEF Walking
    <3>3. s = Said(n)
      BY <2>1, <3>1, <3>2, SaidMore
    <3>4. SubSeq(cache.rows, 1, n) = Said(n)
      BY <2>1, <3>2, SaidPart
    <3>5. Said(n) \in Seq(Vocab) /\ Len(Said(n)) = n
      BY <2>1, <3>2, SaidFacts
    <3> HIDE DEF n, s
    <3>6. SubSeq(s, 1, Len(s)) = s /\ Len(s) = n
      BY <3>3, <3>5
    <3> QED  BY <2>1, <3>2, <3>3, <3>4, <3>6 DEF IsPrefix, s
  <2> QED  BY <2>3, <2>4, <2>5, <2>6
<1> QED  BY <1>1, SpecInvariant, PTL

-----------------------------------------------------------------------------
(* Speculation is invisible.                                               *)

\* What plain decoding is compared with.
Out == IF torn THEN SubSeq(tokens, 1, handed - 1) ELSE Own
Done == \/ status = "finished" /\ ~torn /\ (handed = 0 \/ Complete(Own))
        \/ status = "failed" /\ faults = 0

\* Within its limit a response is complete for both.
LEMMA BothComplete ==
  ASSUME NEW o, Len(o) \in Nat, Len(o) <= MaxTokens
  PROVE  Plain!Complete(o) <=> Complete(o)
<1>1. MaxTokens \in Nat
  BY SpecAssumption
<1>2. Len(o) >= MaxTokens <=> Len(o) = MaxTokens
  BY <1>1
<1> QED  BY <1>2, Zenon DEF Plain!Complete, Complete, Plain!Last, Last

\* A step that gives n tokens of the stream, none of them but the last a stop
\* token.
LEMMA Emits ==
  ASSUME stream \in Streams, NEW k \in Nat, NEW n \in Nat \ {0}, k + n <= MaxTokens,
         UNCHANGED stream, Out = Said(k), Out' = Said(k + n),
         \A i \in k + 1..k + n - 1 : Token(i) # Eos,
         ~Done, Done' = Plain!Complete(Out')
  PROVE  Plain!Emit
<1>1. \A i : Plain!Token(i) = Token(i)
  BY DEF Plain!Token, Token
<1>2. Len(Out) = k
  BY SaidFacts
<1>3. n \in 1..(MaxTokens - Len(Out))
  BY <1>2, SpecAssumption
<1> DEFINE d == [i \in 1..n |-> Plain!Token(Len(Out) + i)]
<1>4. Out' = Out \o d
  <2>1. d = [i \in 1..n |-> Token(k + i)]
    BY <1>1, <1>2
  <2>2. \A i \in 1..n : Token(k + i) \in Vocab
    BY TokenTyped
  <2> DEFINE T(i) == Token(k + i)
  <2> HIDE DEF T, d
  <2>3. [i \in 1..n |-> T(i)] \in [1..n -> Vocab]
    BY <2>2 DEF T
  <2>4. /\ [i \in 1..n |-> T(i)] \in Seq(Vocab) /\ Len([i \in 1..n |-> T(i)]) = n
        /\ \A i \in 1..n : [j \in 1..n |-> T(j)][i] = T(i)
    BY <2>3
  <2>5. d = [i \in 1..n |-> T(i)]
    BY <2>1 DEF T
  <2>6. d \in Seq(Vocab) /\ Len(d) = n /\ \A i \in 1..n : d[i] = Token(k + i)
    BY <2>4, <2>5 DEF T
  <2>7. Said(k) \o d = Said(k + Len(d))
    BY <2>6, SaidMore
  <2> QED  BY <2>6, <2>7
<1>5. \A i \in Len(Out) + 1..Len(Out) + n - 1 : Plain!Token(i) # Eos
  BY <1>1, <1>2
<1> HIDE DEF d
<1>6. \E m \in 1..(MaxTokens - Len(Out)) :
        /\ Out' = Out \o [i \in 1..m |-> Plain!Token(Len(Out) + i)]
        /\ \A i \in Len(Out) + 1..Len(Out) + m - 1 : Plain!Token(i) # Eos
  BY <1>3, <1>4, <1>5, Zenon DEF d
<1>7. UNCHANGED stream
  OBVIOUS
<1> QED  BY <1>6, <1>7, Zenon DEF Plain!Emit, Out, Done

\* A step that gives one token: to a request that was handed off while accepted
\* drafts were yielded, it is not compared.
LEMMA GiveEmits ==
  ASSUME SpecInv, SpecInv', status = "running", NEW t \in Vocab, Give(t),
         UNCHANGED <<mode, stream, handed, torn>>
  PROVE  Plain!Emit \/ UNCHANGED <<stream, Out, Done>>
<1>1. /\ tokens \in Seq(Vocab) /\ handed \in 0..Len(tokens) /\ stream \in Streams
      /\ MaxTokens \in Nat /\ SpecTypes
  BY SpecAssumption DEF SpecInv, SpecTypes
<1>2. /\ tokens' \in Seq(Vocab) /\ tokens' = Append(tokens, t)
      /\ Len(tokens') = Len(tokens) + 1 /\ Len(tokens') <= MaxTokens
      /\ Last(tokens') = t
      /\ status' \in {"running", "finished"} /\ (status' = "running" <=> ~Complete(tokens'))
  BY GiveFacts DEF SpecInv
<1>3. ~Done
  BY DEF Done
<1>4. CASE torn
  <2>1. handed - 1 \in Nat /\ handed - 1 <= Len(tokens)
    BY <1>1, <1>4 DEF SpecInv, Turns
  <2>2. SubSeq(tokens', 1, handed - 1) = SubSeq(tokens, 1, handed - 1)
    <3> DEFINE h == handed - 1
    <3> HIDE DEF h
    <3>1. h \in Nat /\ h <= Len(tokens) /\ h <= Len(tokens')
      BY <1>1, <1>2, <2>1 DEF h
    <3>2. /\ SubSeq(tokens, 1, h) \in Seq(Vocab) /\ Len(SubSeq(tokens, 1, h)) = h
          /\ \A i \in 1..h : SubSeq(tokens, 1, h)[i] = tokens[i]
      BY <1>1, <3>1, SubSeqFacts
    <3>3. /\ SubSeq(tokens', 1, h) \in Seq(Vocab) /\ Len(SubSeq(tokens', 1, h)) = h
          /\ \A i \in 1..h : SubSeq(tokens', 1, h)[i] = tokens'[i]
      BY <1>2, <3>1, SubSeqFacts
    <3>4. \A i \in 1..h : tokens'[i] = tokens[i]
      BY <1>1, <1>2, <3>1
    <3> QED  BY <3>2, <3>3, <3>4, SameSeq DEF h
  <2>3. Out' = Out
    BY <1>4, <2>2 DEF Out
  <2>4. ~Done'
    BY <1>2, <1>4 DEF Done
  <2> QED  BY <1>3, <2>3, <2>4 DEF Done
<1>5. CASE ~torn
  <2>1. Own' = Append(Own, t) /\ Known' = Known + 1
    BY <1>1, <1>2, OwnGrows
  <2>2. /\ Own \in Seq(Vocab) /\ Len(Own) = Known /\ Known \in Nat
        /\ handed = 0 => Own = tokens /\ Known = Len(tokens)
    BY <1>1, OwnFacts
  <2>3. Own = Said(Known) /\ Own' = Said(Known + 1)
    BY <1>5, <2>1, Held DEF SpecInv, Log
  <2>4. Out = Said(Known) /\ Out' = Said(Known + 1) /\ Out' = Own'
    BY <1>5, <2>3 DEF Out
  <2>5. Len(Own') = Known + 1 /\ Last(Own') = t /\ Len(Own') <= Len(tokens')
        /\ (handed # 0 => Len(Own') < Len(tokens'))
    <3>1. Own' \in Seq(Vocab) /\ Len(Own') = Known + 1 /\ Own'[Known + 1] = t
      BY <2>1, <2>2
    <3>2. Last(Own') = t
      BY <3>1 DEF Last
    <3>3. Known <= Len(tokens) /\ (handed # 0 => Known < Len(tokens))
      BY <1>1 DEF Known
    <3> QED  BY <1>1, <1>2, <2>2, <3>1, <3>2, <3>3
  <2>6. Done' = Plain!Complete(Out')
    <3>1. Plain!Complete(Own') <=> Complete(Own')
      <4>1. Len(Own') \in Nat /\ Len(Own') <= MaxTokens
        BY <1>1, <1>2, <2>2, <2>5
      <4> QED  BY <4>1, BothComplete
    <3>2. Complete(Own') => Complete(tokens')
      <4>1. tokens' # <<>>
        BY <1>1, <1>2
      <4>2. Len(Own') >= MaxTokens => Len(tokens') >= MaxTokens
        BY <1>1, <1>2, <2>2, <2>5
      <4> QED  BY <1>2, <2>5, <4>1, <4>2, Zenon DEF Complete
    <3>3. handed = 0 => Own' = tokens'
      BY <1>2, <2>1, <2>2
    <3>4. Done' <=> status' = "finished" /\ (handed = 0 \/ Complete(Own'))
      <4>1. status' # "failed" /\ ~torn'
        BY <1>2, <1>5
      <4>2. Done' <=> \/ status' = "finished" /\ ~torn' /\ (handed' = 0 \/ Complete(Own'))
                      \/ status' = "failed" /\ faults' = 0
        BY DEF Done, Complete
      <4> QED  BY <4>1, <4>2
    <3>5. status' = "finished" <=> Complete(tokens')
      BY <1>2
    <3>6. Done' <=> Plain!Complete(Own')
      BY <3>1, <3>2, <3>3, <3>4, <3>5, Zenon
    <3>7. Done' \in BOOLEAN /\ Plain!Complete(Own') \in BOOLEAN
      BY DEF Done, Plain!Complete
    <3> QED  BY <2>4, <3>6, <3>7, Zenon
  <2>7. Known + 1 <= MaxTokens /\ 1 \in Nat \ {0}
        /\ \A i \in Known + 1..Known + 1 - 1 : Token(i) # Eos
    BY <1>1, <1>2, <2>2, <2>5
  <2> QED  BY <1>1, <1>3, <2>2, <2>4, <2>6, <2>7, Emits
<1> QED  BY <1>4, <1>5

\* A hand-off gives a token that was given before.
LEMMA HandOffIsSilent ==
  ASSUME SpecInv, SpecInv', MtpHandOff
  PROVE  UNCHANGED <<stream, Out, Done>>
<1>1. /\ status = "running" /\ gen # NoGen /\ PlainStep(Cleared(cache)) /\ stream' = stream
      /\ handed' = Len(tokens) + 1
  BY DEF MtpHandOff
<1>2. tokens \in Seq(Vocab) /\ next \in Vocab /\ Give(next)
  BY <1>1 DEF PlainStep, SpecInv, SpecTypes
<1>3. tokens' = Append(tokens, next) /\ status' \in {"running", "finished"}
  BY <1>1, <1>2, GiveFacts DEF SpecInv
<1>4. Out = tokens /\ ~Complete(tokens)
  BY <1>1, GenStands DEF Out, SpecInv, Turns
<1>5. handed' # 0 /\ handed' - 1 = Len(tokens)
  BY <1>1, <1>2
<1>6. Own' = tokens
  <2>1. RemoveAt(Append(tokens, next), Len(tokens) + 1) = tokens
    BY <1>2, RemoveLast
  <2> QED  BY <1>1, <1>3, <1>5, <2>1 DEF Own
<1>7. SubSeq(tokens', 1, handed' - 1) = tokens
  BY <1>2, <1>3, <1>5
<1>8. Out' = tokens
  BY <1>6, <1>7 DEF Out
<1>9. ~Done
  BY <1>1 DEF Done
<1>10. ~Done'
  <2>1. Done' <=> \/ status' = "finished" /\ ~torn' /\ (handed' = 0 \/ Complete(Own'))
                  \/ status' = "failed" /\ faults' = 0
    BY DEF Done, Complete
  <2> QED  BY <1>3, <1>4, <1>5, <1>6, <2>1
<1> QED  BY <1>1, <1>4, <1>8, <1>9, <1>10 DEF Done

LEMMA SuffixEmits ==
  ASSUME SpecInv, SuffixVerify
  PROVE  Plain!Emit
<1>1. /\ status = "running" /\ Method = "suffix"
      /\ status' = IF Complete(tokens') THEN "finished" ELSE status
      /\ UNCHANGED <<mode, stream, handed, torn>>
  BY DEF SuffixVerify
<1>2. SpecInv'
  BY SuffixKeeps
<1>3. PICK m \in Nat \ {0} : /\ tokens' = Said(Known + m)
                            /\ \A i \in Known + 1..Known + m - 1 : Token(i) # Eos
  BY SuffixKeeps
<1>4. handed = 0 /\ ~torn /\ handed' = 0 /\ ~torn'
  BY <1>1 DEF SpecInv, Turns
<1>5. Known \in Nat /\ Own = tokens /\ Own = Said(Known) /\ stream \in Streams
  BY <1>4, OwnFacts DEF SpecInv, SpecTypes, Log
<1>6. Own' = tokens'
  BY <1>4 DEF Own
<1>7. Out = Said(Known) /\ Out' = Said(Known + m)
  BY <1>3, <1>4, <1>5, <1>6 DEF Out
<1>8. Len(tokens') = Known + m /\ Known + m <= MaxTokens
  <2>1. Len(tokens') <= MaxTokens
    BY <1>2 DEF SpecInv, SpecTypes
  <2>2. Known + m \in Nat
    BY <1>5
  <2>3. Len(Said(Known + m)) = Known + m
    BY <1>5, <2>2, SaidFacts
  <2> QED  BY <1>3, <2>1, <2>3
<1>9. ~Done
  BY <1>1 DEF Done
<1>10. Done' = Plain!Complete(Out')
  <2>1. Done' <=> status' = "finished"
    BY <1>1, <1>4 DEF Done
  <2>2. status' = "finished" <=> Complete(tokens')
    BY <1>1
  <2>3. Plain!Complete(tokens') <=> Complete(tokens')
    <3>1. Len(tokens') \in Nat /\ Len(tokens') <= MaxTokens
      BY <1>5, <1>8
    <3> QED  BY <3>1, BothComplete
  <2>4. Done' \in BOOLEAN /\ Plain!Complete(tokens') \in BOOLEAN
    BY DEF Done, Plain!Complete
  <2>5. Out' = tokens'
    BY <1>3, <1>7
  <2> QED  BY <2>1, <2>2, <2>3, <2>4, <2>5, Zenon
<1> QED  BY <1>1, <1>3, <1>5, <1>7, <1>8, <1>9, <1>10, Emits

\* What is compared depends on what was given, and on how the request ended.
LEMMA SameIsSilent ==
  ASSUME UNCHANGED <<stream, tokens, handed, torn>>, ~Done, ~Done' \/ UNCHANGED <<status, faults>>
  PROVE  UNCHANGED <<stream, Out, Done>>
<1>1. Own' = Own
  BY DEF Own
<1>2. Out' = Out
  BY <1>1 DEF Out
<1>3. UNCHANGED <<status, faults>> => Done' = Done
  BY <1>1 DEF Done, Complete
<1>4. Done \in BOOLEAN /\ Done' \in BOOLEAN
  BY DEF Done
<1> QED  BY <1>2, <1>3, <1>4

LEMMA StreamStep ==
  ASSUME SpecInv, [Next]_vars
  PROVE  Plain!Emit \/ UNCHANGED <<stream, Out, Done>>
<1>1. SpecInv'
  BY SpecStep
<1>2. ASSUME status = "running", NEW t \in Vocab, Give(t), UNCHANGED <<mode, stream, handed, torn>>
      PROVE  Plain!Emit \/ UNCHANGED <<stream, Out, Done>>
  BY <1>1, <1>2, GiveEmits
<1>3. next \in Vocab
  BY DEF SpecInv, SpecTypes
<1>4. CASE MtpFirst
  BY <1>2, <1>3, <1>4 DEF MtpFirst, MtpTurn
<1>5. CASE MtpFirstFails
  BY <1>2, <1>3, <1>5 DEF MtpFirstFails, MtpTurn, PlainStep
<1>6. CASE MtpPlain \/ SuffixPlain
  BY <1>2, <1>3, <1>6 DEF MtpPlain, SuffixPlain, PlainStep
<1>7. ASSUME MtpTurn, NEW t, Yield(t)
      PROVE  Plain!Emit \/ UNCHANGED <<stream, Out, Done>>
  <2>1. t \in Vocab
    BY <1>1, <1>7 DEF Yield, SpecInv, SpecTypes
  <2> QED  BY <1>2, <1>7, <2>1 DEF Yield, MtpTurn
<1>8. CASE MtpParked
  BY <1>7, <1>8 DEF MtpParked
<1>9. CASE MtpVerify
  <2>1. \E t : Yield(t)
    BY <1>9 DEF MtpVerify
  <2> QED  BY <1>7, <1>9, <2>1 DEF MtpVerify
<1>10. CASE MtpWalk
  BY <1>7, <1>10 DEF MtpWalk
<1>11. CASE MtpSettle
  BY <1>7, <1>11 DEF MtpSettle
<1>12. CASE MtpFails
  <2>1. faults' > 0 /\ faults' \in Nat
    BY <1>1, <1>12, FailsKeeps, SpecAssumption DEF SpecInv, SpecTypes
  <2>2. status = "running" /\ status' = "failed" /\ UNCHANGED <<stream, tokens, handed, torn>>
    BY <1>12 DEF MtpFails, MtpTurn
  <2>3. ~Done /\ ~Done'
    BY <2>1, <2>2 DEF Done
  <2> QED  BY <2>2, <2>3, SameIsSilent
<1>13. CASE MtpHandOff
  BY <1>1, <1>13, HandOffIsSilent
<1>14. CASE SuffixVerify
  BY <1>14, SuffixEmits
<1>15. CASE Company
  <2>1. status = "running" /\ UNCHANGED <<stream, tokens, handed, torn, status, faults>>
    BY <1>15 DEF Company
  <2>2. ~Done
    BY <2>1 DEF Done
  <2> QED  BY <2>1, <2>2, SameIsSilent
<1>16. CASE Over \/ UNCHANGED vars
  BY <1>16 DEF Over, vars, Out, Done, Own, Complete
<1> QED  BY <1>4, <1>5, <1>6, <1>8, <1>9, <1>10, <1>11, <1>12, <1>13, <1>14, <1>15, <1>16 DEF Next

\* Whatever is drafted, accepted and rejected, whichever forwards fail and
\* whoever joins or leaves the batch, a request is given what plain greedy
\* decoding would give it, and ends where that would end; but for the token a
\* hand-off repeats, and for what follows one while accepted drafts are yielded.
THEOREM SpeculationIsInvisible == Spec => StreamSpec
<1>1. Init => Plain!Init
  BY DEF Init, Plain!Init, Own
<1>2. SpecInv /\ [Next]_vars => [Plain!Emit]_<<stream, Out, Done>>
  BY StreamStep
<1> QED  BY <1>1, <1>2, SpecInvariant, PTL DEF Spec, StreamSpec, Plain!Spec, Out, Done

=============================================================================
