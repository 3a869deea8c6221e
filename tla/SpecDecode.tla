----------------------------- MODULE SpecDecode -----------------------------
(***************************************************************************)
(* Speculative decoding of one greedy request (scheduler.py,               *)
(* spec_decode/mtp, speculative/suffix_decoding.py).  Both methods replace *)
(* GenerationBatch._step of mlx-lm: they feed the model the next token and *)
(* some drafts in one forward, keep the drafts it agrees with and take the *)
(* others out of the caches.                                               *)
(*                                                                         *)
(* What the model predicts is given by the tokens its caches have seen:    *)
(* the request's own stream after a prefix of that stream, and anything    *)
(* after anything else.                                                    *)
(***************************************************************************)
EXTENDS Naturals, Sequences, SequencesExt, FiniteSets

CONSTANTS
  Vocab, Eos,    \* tokens, and the stop token among them
  NoTok,
  Streams,       \* what the target model may have to say
  Modes,         \* pairs of a method, "mtp" or "suffix", and whether the model is a hybrid
  MaxK,          \* the longest chain of drafts
  MinDraft,      \* the shortest draft a suffix step verifies
  MaxTokens,     \* the request's limit
  MaxFaults      \* bound: forwards and constructions that raise

ASSUME SpecAssumption ==
  /\ Eos \in Vocab /\ NoTok \notin Vocab
  /\ Streams \subseteq Seq(Vocab)
  /\ Modes \subseteq {"mtp", "suffix"} \X BOOLEAN
  /\ \A m \in Modes : m[1] = "suffix" => ~m[2]   \* supports_spec_decode
  /\ MaxK \in Nat \ {0} /\ MinDraft \in 1..MaxK
  /\ MaxTokens \in Nat \ {0} /\ MaxFaults \in Nat

VARIABLES
  mode, stream,
  cache,         \* gb.prompt_cache: attention rows, recurrent state, rollback_state
  next,          \* gb._next_tokens[0]
  tokens,        \* gb.tokens[0]: what the request was given
  status,
  alone,         \* it is the only sequence of the batch
  gen,           \* _state[uid]: where the suspended generator stands
  disabled,      \* uid \in _disabled_uids
  handed,        \* history: the place of the token a hand-off repeats; 0: none
  torn,          \* history: a hand-off left unverified rows in the caches
  faults

vars == <<mode, stream, cache, next, tokens, status, alone, gen, disabled, handed, torn, faults>>

Method == mode[1]
Hybrid == mode[2]

-----------------------------------------------------------------------------
(* The model and its caches, after the prompt.                             *)

Token(i) == IF i <= Len(stream) THEN stream[i] ELSE Eos

\* A hybrid model that lost step with itself has seen nothing of anyone's.
Predict(rows, ssm) ==
  IF /\ \A i \in DOMAIN rows : rows[i] = Token(i)
     /\ Hybrid => ssm = rows
  THEN {Token(Len(rows) + 1)}
  ELSE Vocab

\* One forward over a block; a block of several leaves a tape of the
\* recurrent state after each of its tokens but the last.
Fed(c, block) ==
  [rows |-> c.rows \o block,
   ssm  |-> IF Hybrid THEN c.ssm \o block ELSE <<>>,
   tape |-> IF Hybrid /\ Len(block) > 1
            THEN [i \in 1..Len(block) - 1 |-> c.ssm \o SubSeq(block, 1, i)]
            ELSE c.tape]

Trimmed(c, n) == [c EXCEPT !.rows = SubSeq(@, 1, Len(@) - n)]

Cleared(c) == [c EXCEPT !.tape = <<>>]

\* Mutant: one snapshot per block, as before the tape.
FromFirst(tape, n) == tape[1]

\* Entry N of the tape is the state after N tokens of the block.
FromTape(tape, n) == tape[Len(tape) - n + 1]

\* Mutant: only what can be trimmed is rolled back.
RolledBackRows(c, n) == [Trimmed(c, n) EXCEPT !.tape = <<>>]

RolledBack(c, n) ==
  [Trimmed(c, n) EXCEPT !.ssm = IF c.tape # <<>> THEN FromTape(c.tape, n) ELSE @,
                        !.tape = <<>>]

\* Of the drafts fed after y the first n are the model's own choice, and t is
\* what it chooses then.
Verdict(y, drafts, n, t) ==
  LET after(i) == Predict(cache.rows \o <<y>> \o SubSeq(drafts, 1, i),
                          cache.ssm \o <<y>> \o SubSeq(drafts, 1, i))
  IN  /\ \A i \in 1..n : drafts[i] \in after(i - 1)
      /\ t \in after(n)
      /\ n < Len(drafts) => t # drafts[n + 1]

Drafts == UNION {[1..k -> Vocab] : k \in 1..MaxK}

-----------------------------------------------------------------------------
(* GenerationBatch.next: what a step returns is handed to the request.     *)

Complete(o) == o # <<>> /\ (Last(o) = Eos \/ Len(o) >= MaxTokens)

Give(t) ==
  /\ tokens' = Append(tokens, t)
  /\ status' = IF Complete(tokens') THEN "finished" ELSE status

\* mlx-lm's own _step: feeds the staged token, returns it, stages the next.
PlainStep(c) ==
  /\ cache' = Fed(c, <<next>>)
  /\ next' \in Predict(cache'.rows, cache'.ssm)
  /\ Give(next)

-----------------------------------------------------------------------------
(* MTP: the wrapped _step, and the generator it resumes.                   *)

NoGen == [at |-> "none"]

\* The generator may yield `left` more tokens.
Round(y, left) == [at |-> "round", y |-> y, left |-> left]

MtpTurn == status = "running" /\ Method = "mtp" /\ alone /\ ~disabled

\* The first call gives the token mlx-lm staged, and seeds a generator with it.
MtpFirst ==
  /\ MtpTurn /\ gen = NoGen
  /\ gen' = [Round(next, MaxTokens) EXCEPT !.at = "begin"]
  /\ Give(next)
  /\ UNCHANGED <<mode, stream, cache, next, alone, disabled, handed, torn, faults>>

MtpFirstFails ==
  /\ MtpTurn /\ gen = NoGen /\ faults < MaxFaults
  /\ faults' = faults + 1 /\ disabled' = TRUE
  /\ PlainStep(cache)
  /\ UNCHANGED <<mode, stream, alone, gen, handed, torn>>

\* What the generator yields is returned, and staged to keep the shape.
Yield(t) ==
  /\ Give(t) /\ next' = t
  /\ UNCHANGED <<mode, stream, alone, disabled, handed, torn, faults>>

\* A bootstrap or parked round: one token without drafts.
MtpParked ==
  /\ MtpTurn /\ gen.at \in {"begin", "round"} /\ gen.left > 0
  /\ cache' = Fed(cache, <<gen.y>>)
  /\ \E t \in Predict(cache'.rows, cache'.ssm) : Yield(t) /\ gen' = Round(t, gen.left - 1)

\* Accepted drafts up to the first stop token.
UpToEos(drafts) == IF Contains(drafts, Eos) THEN SubSeq(drafts, 1, CHOOSE i \in DOMAIN drafts :
                        drafts[i] = Eos /\ \A j \in 1..i - 1 : drafts[j] # Eos)
                   ELSE drafts

\* A round that verifies drafts. The accepted ones are yielded one by one
\* before anything is rolled back; without any the verdict is settled at once.
MtpVerify ==
  /\ MtpTurn /\ gen.at = "round" /\ gen.left > 0
  /\ \E drafts \in Drafts, n \in 0..MaxK, t \in Vocab :
       /\ n <= Len(drafts) /\ Verdict(gen.y, drafts, n, t)
       /\ LET fed   == Fed(cache, <<gen.y>> \o drafts)
              due   == UpToEos(SubSeq(drafts, 1, n))
          IN IF n = 0
             THEN /\ cache' = RolledBack(fed, Len(drafts))
                  /\ Yield(t) /\ gen' = Round(t, gen.left - 1)
             ELSE /\ cache' = fed /\ Yield(Head(due))
                  /\ gen' = [at |-> "walk", due |-> Tail(due), drop |-> Len(drafts) - n,
                             verdict |-> IF Last(due) = Eos THEN NoTok ELSE t,
                             left |-> gen.left - 1]

MtpWalk ==
  /\ MtpTurn /\ gen.at = "walk" /\ gen.due # <<>> /\ gen.left > 0
  /\ Yield(Head(gen.due))
  /\ gen' = [gen EXCEPT !.due = Tail(@), !.left = @ - 1]
  /\ UNCHANGED cache

\* After the accepted drafts: the bonus when all were, else the rollback and
\* the model's own choice.
MtpSettle ==
  /\ MtpTurn /\ gen.at = "walk" /\ gen.due = <<>> /\ gen.verdict # NoTok /\ gen.left > 0
  /\ cache' = IF gen.drop = 0 THEN Cleared(cache) ELSE RolledBack(cache, gen.drop)
  /\ Yield(gen.verdict) /\ gen' = Round(gen.verdict, gen.left - 1)

\* The generator returned: after a stop token, or at its own limit.
Exhausted ==
  /\ gen # NoGen
  /\ \/ gen.left = 0
     \/ gen.at = "walk" /\ gen.due = <<>> /\ gen.verdict = NoTok

\* The generator raises, or is exhausted while the request goes on: the
\* request is failed.
MtpFails ==
  /\ MtpTurn
  /\ \/ Exhausted /\ UNCHANGED faults
     \/ ~Exhausted /\ gen.at \in {"begin", "round"} /\ faults < MaxFaults /\ faults' = faults + 1
  /\ status' = "failed" /\ gen' = NoGen /\ disabled' = TRUE
  /\ UNCHANGED <<mode, stream, cache, next, tokens, alone, handed, torn>>

\* The batch has grown: the generator is closed and mlx-lm's _step takes over
\* with the token given last.
MtpHandOff ==
  /\ status = "running" /\ Method = "mtp" /\ ~alone /\ gen # NoGen
  /\ gen' = NoGen /\ disabled' = TRUE
  /\ handed' = Len(tokens) + 1 /\ torn' = (gen.at = "walk")
  /\ PlainStep(Cleared(cache))
  /\ UNCHANGED <<mode, stream, alone, faults>>

MtpPlain ==
  /\ status = "running" /\ Method = "mtp" /\ gen = NoGen /\ (disabled \/ ~alone)
  /\ PlainStep(cache)
  /\ UNCHANGED <<mode, stream, alone, gen, disabled, handed, torn, faults>>

-----------------------------------------------------------------------------
(* Suffix decoding: the wrapped _step and next.                            *)

\* No draft, a short one, a cooldown, company, or a verify forward that raised
\* before it touched the caches.
SuffixPlain ==
  /\ status = "running" /\ Method = "suffix"
  /\ PlainStep(cache)
  /\ UNCHANGED <<mode, stream, alone, gen, disabled, handed, torn, faults>>

\* The suffix tree proposes nothing or a draft that is long enough.
SuffixDrafts == {d \in Drafts : Len(d) >= MinDraft}

\* Mutant: pending tokens are given without looking for the end.
GivenAll(o, pending) == Len(pending)

\* How many of the pending tokens _suffix_next gives.
Given(o, pending) ==
  IF Complete(o) THEN 0
  ELSE CHOOSE n \in 0..Len(pending) :
         /\ n = Len(pending) \/ (n > 0 /\ Complete(o \o SubSeq(pending, 1, n)))
         /\ \A i \in 1..n - 1 : ~Complete(o \o SubSeq(pending, 1, i))

\* The rows of drafts that were not given are taken back; not so when the
\* primary token ended the request, whose pending drafts are only dropped.
Unused(o, pending) ==
  IF Complete(o) THEN 0 ELSE Len(pending) - Given(o, pending)

SuffixVerify ==
  /\ status = "running" /\ Method = "suffix" /\ alone
  /\ \E drafts \in SuffixDrafts, n \in 0..MaxK, t \in Vocab :
       /\ n <= Len(drafts) /\ Verdict(next, drafts, n, t)
       /\ LET given   == Append(tokens, next)
              pending == SubSeq(drafts, 1, n)
              kept    == Trimmed(Fed(cache, <<next>> \o drafts), Len(drafts) - n)
          IN /\ tokens' = given \o SubSeq(pending, 1, Given(given, pending))
             /\ cache' = Trimmed(kept, Unused(given, pending))
       /\ next' = t
  /\ status' = IF Complete(tokens') THEN "finished" ELSE status
  /\ UNCHANGED <<mode, stream, alone, gen, disabled, handed, torn, faults>>

-----------------------------------------------------------------------------
\* Another request joins the batch, or the last other one leaves it.
Company ==
  /\ status = "running" /\ alone' = ~alone
  /\ UNCHANGED <<mode, stream, cache, next, tokens, status, gen, disabled, handed, torn, faults>>

Over == status # "running" /\ UNCHANGED vars

\* The prompt has been prefilled and its last token fed: the first token is staged.
Init ==
  /\ mode \in Modes /\ stream \in Streams
  /\ cache = [rows |-> <<>>, ssm |-> <<>>, tape |-> <<>>]
  /\ next = Token(1)
  /\ tokens = <<>> /\ status = "running" /\ alone \in BOOLEAN
  /\ gen = NoGen /\ disabled = FALSE
  /\ handed = 0 /\ torn = FALSE /\ faults = 0

Next ==
  \/ MtpFirst \/ MtpFirstFails \/ MtpParked \/ MtpVerify \/ MtpWalk \/ MtpSettle
  \/ MtpFails \/ MtpHandOff \/ MtpPlain
  \/ SuffixPlain \/ SuffixVerify
  \/ Company \/ Over

Spec == Init /\ [][Next]_vars

-----------------------------------------------------------------------------
(* Properties.                                                             *)

\* Everything has its type; the tape of a suspended verify round has one
\* entry for each of its drafts ("SSM tape invariant", generator.py).
TypeOK ==
  /\ mode \in Modes /\ stream \in Streams
  /\ cache.rows \in Seq(Vocab) /\ cache.ssm \in Seq(Vocab)
  /\ \A i \in DOMAIN cache.tape : cache.tape[i] \in Seq(Vocab)
  /\ next \in Vocab /\ tokens \in Seq(Vocab) /\ Len(tokens) <= MaxTokens
  /\ status \in {"running", "finished", "failed"}
  /\ alone \in BOOLEAN /\ disabled \in BOOLEAN /\ torn \in BOOLEAN
  /\ handed \in 0..MaxTokens /\ faults \in 0..MaxFaults
  /\ gen.at \in {"none", "begin", "round", "walk"}
  /\ gen.at = "walk" => /\ gen.verdict \in Vocab \cup {NoTok}
                        /\ gen.drop + Len(gen.due) <= MaxK
                        /\ Hybrid => gen.drop + Len(gen.due) < Len(cache.tape) + 1

\* The tokens given, without the one a hand-off repeated.
Own == IF handed = 0 THEN tokens ELSE RemoveAt(tokens, handed)

\* The token log and the caches agree ("corrupting the KV/token log
\* invariant", scheduler.py): plain and suffix steps have fed exactly the
\* tokens they gave; a generator between two rounds lags one token behind,
\* while it yields accepted drafts it is ahead by what it has not yielded;
\* and the recurrent state has seen what the attention layers have.
InStep ==
  status = "running" /\ ~torn =>
    /\ Hybrid => cache.ssm = cache.rows
    /\ gen.at = "none" => cache.rows = Own
    /\ gen.at \in {"begin", "round"} => cache.rows = Front(Own)
    /\ gen.at = "walk" => IsPrefix(Own \o gen.due, cache.rows)

\* Speculation is invisible: whatever the drafts, the rejections, the faults
\* and the company, a request is given the stream it is given without it. A
\* hand-off between two rounds repeats one token and goes on with the stream;
\* what follows one while accepted drafts are yielded is not claimed.
Plain == INSTANCE PlainDecode WITH
  out  <- IF torn THEN SubSeq(tokens, 1, handed - 1) ELSE Own,
  done <- \/ status = "finished" /\ ~torn /\ (handed = 0 \/ Complete(Own))
          \/ status = "failed" /\ faults = 0

StreamSpec == Plain!Spec

\* What a finished suffix request leaves to the prompt caches are the rows of
\* its tokens: an unused draft "must come back out of the cache or it'll
\* poison prefix-cache reuse" (scheduler.py, _suffix_next).
StoredIsOwn == status = "finished" => cache.rows = tokens
=============================================================================
