--------------------------- MODULE ContractProofs ---------------------------
(***************************************************************************)
(* The engine keeps what ClientContract promises as long as no step fails: *)
(* a refinement, proved for every number of calls, every batch and every   *)
(* interleaving, with clients that leave and calls that are cancelled.     *)
(***************************************************************************)
EXTENDS EngineProofs

UpTo(n) == [i \in 1..n |-> i]

\* The step has answered r and the loop has not handed the answer out yet.
Undistributed(r) == loop = "stepping" /\ \E o \in outputs : o.req = r

\* The tokens that have left the scheduler for r's collector.
Seen(r) == IF Undistributed(r) THEN out[r] - 1 ELSE out[r]

Complete(r) == status[r] = "finished" /\ ~Undistributed(r)

\* What the outputs of a step say until they are handed out.
OutputsRight ==
  loop = "stepping" =>
    \A o \in outputs :
      /\ o.req \in Submitted /\ o.tok = out[o.req] /\ o.tok > 0 /\ ~o.err
      /\ o.fin <=> status[o.req] = "finished"
      /\ o.fin => o.reason \in {"stop", "length"}
      /\ ~o.fin => o.reason = "none"
      /\ o.reason = "length" => o.tok = MaxTokens

NoFailure == ~raised /\ \A r \in Reqs : out[r] <= MaxTokens

\* A slot holds all tokens so far and, as new, those its client has not got.
SlotRight(r) ==
  slot[r] # <<>> =>
    /\ r \in tracked /\ ~slot[r].err /\ slot[r].all = UpTo(Seen(r))
    /\ Seen(r) > 0 /\ Len(slot[r].new) > 0
    /\ slot[r].fin => Complete(r) /\ slot[r].reason \in {"stop", "length"}
    /\ ~slot[r].fin => slot[r].reason = "none"
    /\ slot[r].reason = "length" => out[r] = MaxTokens

Buffer(r) == IF slot[r] = <<>> THEN <<>> ELSE slot[r].new

StreamRight(r) ==
  r \in tracked \cap Streams /\ client[r] \in {"adding", "serving"} =>
    delivered[r] \o Buffer(r) = UpTo(Seen(r))

CallRight(r) ==
  /\ client[r] \in {"new", "adding"} \/ (r \notin Streams /\ client[r] # "over")
       => delivered[r] = <<>>
  /\ client[r] \in {"new", "adding", "serving"} => verdict[r] = "none"

EventRight(r) ==
  r \in finishedEvent => Complete(r) /\ (slot[r] # <<>> => slot[r].fin)

ContractInv ==
  /\ TokenCount /\ OutputsRight /\ NoFailure
  /\ delivered \in [Reqs -> Seq(Nat)]
  /\ \A r \in Reqs : SlotRight(r) /\ StreamRight(r) /\ CallRight(r) /\ EventRight(r)

-----------------------------------------------------------------------------
(* No step fails, and the tokens of a request are numbered.                *)

NoFaults == MaxFaults = 0

LEMMA ConcatParts ==
  ASSUME NEW S, NEW s \in Seq(S), NEW t \in Seq(S)
  PROVE  /\ s \o t \in Seq(S) /\ Len(s \o t) = Len(s) + Len(t)
         /\ \A i \in 1..Len(s) : (s \o t)[i] = s[i]
         /\ \A i \in Len(s) + 1..Len(s) + Len(t) : (s \o t)[i] = t[i - Len(s)]
OBVIOUS

LEMMA UpToFacts ==
  ASSUME NEW n \in Nat
  PROVE  /\ UpTo(n) \in Seq(Nat) /\ Len(UpTo(n)) = n
         /\ UpTo(n) \o <<n + 1>> = UpTo(n + 1)
         /\ UpTo(0) = <<>>
<1>1. \A m \in Nat : UpTo(m) \in Seq(Nat) /\ Len(UpTo(m)) = m /\ DOMAIN UpTo(m) = 1..m
  BY DEF UpTo
<1>2. UpTo(n) \o <<n + 1>> = UpTo(n + 1)
  <2> DEFINE a == UpTo(n)
             b == <<n + 1>>
             t == UpTo(n + 1)
  <2>1. a \in Seq(Nat) /\ Len(a) = n /\ \A i \in 1..n : a[i] = i
    BY <1>1 DEF UpTo
  <2>2. b \in Seq(Nat) /\ Len(b) = 1 /\ b[1] = n + 1
    OBVIOUS
  <2>3. t \in Seq(Nat) /\ Len(t) = n + 1 /\ \A i \in 1..(n + 1) : t[i] = i
    BY DEF UpTo
  <2> HIDE DEF a, b, t
  <2>4. /\ a \o b \in Seq(Nat) /\ Len(a \o b) = Len(a) + Len(b)
        /\ \A i \in 1..Len(a) : (a \o b)[i] = a[i]
        /\ \A i \in Len(a) + 1..Len(a) + Len(b) : (a \o b)[i] = b[i - Len(a)]
    BY <2>1, <2>2, ConcatParts
  <2>5. Len(a \o b) = n + 1 /\ \A i \in 1..(n + 1) : (a \o b)[i] = i
    BY <2>1, <2>2, <2>4
  <2>6. a \o b = t
    BY <2>3, <2>4, <2>5, SeqEqual
  <2> QED  BY <2>6 DEF a, b, t
<1>3. UpTo(0) = <<>>
  BY <1>1
<1> QED  BY <1>1, <1>2, <1>3

\* One more token, and the buffered ones, make the answer one token longer.
LEMMA OneMore ==
  ASSUME NEW d \in Seq(Nat), NEW b \in Seq(Nat), NEW n \in Nat, d \o b = UpTo(n)
  PROVE  d \o (b \o <<n + 1>>) = UpTo(n + 1)
<1>1. <<n + 1>> \in Seq(Nat)
  OBVIOUS
<1>2. (d \o b) \o <<n + 1>> = d \o (b \o <<n + 1>>)
  BY <1>1, ConcatAssociative, SMTT(20)
<1> QED  BY <1>2, UpToFacts

LEMMA Longer ==
  ASSUME NEW d \in Seq(Nat), NEW b \in Seq(Nat), NEW n \in Nat, d \o b = UpTo(n), Len(b) > 0
  PROVE  n > Len(d)
<1>1. Len(d \o b) = Len(d) + Len(b) /\ Len(d) \in Nat /\ Len(b) \in Nat
  BY ConcatParts
<1>2. Len(d \o b) = n
  BY UpToFacts
<1> QED  BY <1>1, <1>2

\* What the worker does where nothing fails.
Worked ==
  \/ \E r \in Reqs : DoAbort(r)
  \/ AbortsDone \/ ScheduleHead \/ ScheduleEnd \/ Generate \/ NothingToDo

LEMMA NothingFails == ASSUME SchedInv, NoFaults, Work  PROVE Worked
<1>1. ~Fault
  BY DEF Fault, NoFaults, SchedInv, SchedTypeOK
<1> QED  BY <1>1 DEF Work, Worked, InsertFails, NextFails

\* One decoding step answers a request with its next token, or leaves it alone.
Answers ==
  /\ \A r \in Reqs :
       \/ out'[r] = out[r] + 1 /\ \E o \in outputs' : o.req = r
       \/ out'[r] = out[r] /\ \A o \in outputs' : o.req # r
  /\ \A o \in outputs' : status[o.req] = "running"

AnswersRight ==
  \A o \in outputs' :
    /\ o.req \in Submitted' /\ o.tok = out'[o.req] /\ o.tok > 0 /\ ~o.err
    /\ o.fin <=> status'[o.req] = "finished"
    /\ o.fin => o.reason \in {"stop", "length"}
    /\ ~o.fin => o.reason = "none"
    /\ o.reason = "length" => o.tok = MaxTokens

LEMMA GenerateAnswers ==
  ASSUME SchedInv, TokenCount, Generate
  PROVE  Answers /\ AnswersRight /\ \A o \in outputs' : out'[o.req] <= MaxTokens
<1>1. PICK eos \in SUBSET DOMAIN seqs, match \in SUBSET Responses :
        Decoded(eos, match) /\ \A u \in match : ~Ends(u, eos)
  BY GenerateDecodes
<1> DEFINE FinOf(u) == Ends(u, eos) \/ u \in match
           done == {ridOf[u] : u \in {v \in Responses : FinOf(v)}}
<1>2. /\ out' = [r \in Reqs |->
                   IF \E u \in Responses : ridOf[u] = r THEN out[r] + 1 ELSE out[r]]
      /\ status' = [r \in Reqs |-> IF r \in done THEN "finished" ELSE status[r]]
  BY <1>1 DEF Decoded
<1>3. \A u \in Responses :
        /\ u \in DOMAIN ridOf /\ seqs[u] \in SeqRecord /\ seqs[u].left = 0
        /\ ridOf[u] \in Reqs /\ status[ridOf[u]] = "running"
        /\ seqs[u].n = out[ridOf[u]] /\ seqs[u].n < MaxTokens
        /\ \A v \in Responses : ridOf[v] = ridOf[u] => v = u
  BY OneSequence DEF Responses, TokenCount
<1> HIDE DEF FinOf
<1>4. ASSUME NEW u \in Responses  PROVE \E o \in outputs' : o.req = ridOf[u]
  <2> DEFINE o == [req |-> ridOf[u], tok |-> seqs[u].n + 1, fin |-> FinOf(u),
                   reason |-> IF ~FinOf(u) THEN "none"
                              ELSE IF u \in eos \cup match THEN "stop" ELSE "length",
                   err |-> FALSE]
  <2>1. o \in outputs'
    BY <1>1 DEF Decoded, FinOf
  <2> QED  BY <2>1
<1>5. ASSUME NEW o \in outputs'
      PROVE  \E u \in Responses :
               o = [req |-> ridOf[u], tok |-> seqs[u].n + 1, fin |-> FinOf(u),
                    reason |-> IF ~FinOf(u) THEN "none"
                               ELSE IF u \in eos \cup match THEN "stop" ELSE "length",
                    err |-> FALSE]
  BY <1>1 DEF Decoded, FinOf
<1>6. Answers
  <2>1. \A o \in outputs' : \E u \in Responses : o.req = ridOf[u]
    BY <1>5
  <2>2. ASSUME NEW r \in Reqs
        PROVE  \/ out'[r] = out[r] + 1 /\ \E o \in outputs' : o.req = r
               \/ out'[r] = out[r] /\ \A o \in outputs' : o.req # r
    BY <1>2, <1>4, <2>1
  <2> QED  BY <1>3, <2>1, <2>2 DEF Answers
<1>7. ASSUME NEW o \in outputs'
      PROVE  /\ o.req \in Submitted' /\ o.tok = out'[o.req] /\ o.tok > 0 /\ ~o.err
             /\ o.fin <=> status'[o.req] = "finished"
             /\ o.fin => o.reason \in {"stop", "length"}
             /\ ~o.fin => o.reason = "none"
             /\ o.reason = "length" => o.tok = MaxTokens
             /\ o.tok <= MaxTokens
  <2>1. PICK u \in Responses :
          o = [req |-> ridOf[u], tok |-> seqs[u].n + 1, fin |-> FinOf(u),
               reason |-> IF ~FinOf(u) THEN "none"
                          ELSE IF u \in eos \cup match THEN "stop" ELSE "length",
               err |-> FALSE]
    BY <1>5
  <2>2. /\ o.req = ridOf[u] /\ o.tok = seqs[u].n + 1 /\ ~o.err /\ o.fin = FinOf(u)
        /\ o.reason = IF ~FinOf(u) THEN "none"
                      ELSE IF u \in eos \cup match THEN "stop" ELSE "length"
    BY <2>1
  <2>3. out'[o.req] = seqs[u].n + 1 /\ seqs[u].n \in Nat /\ seqs[u].n + 1 <= MaxTokens
    BY <1>2, <1>3, <2>2, Bounds DEF SeqRecord
  <2>4. FinOf(u) <=> status'[o.req] = "finished"
    BY <1>2, <1>3, <2>2
  <2>5. o.req \in Submitted'
    BY <1>2, <1>3, <2>2 DEF Submitted
  <2>6. o.reason = "length" => seqs[u].n + 1 >= MaxTokens
    <3> SUFFICES ASSUME FinOf(u), u \notin match  PROVE seqs[u].n + 1 >= MaxTokens \/ u \in eos
      BY <2>2
    <3> QED  BY DEF FinOf, Ends
  <2>7. o.tok = out'[o.req] /\ o.tok > 0 /\ o.tok <= MaxTokens
    BY <2>2, <2>3
  <2>8. o.reason = "length" => o.tok = MaxTokens
    BY <2>2, <2>3, <2>6, Bounds
  <2> QED  BY <2>2, <2>4, <2>5, <2>7, <2>8, Zenon
<1>8. AnswersRight /\ \A o \in outputs' : o.tok <= MaxTokens /\ o.tok = out'[o.req]
  BY <1>7 DEF AnswersRight
<1> QED  BY <1>6, <1>8

LEMMA WorkedTokens ==
  ASSUME SchedInv, TokenCount, NoFaults, Work, outputs = {}
  PROVE  /\ TokenCount' /\ raised' = raised
         /\ \A r \in Reqs : status[r] = "finished" => status'[r] = "finished"
         /\ (outputs' = {} /\ out' = out) \/ (Generate /\ Answers /\ AnswersRight)
<1>1. Worked /\ TokenCount'
  BY NothingFails, WorkTokens DEF NoFaults, NoRetry
<1>2. raised' = raised
  BY <1>1 DEF Worked, DoAbort, AbortsDone, ScheduleHead, ScheduleEnd, Generate, NothingToDo, stepVars
<1>3. ASSUME NEW r \in Reqs, status[r] = "finished"  PROVE status'[r] = "finished"
  <2>1. CASE ScheduleHead
    <3>1. status[Head(waiting)] = "waiting" /\ status' = [status EXCEPT ![Head(waiting)] = "running"]
      BY <2>1, QueueLeft, ToSetTail
         DEF ScheduleHead, CanSchedule, SchedInv, SchedTypeOK, OnePlace, Waiting
    <3> QED  BY <1>3, <3>1 DEF SchedInv, SchedTypeOK
  <2>2. CASE ~ScheduleHead
    BY <1>1, <1>3, <2>2
       DEF Worked, DoAbort, AbortsDone, ScheduleEnd, Generate, NothingToDo, queueVars, SchedInv,
           SchedTypeOK
  <2> QED  BY <2>1, <2>2
<1>4. CASE Generate
  BY <1>1, <1>2, <1>3, <1>4, GenerateAnswers
<1>5. CASE ~Generate
  <2>1. outputs' = outputs /\ out' = out
    BY <1>1, <1>5 DEF Worked, DoAbort, AbortsDone, ScheduleHead, ScheduleEnd, NothingToDo, stepVars,
                      queueVars
  <2> QED  BY <1>1, <1>2, <1>3, <2>1
<1> QED  BY <1>4, <1>5

\* The engine's steps, as far as tokens go: the worker's, the start of its
\* step, and those that leave the outputs alone.
StepsOn ==
  /\ loop = "stepping" /\ loop' = loop /\ outputs = {} /\ Work /\ UNCHANGED engineVars
  /\ (outputs' = {} /\ out' = out) \/ (Generate /\ Answers /\ AnswersRight)

StartsStep ==
  /\ loop # "stepping" /\ outputs' = {} /\ raised' = FALSE
  /\ UNCHANGED <<out, status, ridOf, seqs, tracked, slot, finishedEvent, client, delivered, verdict>>

StandsBy ==
  /\ UNCHANGED <<out, outputs, raised, ridOf, seqs>>
  /\ UNCHANGED status \/ Admits
  /\ Distribute \/ (loop' = "stepping" <=> loop = "stepping")

LEMMA StepKinds ==
  ASSUME EngineInv, ContractInv, NoFaults, [Next]_vars
  PROVE  (StepsOn /\ TokenCount') \/ StartsStep \/ StandsBy
<1> USE DEF EngineInv
<1>1. CASE Working
  <2>1. Work /\ loop' = loop /\ outputs = {} /\ loop = "stepping" /\ UNCHANGED engineVars
    BY <1>1, WorkBusy DEF Working, engineVars, FinalOutputs
  <2> QED  BY <2>1, WorkedTokens DEF ContractInv, StepsOn
<1>2. CASE StepBegins
  <2>1. Step \in ToSet(jobs)
    BY <1>2, ToSetTail DEF StepBegins, JobQueue
  <2>2. loop = "submitted"
    BY <2>1 DEF JobQueue
  <2> QED  BY <1>2, <2>2 DEF StepBegins, queueVars, genVars, StartsStep
<1>3. CASE Distribute \/ LoopCheck \/ LoopWake \/ UNCHANGED vars
  BY <1>3 DEF Distribute, LoopCheck, LoopWake, vars, engineVars, schedVars, queueVars, genVars, stepVars,
              StandsBy
<1>4. CASE FailAll
  BY <1>4 DEF FailAll, ContractInv, NoFailure
<1>5. ASSUME NEW r \in Reqs, Call(r) \/ AddBegins(r) \/ OrphanDone(r)
      PROVE  StandsBy
  BY <1>5 DEF Call, Submit, AddReturns, AddFails, CleanupSafe, StreamTakes, StreamEnds, Disconnect,
     StreamCloses, StreamGone, GenerateEnds, GenerateCancelled, Cancel, AddBegins, OrphanDone,
     Cleanup, RemoveFinished, schedVars, queueVars, genVars, stepVars, StandsBy
<1>6. ASSUME NEW r \in Reqs, AddEnds(r)  PROVE StandsBy
  <2>1. CASE Admit(r) /\ future' = [future EXCEPT ![r] = "done"]
    <3>1. Admits
      BY <1>6, <2>1 DEF AddEnds, Admits, EngineTypeOK
    <3> QED  BY <1>6, <2>1, <3>1 DEF AddEnds, Admit, genVars, stepVars, StandsBy
  <2>2. CASE Refuse(r)
    BY <1>6, <2>2 DEF AddEnds, Refuse, schedVars, queueVars, genVars, stepVars, StandsBy
  <2> QED  BY <1>6, <2>1, <2>2 DEF AddEnds
<1> QED  BY <1>1, <1>2, <1>3, <1>4, <1>5, <1>6 DEF Next, Worker, EngineLoop

\* An admitted request was not submitted before: no count is about it yet.
LEMMA StatusKept ==
  ASSUME EngineInv, StandsBy, NEW r \in Reqs
  PROVE  \/ status'[r] = status[r]
         \/ status[r] = "none" /\ status'[r] = "waiting"
<1>1. CASE Admits
  <2>1. PICK q \in Reqs : future[q] = "running" /\ Admit(q)
    BY <1>1 DEF Admits
  <2>2. status[q] = "none"
    BY <2>1, AddsNew DEF AddsAreNew
  <2> QED  BY <2>1, <2>2 DEF Admit, EngineInv, EngineTypeOK, SchedTypeOK
<1> QED  BY <1>1 DEF StandsBy

LEMMA CountsStep ==
  ASSUME EngineInv, ContractInv, NoFaults, [Next]_vars
  PROVE  TokenCount' /\ OutputsRight' /\ NoFailure'
<1> USE DEF ContractInv
<1>0. \A o \in outputs : o.req \in Reqs
  BY DEF EngineInv, EngineTypeOK, SchedTypeOK, Output
<1>1. CASE StepsOn /\ TokenCount'
  <2>1. raised' = raised
    BY <1>1, WorkedTokens DEF StepsOn, EngineInv
  <2>2. OutputsRight'
    BY <1>1 DEF StepsOn, OutputsRight, AnswersRight
  <2>3. ASSUME NEW r \in Reqs  PROVE out'[r] <= MaxTokens
    <3>1. CASE out' = out
      BY <3>1 DEF NoFailure
    <3>2. CASE Generate /\ Answers /\ AnswersRight
      <4>1. \A o \in outputs' : out'[o.req] <= MaxTokens
        BY <3>2, GenerateAnswers DEF EngineInv
      <4> QED  BY <3>2, <4>1 DEF Answers, NoFailure
    <3> QED  BY <1>1, <3>1, <3>2 DEF StepsOn
  <2> QED  BY <1>1, <2>1, <2>2, <2>3 DEF NoFailure
<1>2. CASE StartsStep
  BY <1>2 DEF StartsStep, TokenCount, OutputsRight, NoFailure
<1>3. CASE StandsBy
  <2>1. TokenCount'
    BY <1>3, StatusKept DEF StandsBy, TokenCount
  <2>2. NoFailure'
    BY <1>3 DEF StandsBy, NoFailure
  <2>3. loop' = "stepping" => loop = "stepping"
    BY <1>3 DEF StandsBy, Distribute
  <2>4. ASSUME loop' = "stepping", NEW o \in outputs
        PROVE  status'[o.req] = status[o.req] /\ o.req \in Submitted'
    BY <1>0, <1>3, <2>3, <2>4, StatusKept DEF OutputsRight, Submitted
  <2>5. OutputsRight'
    BY <1>3, <2>3, <2>4 DEF StandsBy, OutputsRight
  <2> QED  BY <2>1, <2>2, <2>5
<1> QED  BY <1>1, <1>2, <1>3, StepKinds

\* What a collector has been handed changes by Distribute only, and an answer
\* that is complete stays so.
LEMMA SeenStep ==
  ASSUME EngineInv, ContractInv, NoFaults, [Next]_vars, NEW r \in Reqs
  PROVE  /\ ~Distribute => Seen(r)' = Seen(r)
         /\ Distribute => Seen(r)' = out[r] /\ out' = out /\ status' = status /\ ~Undistributed(r)'
         /\ Complete(r) => Complete(r)'
         /\ out[r] = MaxTokens => out'[r] = MaxTokens
<1> USE DEF ContractInv
<1>0. out[r] \in Nat
  BY DEF EngineInv, EngineTypeOK, SchedTypeOK
<1>1. CASE StepsOn
  <2>1. ~Undistributed(r) /\ ~Distribute /\ TokenCount
    BY <1>1 DEF StepsOn, Undistributed, Distribute
  <2>2. status[r] = "finished" => status'[r] = "finished"
    BY <1>1, WorkedTokens DEF StepsOn, EngineInv
  <2>3. CASE outputs' = {} /\ out' = out
    BY <2>1, <2>2, <2>3 DEF Undistributed, Seen, Complete
  <2>4. CASE Answers
    <3>1. CASE out'[r] = out[r] + 1 /\ \E o \in outputs' : o.req = r
      <4>1. Undistributed(r)' /\ status[r] = "running"
        BY <1>1, <2>4, <3>1 DEF Undistributed, StepsOn, Answers
      <4>2. out'[r] <= MaxTokens
        BY CountsStep DEF NoFailure
      <4>3. Seen(r)' = out[r] /\ Seen(r) = out[r]
        <5>1. Seen(r)' = out'[r] - 1
          BY <4>1 DEF Seen
        <5> QED  BY <1>0, <2>1, <3>1, <5>1 DEF Seen
      <4>4. ~Complete(r)
        BY <4>1 DEF Complete
      <4>5. out[r] # MaxTokens
        BY <1>0, <3>1, <4>2, Bounds
      <4> QED  BY <2>1, <4>3, <4>4, <4>5
    <3>2. CASE out'[r] = out[r] /\ \A o \in outputs' : o.req # r
      BY <2>1, <2>2, <3>2 DEF Undistributed, Seen, Complete
    <3> QED  BY <2>4, <3>1, <3>2 DEF Answers
  <2> QED  BY <1>1, <2>3, <2>4 DEF StepsOn
<1>2. CASE StartsStep
  BY <1>2 DEF StartsStep, Distribute, StepReturned, Undistributed, Seen, Complete
<1>3. CASE StandsBy /\ Distribute
  BY <1>3 DEF StandsBy, Distribute, Undistributed, Seen, Complete, schedVars, queueVars
<1>4. CASE StandsBy /\ ~Distribute
  <2>1. Undistributed(r)' <=> Undistributed(r)
    BY <1>4 DEF StandsBy, Undistributed
  <2>2. status[r] = "finished" => status'[r] = "finished"
    BY <1>4, StatusKept
  <2> QED  BY <1>4, <2>1, <2>2 DEF StandsBy, Seen, Complete
<1> QED  BY <1>1, <1>2, <1>3, <1>4, StepKinds

-----------------------------------------------------------------------------
(* The slots and what the streams have received.                           *)

LEMMA NotEmpty == ASSUME NEW b \in Buffered  PROVE b # <<>>
<1>1. "fin" \in DOMAIN b
  BY DEF Buffered
<1>2. DOMAIN <<>> = {}
  OBVIOUS
<1> QED  BY <1>1, <1>2

\* What the slot of a request holds once the loop has merged its answer in.
Handed(r, o) ==
  /\ o \in outputs /\ o.req = r /\ o.tok = out[r] /\ out[r] > 0
  /\ slot'[r] # <<>> /\ ~slot'[r].err
  /\ slot'[r].all = UpTo(out[r]) /\ slot'[r].new = Buffer(r) \o <<out[r]>>
  /\ slot'[r].fin = o.fin /\ slot'[r].reason = o.reason

LEMMA HandsOut ==
  ASSUME EngineInv, ContractInv, Distribute, NEW r \in Reqs
  PROVE  IF r \in tracked /\ Undistributed(r) THEN \E o \in outputs : Handed(r, o)
                                              ELSE slot'[r] = slot[r]
<1> DEFINE live == {o \in outputs : o.req \in tracked}
           For(q) == CHOOSE o \in live : o.req = q
<1>1. slot' = [q \in Reqs |-> IF \E o \in live : o.req = q
                              THEN PutOutput(slot[q], Fresh(For(q))) ELSE slot[q]]
  BY DEF Distribute
<1>2. loop = "stepping"
  BY DEF Distribute, StepReturned
<1>3. CASE r \in tracked /\ Undistributed(r)
  <2>1. For(r) \in live /\ For(r).req = r /\ slot'[r] = PutOutput(slot[r], Fresh(For(r)))
    <3>1. \E o \in live : o.req = r
      BY <1>3 DEF Undistributed
    <3> QED  BY <1>1, <3>1
  <2>2. PICK o \in outputs : o.req = r /\ o \in Output /\ slot'[r] = PutOutput(slot[r], Fresh(o))
    BY <2>1 DEF EngineInv, EngineTypeOK, SchedTypeOK
  <2>3. o.tok = out[r] /\ o.tok > 0 /\ ~o.err
    BY <1>2, <2>2 DEF ContractInv, OutputsRight
  <2>4. /\ Fresh(o).new = <<out[r]>> /\ Fresh(o).all = UpTo(out[r]) /\ ~Fresh(o).err
        /\ Fresh(o).fin = o.fin /\ Fresh(o).reason = o.reason /\ Fresh(o) # <<>>
    <3>1. Fresh(o) \in Buffered
      BY <2>2, FreshType
    <3>2. Fresh(o) # <<>>
      BY <3>1, NotEmpty
    <3>3. Fresh(o).new = <<out[r]>>
      BY <2>2, <2>3 DEF Fresh, Output
    <3> QED  BY <2>3, <3>2, <3>3 DEF Fresh, UpTo
  <2>5. CASE slot[r] = <<>>
    <3>1. slot'[r] = Fresh(o)
      BY <2>2, <2>5 DEF PutOutput
    <3>2. <<out[r]>> = <<>> \o <<out[r]>>
      <4>1. <<out[r]>> \in Seq(Nat)
        BY <2>2, <2>3 DEF Output
      <4> QED  BY <4>1, ConcatEmptySeq
    <3> QED  BY <1>3, <2>2, <2>3, <2>4, <2>5, <3>1, <3>2 DEF Handed, Buffer
  <2>6. CASE slot[r] # <<>>
    <3>1. slot'[r] = [Fresh(o) EXCEPT !.new = slot[r].new \o Fresh(o).new, !.err = FALSE]
      BY <2>2, <2>6 DEF PutOutput, Merge
    <3>2. Fresh(o) \in Buffered
      BY <2>2, FreshType
    <3>3. /\ slot'[r].new = slot[r].new \o Fresh(o).new /\ ~slot'[r].err
          /\ slot'[r].all = Fresh(o).all /\ slot'[r].fin = Fresh(o).fin
          /\ slot'[r].reason = Fresh(o).reason
      BY <3>1, <3>2 DEF Buffered
    <3>4. slot'[r] # <<>>
      <4>1. slot'[r] \in Buffered
        BY <2>2, <2>6, <3>2, PutType DEF EngineInv, SlotTyped
      <4> QED  BY <4>1, NotEmpty
    <3> QED  BY <1>3, <2>2, <2>3, <2>4, <2>6, <3>3, <3>4 DEF Handed, Buffer
  <2> QED  BY <1>3, <2>5, <2>6
<1>4. CASE ~(r \in tracked /\ Undistributed(r))
  <2>1. ~ \E o \in live : o.req = r
    BY <1>2, <1>4 DEF Undistributed
  <2> QED  BY <1>1, <1>4, <2>1
<1> QED  BY <1>3, <1>4

\* No other step fills a slot, and a slot that is not empty keeps its collector.
LEMMA SlotKept ==
  ASSUME EngineInv, ContractInv, [Next]_vars, NEW r \in Reqs, ~Distribute, slot'[r] # <<>>
  PROVE  slot'[r] = slot[r] /\ r \in tracked /\ r \in tracked'
<1>0. DOMAIN slot = Reqs /\ SlotRight(r)
  BY DEF EngineInv, SlotTyped, ContractInv
<1>1. ~FailAll
  BY DEF ContractInv, NoFailure, FailAll
<1>2. CASE OwnStep(r)
  <2>1. slot'[r] = slot[r] /\ (r \in tracked => r \in tracked')
    BY <1>0, <1>2 DEF OwnStep, Submit, AddReturns, AddFails, CleanupSafe, StreamTakes, StreamEnds,
       Disconnect, StreamCloses, StreamGone, GenerateEnds, GenerateCancelled, Cancel, OrphanDone,
       Cleanup, SlotRight
  <2> QED  BY <1>0, <2>1 DEF SlotRight
<1>3. CASE ~OwnStep(r)
  BY <1>0, <1>1, <1>3, OthersStep DEF EngineInv, Apart, SlotRight
<1> QED  BY <1>2, <1>3

LEMMA SlotRightStep ==
  ASSUME EngineInv, ContractInv, NoFaults, [Next]_vars, NEW r \in Reqs
  PROVE  SlotRight(r)'
<1>0. SlotRight(r)
  BY DEF ContractInv
<1> SUFFICES ASSUME slot'[r] # <<>>  PROVE SlotRight(r)'
  BY DEF SlotRight
<1>1. CASE ~Distribute
  <2>1. slot'[r] = slot[r] /\ r \in tracked'
    BY <1>1, SlotKept
  <2>2. /\ Seen(r)' = Seen(r) /\ (Complete(r) => Complete(r)')
        /\ out[r] = MaxTokens => out'[r] = MaxTokens
    BY <1>1, SeenStep
  <2> QED  BY <1>0, <2>1, <2>2 DEF SlotRight
<1>2. CASE Distribute /\ ~(r \in tracked /\ Undistributed(r))
  <2>1. slot'[r] = slot[r] /\ tracked' = tracked
    BY <1>2, HandsOut DEF Distribute
  <2>2. Seen(r)' = out[r] /\ out' = out /\ (Complete(r) => Complete(r)')
    BY <1>2, SeenStep
  <2>3. Seen(r) = out[r]
    BY <1>0, <1>2, <2>1 DEF SlotRight, Seen
  <2> QED  BY <1>0, <2>1, <2>2, <2>3 DEF SlotRight
<1>3. CASE Distribute /\ r \in tracked /\ Undistributed(r)
  <2>1. PICK o \in outputs : Handed(r, o)
    BY <1>3, HandsOut
  <2>2. /\ o.fin <=> status[r] = "finished"
        /\ o.fin => o.reason \in {"stop", "length"}
        /\ ~o.fin => o.reason = "none"
        /\ o.reason = "length" => out[r] = MaxTokens
    BY <1>3, <2>1 DEF Undistributed, Handed, ContractInv, OutputsRight
  <2>3. /\ Seen(r)' = out[r] /\ out' = out /\ ~Undistributed(r)' /\ status' = status
        /\ tracked' = tracked
    BY <1>3, SeenStep DEF Distribute
  <2>4. Len(slot'[r].new) > 0
    <3>1. Buffer(r) \in Seq(Nat) /\ <<out[r]>> \in Seq(Nat) /\ Len(<<out[r]>>) = 1
      BY DEF EngineInv, SlotTyped, Buffered, EngineTypeOK, SchedTypeOK, Buffer
    <3>2. Len(slot'[r].new) = Len(Buffer(r)) + 1 /\ Len(Buffer(r)) \in Nat
      BY <2>1, <3>1, ConcatParts DEF Handed
    <3> QED  BY <3>2
  <2>5. status[r] = "finished" => Complete(r)'
    BY <2>3 DEF Complete
  <2>6. /\ r \in tracked' /\ ~slot'[r].err /\ slot'[r].all = UpTo(Seen(r)') /\ Seen(r)' > 0
        /\ slot'[r].fin = o.fin /\ slot'[r].reason = o.reason
    BY <1>3, <2>1, <2>3 DEF Handed
  <2> QED  BY <2>2, <2>3, <2>4, <2>5, <2>6 DEF SlotRight
<1> QED  BY <1>1, <1>2, <1>3

LEMMA EventRightStep ==
  ASSUME EngineInv, ContractInv, NoFaults, [Next]_vars, NEW r \in Reqs
  PROVE  EventRight(r)'
<1>0. EventRight(r) /\ (Complete(r) => Complete(r)')
  BY SeenStep DEF ContractInv
<1>1. CASE ~Distribute
  <2>1. r \in finishedEvent' => r \in finishedEvent
    <3>1. CASE OwnStep(r)
      BY <3>1 DEF OwnStep, Submit, AddReturns, AddFails, CleanupSafe, StreamTakes, StreamEnds,
         Disconnect, StreamCloses, StreamGone, GenerateEnds, GenerateCancelled, Cancel, OrphanDone
    <3>2. CASE ~OwnStep(r)
      BY <1>1, <3>2, OthersStep DEF EngineInv, Apart, FailAll, ContractInv, NoFailure
    <3> QED  BY <3>1, <3>2
  <2> QED  BY <1>0, <1>1, <2>1, SlotKept DEF EventRight
<1>2. CASE Distribute /\ r \in finishedEvent
  <2>1. Complete(r) /\ slot'[r] = slot[r]
    BY <1>0, <1>2, HandsOut DEF EventRight, Complete
  <2> QED  BY <1>0, <1>2, <2>1 DEF EventRight
<1>3. CASE Distribute /\ r \in finishedEvent' /\ r \notin finishedEvent
  <2>1. PICK o \in outputs : o.req = r /\ r \in tracked /\ o.fin
    BY <1>3 DEF Distribute
  <2>2. Undistributed(r) /\ status[r] = "finished"
    BY <1>3, <2>1 DEF Undistributed, Distribute, StepReturned, ContractInv, OutputsRight
  <2>3. PICK p \in outputs : Handed(r, p)
    BY <1>3, <2>1, <2>2, HandsOut
  <2>4. slot'[r].fin
    BY <2>2, <2>3 DEF Handed, Undistributed, ContractInv, OutputsRight
  <2>5. Complete(r)'
    BY <1>3, <2>2, SeenStep DEF Complete
  <2> QED  BY <2>4, <2>5 DEF EventRight
<1> QED  BY <1>1, <1>2, <1>3 DEF EventRight

DeliveredType == delivered \in [Reqs -> Seq(Nat)]

\* Only the consumer of a call is given its tokens.
LEMMA DeliveredKept ==
  ASSUME [Next]_vars, DeliveredType, NEW r \in Reqs, ~StreamTakes(r), ~GenerateEnds(r)
  PROVE  delivered'[r] = delivered[r]
<1>1. ASSUME NEW q \in Reqs \ {r}, StreamTakes(q) \/ GenerateEnds(q)
      PROVE  delivered'[r] = delivered[r]
  BY <1>1 DEF StreamTakes, GenerateEnds, DeliveredType
<1>2. CASE UNCHANGED delivered
  BY <1>2
<1> QED
  BY <1>1, <1>2
     DEF Next, Worker, EngineLoop, Call, StepBegins, Working, LoopCheck, LoopWake, Distribute,
         FailAll, Submit, AddBegins, AddEnds, AddReturns, AddFails, OrphanDone, CleanupSafe, Cancel,
         StreamEnds, Disconnect, StreamCloses, StreamGone, GenerateCancelled, vars, engineVars

LEMMA DeliveredStep ==
  ASSUME EngineInv, ContractInv, [Next]_vars
  PROVE  DeliveredType'
<1>0. DeliveredType
  BY DEF ContractInv, DeliveredType
<1>1. ASSUME NEW q \in Reqs, StreamTakes(q)  PROVE DeliveredType'
  <2>1. slot[q].new \in Seq(Nat)
    BY <1>1 DEF StreamTakes, EngineInv, SlotTyped, Buffered
  <2>2. delivered[q] \o slot[q].new \in Seq(Nat)
    BY <1>0, <2>1, ConcatParts DEF DeliveredType
  <2> QED  BY <1>0, <1>1, <2>2 DEF StreamTakes, DeliveredType
<1>2. ASSUME NEW q \in Reqs, GenerateEnds(q)  PROVE DeliveredType'
  <2>1. slot[q] # <<>> => slot[q].all \in Seq(Nat)
    BY DEF EngineInv, SlotTyped, Buffered
  <2> QED  BY <1>0, <1>2, <2>1 DEF GenerateEnds, DeliveredType
<1>3. CASE UNCHANGED delivered
  BY <1>0, <1>3 DEF DeliveredType
<1> QED
  BY <1>1, <1>2, <1>3
     DEF Next, Worker, EngineLoop, Call, StepBegins, Working, LoopCheck, LoopWake, Distribute,
         FailAll, Submit, AddBegins, AddEnds, AddReturns, AddFails, OrphanDone, CleanupSafe, Cancel,
         StreamEnds, Disconnect, StreamCloses, StreamGone, GenerateCancelled, vars, engineVars

LEMMA CallRightStep ==
  ASSUME EngineInv, ContractInv, [Next]_vars, NEW r \in Reqs
  PROVE  CallRight(r)'
<1>0. CallTypes /\ VerdictTypes /\ CallRight(r) /\ DeliveredType
  BY TypeParts DEF EngineInv, ContractInv, DeliveredType
<1>1. CASE ~OwnStep(r)
  <2>1. client'[r] = client[r] /\ verdict'[r] = verdict[r]
    BY <1>1, OthersStep DEF EngineInv, Apart
  <2>2. delivered'[r] = delivered[r]
    BY <1>0, <1>1, DeliveredKept DEF OwnStep
  <2> QED  BY <1>0, <2>1, <2>2 DEF CallRight
<1>2. CASE StreamTakes(r)
  <2>1. r \in Streams /\ client'[r] \in {"serving", "closing", "ending"}
    BY <1>0, <1>2 DEF StreamTakes, CallTypes
  <2>2. client'[r] = "serving" => verdict'[r] = verdict[r] /\ client[r] = "serving"
    BY <1>0, <1>2 DEF StreamTakes, CallTypes
  <2> QED  BY <1>0, <2>1, <2>2 DEF CallRight
<1>3. CASE GenerateEnds(r)
  BY <1>0, <1>3 DEF GenerateEnds, CallTypes, CallRight
<1>4. CASE Submit(r) \/ AddReturns(r) \/ Cancel(r) \/ OrphanDone(r) \/ CleanupSafe(r)
  BY <1>0, <1>4 DEF Submit, AddReturns, Cancel, OrphanDone, CleanupSafe, CallTypes, CallRight
<1>5. CASE AddFails(r) \/ GenerateCancelled(r)
  BY <1>0, <1>5 DEF AddFails, GenerateCancelled, CallTypes, CallRight
<1>6. CASE StreamEnds(r) \/ Disconnect(r) \/ StreamCloses(r) \/ StreamGone(r)
  <2>1. /\ client[r] \notin {"new", "adding", "over"}
        /\ client'[r] \notin {"new", "adding", "serving"} /\ delivered' = delivered
    BY <1>0, <1>6 DEF StreamEnds, Disconnect, StreamCloses, StreamGone, CallTypes
  <2> QED  BY <1>0, <2>1 DEF CallRight
<1> QED  BY <1>1, <1>2, <1>3, <1>4, <1>5, <1>6 DEF OwnStep

LEMMA StreamRightStep ==
  ASSUME EngineInv, ContractInv, NoFaults, [Next]_vars, NEW r \in Reqs
  PROVE  StreamRight(r)'
<1>0. /\ CallTypes /\ StreamRight(r) /\ CallRight(r) /\ SlotRight(r) /\ CallPhase(r) /\ DeliveredType
      /\ slot \in [Reqs -> {<<>>} \cup Buffered] /\ TokenCount
      /\ Buffer(r) \in Seq(Nat) /\ delivered[r] \in Seq(Nat) /\ out[r] \in Nat
  BY TypeParts, SMTT(20) DEF EngineInv, ContractInv, DeliveredType, EngineTypeOK, SchedTypeOK, SlotTyped,
     Buffered, Buffer
<1> SUFFICES ASSUME (r \in tracked \cap Streams /\ client[r] \in {"adding", "serving"})'
             PROVE  (delivered[r] \o Buffer(r) = UpTo(Seen(r)))'
  BY DEF StreamRight
<1>1. CASE Submit(r)
  <2>1. delivered'[r] = <<>> /\ slot'[r] = <<>>
    BY <1>0, <1>1 DEF Submit, CallRight, CallPhase, SlotRight
  <2>2. out[r] = 0 /\ status[r] = "none"
    BY <1>0, <1>1 DEF Submit, CallPhase, TokenCount
  <2>3. ~Distribute /\ ~Undistributed(r)
    BY <1>1, <2>2 DEF Submit, Distribute, Undistributed, ContractInv, OutputsRight, Submitted,
       EngineInv, CallPhase
  <2>4. Seen(r)' = 0
    BY <2>2, <2>3, SeenStep DEF Seen
  <2>5. UpTo(0) = <<>> /\ <<>> \o <<>> = <<>>
    <3>1. 0 \in Nat /\ <<>> \in Seq(Nat)
      OBVIOUS
    <3> QED  BY <3>1, UpToFacts, ConcatEmptySeq
  <2> QED  BY <2>1, <2>4, <2>5 DEF Buffer
<1>2. CASE StreamTakes(r)
  <2>1. /\ delivered'[r] = delivered[r] \o slot[r].new /\ slot'[r] = <<>> /\ slot[r] # <<>>
        /\ client[r] = "serving" /\ r \in tracked
    BY <1>0, <1>2 DEF StreamTakes, SlotRight, DeliveredType
  <2>2. delivered'[r] = UpTo(Seen(r))
    BY <1>0, <1>2, <2>1 DEF StreamTakes, StreamRight, Buffer
  <2>3. Seen(r)' = Seen(r)
    BY <1>2, <2>1, SeenStep DEF StreamTakes, Distribute, StepReturned
  <2>4. delivered'[r] \in Seq(Nat)
    BY DeliveredStep DEF DeliveredType
  <2> QED  BY <2>1, <2>2, <2>3, <2>4, ConcatEmptySeq DEF Buffer
<1>3. CASE ~Submit(r) /\ ~StreamTakes(r)
  <2>1. /\ client[r] \in {"adding", "serving"} /\ r \in tracked /\ ~GenerateEnds(r)
    <3>1. CASE OwnStep(r)
      BY <1>0, <1>3, <3>1 DEF OwnStep, AddReturns, AddFails, CleanupSafe, StreamEnds,
         Disconnect, StreamCloses, StreamGone, GenerateEnds, GenerateCancelled, Cancel, OrphanDone,
         Cleanup, CallTypes
    <3>2. CASE ~OwnStep(r)
      BY <3>2, OthersStep DEF EngineInv, Apart, OwnStep
    <3> QED  BY <3>1, <3>2
  <2>2. delivered'[r] = delivered[r] /\ delivered[r] \o Buffer(r) = UpTo(Seen(r))
    BY <1>0, <1>3, <2>1, DeliveredKept DEF StreamRight
  <2>3. CASE ~Distribute
    <3>1. slot'[r] = slot[r]
      <4>1. CASE OwnStep(r)
        BY <1>0, <1>3, <2>1, <4>1 DEF OwnStep, AddReturns, AddFails, CleanupSafe, StreamEnds,
           Disconnect, StreamCloses, StreamGone, GenerateEnds, GenerateCancelled, Cancel, OrphanDone,
           Cleanup, CallTypes
      <4>2. CASE ~OwnStep(r)
        BY <2>3, <4>2, OthersStep DEF EngineInv, Apart, FailAll, ContractInv, NoFailure
      <4> QED  BY <4>1, <4>2
    <3> QED  BY <2>2, <2>3, <3>1, SeenStep DEF Buffer
  <2>4. CASE Distribute /\ ~Undistributed(r)
    <3>1. slot'[r] = slot[r] /\ Seen(r)' = out[r]
      BY <2>4, HandsOut, SeenStep
    <3> QED  BY <2>2, <2>4, <3>1 DEF Buffer, Seen
  <2>5. CASE Distribute /\ Undistributed(r)
    <3>1. /\ slot'[r] # <<>> /\ slot'[r].new = Buffer(r) \o <<out[r]>> /\ out[r] > 0
      BY <2>1, <2>5, HandsOut DEF Handed
    <3>2. Seen(r) = out[r] - 1 /\ Seen(r)' = out[r] /\ out[r] - 1 \in Nat
      BY <1>0, <2>5, <3>1, SeenStep DEF Seen
    <3>3. delivered[r] \o (Buffer(r) \o <<(out[r] - 1) + 1>>) = UpTo((out[r] - 1) + 1)
      BY <1>0, <2>2, <3>2, OneMore
    <3>4. (out[r] - 1) + 1 = out[r]
      BY <1>0
    <3>5. Buffer(r)' = Buffer(r) \o <<out[r]>>
      BY <3>1 DEF Buffer
    <3> QED  BY <2>2, <3>2, <3>3, <3>4, <3>5
  <2> QED  BY <2>3, <2>4, <2>5
<1> QED  BY <1>1, <1>2, <1>3

LEMMA ContractInit == ASSUME Init, NoFaults  PROVE ContractInv
<1>1. TokenCount
  BY DEF Init, SchedInit, TokenCount, EmptyMap
<1>2. OutputsRight /\ NoFailure
  BY Bounds DEF Init, SchedInit, OutputsRight, NoFailure
<1>3. delivered \in [Reqs -> Seq(Nat)]
  <2>1. <<>> \in Seq(Nat)
    OBVIOUS
  <2> QED  BY <2>1 DEF Init
<1>4. ASSUME NEW r \in Reqs  PROVE SlotRight(r) /\ StreamRight(r) /\ CallRight(r) /\ EventRight(r)
  BY DEF Init, SlotRight, StreamRight, CallRight, EventRight
<1> QED  BY <1>1, <1>2, <1>3, <1>4 DEF ContractInv

LEMMA ContractStep ==
  ASSUME EngineInv, ContractInv, NoFaults, [Next]_vars
  PROVE  ContractInv'
<1>1. TokenCount' /\ OutputsRight' /\ NoFailure' /\ DeliveredType'
  BY CountsStep, DeliveredStep
<1>2. \A r \in Reqs : SlotRight(r)' /\ StreamRight(r)' /\ CallRight(r)' /\ EventRight(r)'
  BY SlotRightStep, StreamRightStep, CallRightStep, EventRightStep
<1> QED  BY <1>1, <1>2 DEF ContractInv, DeliveredType

-----------------------------------------------------------------------------
(* Every step of the engine is one the contract allows, or none it sees.   *)

LEMMA Received ==
  ASSUME DeliveredType, NEW r \in Reqs, verdict[r] = "none", NEW n \in Nat,
         NEW v \in {"none", "stop", "length"},
         n > Len(delivered[r]), n <= MaxTokens, Contract!Truthful(n, v),
         delivered' = [delivered EXCEPT ![r] = UpTo(n)], verdict' = [verdict EXCEPT ![r] = v]
  PROVE  Contract!Next
<1>1. n \in Len(delivered[r])..MaxTokens
  BY Bounds DEF DeliveredType
<1>2. UpTo(n) = Contract!UpTo(n)
  BY DEF UpTo, Contract!UpTo
<1>3. Contract!Receive(r)
  BY <1>1, <1>2 DEF Contract!Receive
<1> QED  BY <1>3 DEF Contract!Next

LEMMA EndedEarly ==
  ASSUME NEW r \in Reqs, verdict[r] = "none", NEW v \in {"refused", "error", "gone"},
         verdict' = [verdict EXCEPT ![r] = v], delivered' = delivered
  PROVE  Contract!Next
BY DEF Contract!Next, Contract!End

\* What a buffered output says of the answer so far is true.
LEMMA SlotTruthful ==
  ASSUME EngineInv, ContractInv, NEW r \in Reqs, slot[r] # <<>>
  PROVE  /\ Seen(r) \in Nat /\ Seen(r) > 0 /\ Seen(r) <= MaxTokens
         /\ slot[r].fin => /\ Ended(slot[r]) \in {"stop", "length"}
                           /\ Contract!Truthful(Seen(r), Ended(slot[r]))
         /\ ~slot[r].err
<1>1. SlotRight(r) /\ out[r] \in Nat /\ out[r] <= MaxTokens
  BY DEF ContractInv, NoFailure, EngineInv, EngineTypeOK, SchedTypeOK
<1>2. Seen(r) > 0 /\ Seen(r) \in Nat /\ Seen(r) <= MaxTokens
  BY <1>1, Bounds DEF SlotRight, Seen
<1>3. ASSUME slot[r].fin
      PROVE  Ended(slot[r]) \in {"stop", "length"} /\ Contract!Truthful(Seen(r), Ended(slot[r]))
  <2>1. Ended(slot[r]) = slot[r].reason /\ slot[r].reason \in {"stop", "length"}
    BY <1>1, <1>3 DEF SlotRight, Ended
  <2>2. slot[r].reason = "length" => Seen(r) = MaxTokens
    BY <1>1, <1>3 DEF SlotRight, Complete, Seen
  <2> QED  BY <1>2, <2>1, <2>2 DEF Contract!Truthful
<1> QED  BY <1>1, <1>2, <1>3 DEF SlotRight

LEMMA ContractAllows ==
  ASSUME EngineInv, ContractInv, [Next]_vars
  PROVE  [Contract!Next]_<<delivered, verdict>>
<1>0. CallTypes /\ VerdictTypes /\ DeliveredType /\ slot \in [Reqs -> {<<>>} \cup Buffered]
  BY TypeParts DEF EngineInv, ContractInv, DeliveredType, SlotTyped
<1>1. ASSUME NEW r \in Reqs, client[r] \in {"new", "adding", "serving"}  PROVE verdict[r] = "none"
  BY <1>1 DEF ContractInv, CallRight
<1>2. ASSUME NEW r \in Reqs, AddFails(r) \/ GenerateCancelled(r)
      PROVE  Contract!Next
  <2>1. verdict[r] = "none" /\ delivered' = delivered
    BY <1>1, <1>2 DEF AddFails, GenerateCancelled
  <2>2. \E v \in {"refused", "gone"} : verdict' = [verdict EXCEPT ![r] = v]
    BY <1>2 DEF AddFails, GenerateCancelled
  <2> QED  BY <2>1, <2>2, EndedEarly
<1>3. ASSUME NEW r \in Reqs, Disconnect(r)
      PROVE  [Contract!Next]_<<delivered, verdict>>
  <2>1. CASE verdict[r] = "none"
    BY <1>3, <2>1, EndedEarly DEF Disconnect
  <2>2. CASE verdict[r] # "none"
    BY <1>0, <1>3, <2>2 DEF Disconnect, VerdictTypes
  <2> QED  BY <2>1, <2>2
<1>4. ASSUME NEW r \in Reqs, StreamTakes(r)
      PROVE  Contract!Next
  <2>1. /\ slot[r] # <<>> /\ verdict[r] = "none" /\ client[r] = "serving" /\ r \in Streams
        /\ SlotRight(r) /\ StreamRight(r)
    BY <1>1, <1>4 DEF StreamTakes, ContractInv
  <2>2. /\ Seen(r) \in Nat /\ Seen(r) <= MaxTokens /\ ~slot[r].err
        /\ slot[r].fin => /\ Ended(slot[r]) \in {"stop", "length"}
                          /\ Contract!Truthful(Seen(r), Ended(slot[r]))
    BY <2>1, SlotTruthful
  <2>3. delivered[r] \o slot[r].new = UpTo(Seen(r))
    BY <2>1 DEF SlotRight, StreamRight, Buffer
  <2>4. Seen(r) > Len(delivered[r])
    <3>1. slot[r].new \in Seq(Nat) /\ delivered[r] \in Seq(Nat) /\ Len(slot[r].new) > 0
      BY <1>0, <2>1 DEF DeliveredType, SlotRight, Buffered
    <3> QED  BY <2>2, <2>3, <3>1, Longer
  <2>5. delivered' = [delivered EXCEPT ![r] = UpTo(Seen(r))]
    BY <1>4, <2>2, <2>3 DEF StreamTakes
  <2>6. CASE slot[r].fin
    <3>1. verdict' = [verdict EXCEPT ![r] = Ended(slot[r])]
      BY <1>4, <2>6 DEF StreamTakes
    <3> QED  BY <1>0, <2>1, <2>2, <2>4, <2>5, <2>6, <3>1, Received
  <2>7. CASE ~slot[r].fin
    <3>1. verdict' = [verdict EXCEPT ![r] = "none"]
      BY <1>0, <1>4, <2>1, <2>7 DEF StreamTakes, VerdictTypes
    <3>2. Contract!Truthful(Seen(r), "none")
      BY DEF Contract!Truthful
    <3> QED  BY <1>0, <2>1, <2>2, <2>4, <2>5, <3>1, <3>2, Received
  <2> QED  BY <2>6, <2>7
<1>5. ASSUME NEW r \in Reqs, GenerateEnds(r)
      PROVE  Contract!Next
  <2>1. /\ verdict[r] = "none" /\ delivered[r] = <<>> /\ EventRight(r) /\ SlotRight(r)
        /\ r \in finishedEvent
    BY <1>1, <1>5 DEF GenerateEnds, ContractInv, CallRight
  <2>2. CASE slot[r] = <<>>
    BY <1>5, <2>1, <2>2, EndedEarly DEF GenerateEnds
  <2>3. CASE slot[r] # <<>>
    <3>1. /\ Seen(r) \in Nat /\ Seen(r) > 0 /\ Seen(r) <= MaxTokens /\ ~slot[r].err
          /\ Ended(slot[r]) \in {"stop", "length"} /\ Contract!Truthful(Seen(r), Ended(slot[r]))
      BY <2>1, <2>3, SlotTruthful DEF EventRight
    <3>2. /\ verdict' = [verdict EXCEPT ![r] = Ended(slot[r])]
          /\ delivered' = [delivered EXCEPT ![r] = UpTo(Seen(r))]
      BY <1>5, <2>1, <2>3, <3>1 DEF GenerateEnds, SlotRight
    <3>3. Len(delivered[r]) = 0
      BY <2>1
    <3> QED  BY <1>0, <2>1, <3>1, <3>2, <3>3, Received
  <2> QED  BY <2>2, <2>3
<1>6. CASE UNCHANGED <<delivered, verdict>>
  BY <1>6
<1> QED
  BY <1>2, <1>3, <1>4, <1>5, <1>6
     DEF Next, Worker, EngineLoop, Call, StepBegins, Working, LoopCheck, LoopWake, Distribute,
         FailAll, Submit, AddBegins, AddEnds, AddReturns, OrphanDone, CleanupSafe, Cancel,
         StreamEnds, StreamCloses, StreamGone, vars, engineVars

\* As long as no step fails, every client gets its tokens once each and in
\* order, is told once how its answer ended, and is told the truth: with calls
\* that are refused, cancelled through the route or left at any await.
THEOREM EngineKeepsContract ==
  ASSUME NoFaults
  PROVE  Spec => ContractHolds
<1>1. Init => ContractInv /\ Contract!Init
  BY ContractInit DEF Init, Contract!Init
<1>2. EngineInv /\ ContractInv /\ [Next]_vars => ContractInv'
  BY ContractStep
<1>3. EngineInv /\ ContractInv /\ [Next]_vars => [Contract!Next]_<<delivered, verdict>>
  BY ContractAllows
<1> QED
  BY <1>1, <1>2, <1>3, EngineInvariant, PTL DEF Spec, ContractHolds, Contract!Spec
=============================================================================
