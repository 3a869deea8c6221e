---------------------------- MODULE EngineProofs ----------------------------
(***************************************************************************)
(* Proofs about EngineCore: the scheduler's invariants hold under the      *)
(* calls the engine makes, and no call that is over leaves anything        *)
(* behind, for every number of calls, of streams, of faults and of clients *)
(* that leave at any await.                                                *)
(***************************************************************************)
EXTENDS EngineCore, SchedulerProofs

-----------------------------------------------------------------------------
(* The inductive invariant.                                                *)

\* The worker has dropped the request, or its abort is queued.
Released(r) == r \notin Waiting \cup running \/ r \in pending

\* For good: it will not be let in any more.
Settled(r) == status[r] # "none" /\ Released(r)

\* How far a call has come and what its add job did meanwhile.
CallPhase(r) ==
  /\ future[r] = "none" <=> client[r] = "new"
  /\ status[r] = "none" <=> future[r] # "done"
  /\ client[r] = "adding" => future[r] \in {"queued", "running", "done", "refused"}
  /\ client[r] \notin {"new", "adding", "over"} => future[r] = "done"
  /\ client[r] = "over" => \/ future[r] \in {"done", "refused", "cancelled"}
                           \/ future[r] = "running" /\ r \in orphans
  /\ r \in orphans => client[r] = "over" /\ future[r] # "cancelled" /\ r \notin callbacks
  /\ r \in callbacks => client[r] = "over"
  /\ r \in tracked => client[r] # "new"

\* The queue holds a job once: the add jobs that wait there, and the step job
\* between its submission and its start.
JobSet == {Step} \cup {Add(r) : r \in Reqs}

JobQueue ==
  /\ jobs \in Seq(JobSet) /\ IsInjective(jobs)
  /\ Step \in ToSet(jobs) => loop = "submitted"
  /\ \A r \in Reqs : Add(r) \in ToSet(jobs) => future[r] = "queued"

\* A final output is about a request that has left the lists, and a step has no
\* output before its end.
FinalOutputs ==
  /\ \A o \in outputs : o.fin => o.req \in Submitted /\ o.req \notin Waiting \cup running
  /\ pc # "idle" => outputs = {} /\ loop = "stepping"

\* So is a final output in a slot, unless the loop has put an error there.
Reasons == {"none", "stop", "length"}
Buffered == [new : Seq(Nat), all : Seq(Nat), fin : BOOLEAN, reason : Reasons, err : BOOLEAN]
SlotTyped == slot \in [Reqs -> {<<>>} \cup Buffered]

FinalSlot(r) ==
  slot[r] # <<>> /\ slot[r].fin /\ ~slot[r].err =>
    Settled(r) \/ (r \in failed /\ slot[r].reason = "length")

\* Until a call is aborted, the scheduler knows its request.
StillKnown(r) ==
  future[r] = "done" /\ (client[r] \in {"adding", "serving", "ending", "closing", "dropped"}
                         \/ r \in orphans)
    => r \in requests \/ Released(r)

\* A call that is over, or past its last abort, has let its request go.
LetGo(r) ==
  /\ client[r] = "ending" => Settled(r) \/ (r \in failed /\ verdict[r] = "length")
  /\ client[r] \in {"last", "unclean", "over"} =>
       Released(r) \/ EndsUnaborted(r) \/ r \in orphans
  /\ r \in finishedEvent => Settled(r) \/ r \in failed

EngineInv ==
  /\ EngineTypeOK /\ SchedInv /\ LedgerInv
  /\ JobQueue /\ SlotTyped /\ FinalOutputs
  /\ \A r \in Reqs : CallPhase(r) /\ FinalSlot(r) /\ StillKnown(r) /\ LetGo(r)

-----------------------------------------------------------------------------
(* What a step of the engine is for the scheduler.                         *)

\* The asyncio thread's calls, alone or together: an abort and a clean-up.
Outside ==
  /\ UNCHANGED <<waiting, running, status, out, genVars, stepVars>>
  /\ requests' \subseteq requests
  /\ UNCHANGED abortVars \/ \E r \in Reqs : AbortRequest(r) \/ ForceAbort(r)

StepJob ==
  /\ pc = "idle" /\ pc' = "aborts" /\ attempt' = 0 /\ outputs' = {} /\ raised' = FALSE
  /\ loop' = "stepping"
  /\ UNCHANGED <<queueVars, genVars, abortVars, faults>>

Admits == \E r \in Reqs : future[r] = "running" /\ Admit(r) /\ future'[r] = "done"

SchedulerStep == Work \/ Admits \/ StepJob \/ Outside

LEMMA OutsideOf ==
  ASSUME NEW r \in Reqs,
         UNCHANGED <<waiting, running, status, out, genVars, stepVars>>,
         requests' \subseteq requests,
         AbortRequest(r) \/ ForceAbort(r) \/ UNCHANGED abortVars
  PROVE  Outside
BY DEF Outside

LEMMA NextAsSchedulerStep == ASSUME EngineTypeOK, [Next]_vars  PROVE SchedulerStep
<1>1. CASE UNCHANGED vars
  BY <1>1 DEF vars, schedVars, queueVars, Outside, SchedulerStep
<1>2. CASE Working
  BY <1>2 DEF Working, SchedulerStep
<1>3. CASE StepBegins
  BY <1>3 DEF StepBegins, WorkerFree, StepJob, SchedulerStep
<1>4. ASSUME NEW r \in Reqs, AddEnds(r)  PROVE SchedulerStep
  <2>1. CASE Admit(r) /\ future' = [future EXCEPT ![r] = "done"]
    BY <1>4, <2>1 DEF AddEnds, Admits, SchedulerStep, EngineTypeOK
  <2>2. CASE Refuse(r)
    BY <2>2 DEF Refuse, schedVars, queueVars, Outside, SchedulerStep
  <2> QED  BY <1>4, <2>1, <2>2 DEF AddEnds
<1>5. CASE UNCHANGED schedVars
  BY <1>5 DEF schedVars, queueVars, Outside, SchedulerStep
<1>6. ASSUME NEW r \in Reqs,
             AddBegins(r) \/ Submit(r) \/ AddReturns(r) \/ StreamTakes(r)
      PROVE  SchedulerStep
  BY <1>5, <1>6 DEF AddBegins, Submit, AddReturns, StreamTakes
<1>7. CASE EngineLoop
  BY <1>5, <1>7 DEF EngineLoop, LoopCheck, LoopWake, Distribute, FailAll
<1>8. ASSUME NEW r \in Reqs,
             OrphanDone(r) \/ AddFails(r) \/ Disconnect(r)
      PROVE  SchedulerStep
  <2>1. AbortRequest(r) \/ ForceAbort(r) \/ UNCHANGED abortVars
    BY <1>8 DEF OrphanDone, AddFails, Disconnect
  <2>2. UNCHANGED <<queueVars, genVars, stepVars>>
    BY <1>8 DEF OrphanDone, AddFails, Disconnect
  <2> QED  BY <2>1, <2>2, OutsideOf DEF queueVars, SchedulerStep
<1>9. ASSUME NEW r \in Reqs,
             \/ CleanupSafe(r) \/ StreamEnds(r) \/ StreamCloses(r) \/ StreamGone(r)
             \/ GenerateEnds(r) \/ GenerateCancelled(r) \/ Cancel(r)
      PROVE  SchedulerStep
  <2>1. RemoveFinished(r)
    BY <1>9 DEF CleanupSafe, StreamEnds, StreamCloses, StreamGone, GenerateEnds,
                GenerateCancelled, Cancel, Cleanup
  <2>2. UNCHANGED <<genVars, stepVars>>
    BY <1>9 DEF CleanupSafe, StreamEnds, StreamCloses, StreamGone, GenerateEnds,
                GenerateCancelled, Cancel
  <2>3. AbortRequest(r) \/ ForceAbort(r) \/ UNCHANGED abortVars
    BY <1>9 DEF CleanupSafe, StreamEnds, StreamCloses, StreamGone, GenerateEnds,
                GenerateCancelled, Cancel
  <2> QED  BY <2>1, <2>2, <2>3, OutsideOf DEF RemoveFinished, SchedulerStep
<1> QED
  BY <1>1, <1>2, <1>3, <1>4, <1>6, <1>7, <1>8, <1>9 DEF Next, Worker, Call

LEMMA OutsideInv == ASSUME SchedInv, Outside  PROVE SchedInv'
<1>1. SchedTypeOK'
  <2>1. CASE UNCHANGED abortVars
    BY <2>1 DEF Outside, SchedInv, SchedTypeOK, abortVars, genVars, stepVars
  <2>2. ASSUME NEW r \in Reqs, AbortRequest(r)  PROVE SchedTypeOK'
    BY <2>2 DEF Outside, AbortRequest, Once, SchedInv, SchedTypeOK, genVars, stepVars
  <2>3. ASSUME NEW r \in Reqs, ForceAbort(r)  PROVE SchedTypeOK'
    BY <2>3 DEF Outside, ForceAbort, Once, SchedInv, SchedTypeOK, abortVars, genVars, stepVars
  <2> QED  BY <2>1, <2>2, <2>3 DEF Outside
<1> QED  BY <1>1, CoreUnchanged DEF Outside

LEMMA StepJobInv == ASSUME SchedInv, StepJob  PROVE SchedInv'
<1>1. attempt' \in 0..MaxRetries /\ outputs' \subseteq Output
  BY Bounds DEF StepJob
<1>2. SchedTypeOK'
  BY <1>1 DEF SchedInv, StepJob, SchedTypeOK, queueVars, genVars, abortVars
<1> QED  BY <1>2, CoreUnchanged DEF StepJob, queueVars

LEMMA WorkInv == ASSUME SchedInv, Work  PROVE SchedInv'
<1>1. [SchedNext]_schedVars
  BY DEF SchedNext
<1> QED  BY <1>1, StepInv

\* A request whose add job runs was not admitted before.
AddsAreNew == \A r \in Reqs : future[r] = "running" => status[r] = "none"

LEMMA SchedulerStepInv ==
  ASSUME SchedInv, AddsAreNew, SchedulerStep
  PROVE  SchedInv'
<1>1. CASE Admits
  BY <1>1, AdmitInv DEF Admits, AddsAreNew
<1> QED  BY <1>1, WorkInv, StepJobInv, OutsideInv DEF SchedulerStep

LEMMA SchedulerStepLedger ==
  ASSUME SchedInv, LedgerInv, AddsAreNew, SchedulerStep
  PROVE  LedgerInv'
<1>1. CASE Work
  BY <1>1, LedgerStep DEF SchedNext
<1>2. CASE Admits
  <2>1. PICK r \in Reqs : Admit(r) /\ status[r] = "none"
    BY <1>2 DEF Admits, AddsAreNew
  <2> QED  BY <2>1, AdmitLedger
<1>3. CASE StepJob
  BY <1>3 DEF StepJob, queueVars, abortVars, LedgerInv, Submitted
<1>4. CASE Outside
  <2>1. CASE UNCHANGED abortVars
    BY <1>4, <2>1 DEF Outside, abortVars, LedgerInv, Submitted
  <2> QED  BY <1>4, <2>1, AbortLedger DEF Outside
<1> QED  BY <1>1, <1>2, <1>3, <1>4 DEF SchedulerStep

-----------------------------------------------------------------------------
(* What a step does to the lists and the statuses.                         *)

LEMMA AddsNew == ASSUME EngineInv  PROVE AddsAreNew
BY DEF EngineInv, CallPhase, AddsAreNew

\* Only add_request lets a request in.
LEMMA ListsStep ==
  ASSUME SchedInv, LedgerInv, SchedulerStep
  PROVE  \/ Steady /\ requests' \subseteq requests
         \/ Admits
<1>1. CASE Work
  BY <1>1, WorkSteady, WorkLedgers DEF LedgerInv
<1>2. CASE StepJob
  BY <1>2 DEF StepJob, queueVars, Steady, Waiting, Submitted
<1>3. CASE Outside
  BY <1>3 DEF Outside, Steady, Waiting, Submitted
<1> QED  BY <1>1, <1>2, <1>3 DEF SchedulerStep

LEMMA AdmitsLists ==
  ASSUME SchedInv, NEW r \in Reqs, Admit(r)
  PROVE  /\ (Waiting \cup running)' = Waiting \cup running \cup {r}
         /\ Submitted' = Submitted \cup {r}
         /\ requests' = requests \cup {r} /\ pending' = pending
<1>1. Waiting' = Waiting \cup {r} /\ running' = running
  BY ToSetAppend DEF Admit, SchedInv, SchedTypeOK, Waiting
<1>2. Submitted' = Submitted \cup {r}
  BY DEF Admit, Submitted, SchedInv, SchedTypeOK
<1> QED  BY <1>1, <1>2 DEF Admit

\* A pending abort is dropped only when it is carried out.
LEMMA PendingStep ==
  ASSUME SchedInv, SchedulerStep, NEW r \in Reqs, r \in pending, r \notin pending'
  PROVE  r \notin (Waiting \cup running)'
<1>1. CASE Work
  <2>1. DoAbort(r)
    BY <1>1, WorkLedgers DEF DoAbort
  <2> QED  BY <2>1, AbortUnqueues DEF DoAbort
<1>2. CASE ~Work
  BY <1>2 DEF SchedulerStep, Admits, Admit, StepJob, Outside, AbortRequest, ForceAbort, abortVars
<1> QED  BY <1>1, <1>2

LEMMA ReleasedStays ==
  ASSUME SchedInv, LedgerInv, SchedulerStep, AddsAreNew, NEW r \in Reqs,
         status[r] # "none", Released(r)
  PROVE  Released(r)'
<1>1. CASE r \in pending
  BY <1>1, PendingStep DEF Released
<1>2. CASE r \notin Waiting \cup running
  <2>1. CASE Admits
    <3>1. PICK q \in Reqs : future[q] = "running" /\ Admit(q)
      BY <2>1 DEF Admits
    <3>2. q # r
      BY <3>1 DEF AddsAreNew
    <3> QED  BY <3>1, <3>2, <1>2, AdmitsLists DEF Released
  <2>2. CASE Steady
    BY <2>2, <1>2 DEF Steady, Released
  <2> QED  BY <2>1, <2>2, ListsStep
<1> QED  BY <1>1, <1>2 DEF Released

\* An abort of a request the scheduler knows is queued.
LEMMA AbortReleases ==
  ASSUME NEW r \in Reqs, AbortRequest(r) \/ ForceAbort(r),
         r \in requests \/ Released(r), UNCHANGED <<waiting, running>>
  PROVE  Released(r)'
BY DEF AbortRequest, ForceAbort, Known, Released, Waiting, abortVars

-----------------------------------------------------------------------------
(* Type correctness and the queue of jobs.                                 *)

LEMMA SchedPart ==
  ASSUME EngineInv, [Next]_vars
  PROVE  SchedulerStep /\ SchedInv' /\ LedgerInv' /\ AddsAreNew
BY AddsNew, NextAsSchedulerStep, SchedulerStepInv, SchedulerStepLedger DEF EngineInv

LEMMA JobKinds == \A r \in Reqs : Add(r) # Step /\ \A q \in Reqs : Add(q) = Add(r) => q = r
BY DEF Add, Step

LEMMA JobsStep == ASSUME EngineInv, [Next]_vars  PROVE JobQueue'
<1> USE DEF EngineInv, JobQueue
<1>1. Step \in JobSet /\ \A q \in Reqs : Add(q) \in JobSet
  BY DEF JobSet
<1>2. ASSUME NEW r \in Reqs, Submit(r)  PROVE JobQueue'
  <2>1. Add(r) \notin ToSet(jobs)
    BY <1>2 DEF Submit, CallPhase
  <2>2. /\ jobs' \in Seq(JobSet) /\ IsInjective(jobs') /\ ToSet(jobs') = ToSet(jobs) \cup {Add(r)}
    BY <1>1, <1>2, <2>1, ToSetAppend DEF Submit
  <2>3. /\ loop' = loop /\ future'[r] = "queued"
        /\ \A q \in Reqs \ {r} : future'[q] = future[q]
    BY <1>2 DEF Submit, EngineTypeOK
  <2> QED  BY <2>2, <2>3, JobKinds
<1>3. ASSUME NEW r \in Reqs, AddBegins(r)  PROVE JobQueue'
  <2>1. jobs # <<>> /\ Head(jobs) = Add(r) /\ jobs' = Tail(jobs)
    BY <1>3 DEF AddBegins
  <2>2. /\ jobs' \in Seq(JobSet) /\ IsInjective(jobs')
        /\ ToSet(jobs') \subseteq ToSet(jobs) /\ Add(r) \notin ToSet(jobs')
    BY <2>1, ToSetTail
  <2>3. loop' = loop /\ \A q \in Reqs \ {r} : future'[q] = future[q]
    BY <1>3 DEF AddBegins, EngineTypeOK
  <2> QED  BY <2>2, <2>3
<1>4. ASSUME NEW r \in Reqs, AddEnds(r)  PROVE JobQueue'
  <2>1. jobs' = jobs /\ loop' = loop /\ \A q \in Reqs \ {r} : future'[q] = future[q]
    BY <1>4 DEF AddEnds, EngineTypeOK
  <2>2. Add(r) \notin ToSet(jobs)
    BY <1>4 DEF AddEnds
  <2> QED  BY <2>1, <2>2
<1>5. ASSUME NEW r \in Reqs, AddFails(r)  PROVE JobQueue'
  <2>1. CASE future[r] = "queued"
    <3>1. /\ jobs' \in Seq(JobSet) /\ IsInjective(jobs') /\ ToSet(jobs') = ToSet(jobs) \ {Add(r)}
      BY <1>5, <2>1, ToSetRemoveFirst DEF AddFails
    <3>2. loop' = loop /\ \A q \in Reqs \ {r} : future'[q] = future[q]
      BY <1>5, <2>1 DEF AddFails, EngineTypeOK
    <3> QED  BY <3>1, <3>2
  <2>2. CASE future[r] # "queued"
    BY <1>5, <2>2 DEF AddFails
  <2> QED  BY <2>1, <2>2
<1>6. CASE StepBegins
  <2>1. jobs # <<>> /\ Head(jobs) = Step /\ jobs' = Tail(jobs) /\ future' = future
    BY <1>6 DEF StepBegins
  <2>2. /\ jobs' \in Seq(JobSet) /\ IsInjective(jobs')
        /\ ToSet(jobs') \subseteq ToSet(jobs) /\ Step \notin ToSet(jobs')
    BY <2>1, ToSetTail
  <2> QED  BY <2>1, <2>2
<1>7. CASE LoopCheck
  <2>1. CASE HasRequests
    <3>1. Step \notin ToSet(jobs)
      BY <1>7 DEF LoopCheck
    <3>2. jobs' = Append(jobs, Step) /\ loop' = "submitted" /\ future' = future
      BY <1>7, <2>1 DEF LoopCheck
    <3>3. /\ jobs' \in Seq(JobSet) /\ IsInjective(jobs') /\ ToSet(jobs') = ToSet(jobs) \cup {Step}
      BY <1>1, <3>1, <3>2, ToSetAppend
    <3> QED  BY <3>2, <3>3, JobKinds
  <2>2. CASE ~HasRequests
    BY <1>7, <2>2 DEF LoopCheck
  <2> QED  BY <2>1, <2>2
<1>8. CASE UNCHANGED <<jobs, future>> /\ (loop' = loop \/ loop # "submitted")
  BY <1>8
<1>9. CASE LoopWake \/ Distribute \/ FailAll
  BY <1>8, <1>9 DEF LoopWake, Distribute, FailAll, StepReturned
<1>10. CASE UNCHANGED vars \/ Working
  BY <1>8, <1>10 DEF vars, engineVars, Working
<1>11. ASSUME NEW r \in Reqs,
              \/ OrphanDone(r) \/ AddReturns(r) \/ CleanupSafe(r) \/ StreamTakes(r)
              \/ StreamEnds(r) \/ Disconnect(r) \/ StreamCloses(r) \/ StreamGone(r)
              \/ GenerateEnds(r) \/ GenerateCancelled(r) \/ Cancel(r)
       PROVE  JobQueue'
  BY <1>8, <1>11 DEF OrphanDone, AddReturns, CleanupSafe, StreamTakes, StreamEnds, Disconnect,
       StreamCloses, StreamGone, GenerateEnds, GenerateCancelled, Cancel
<1> QED
  BY <1>2, <1>3, <1>4, <1>5, <1>6, <1>7, <1>9, <1>10, <1>11 DEF Next, Worker, EngineLoop, Call

-----------------------------------------------------------------------------
(* The collectors' slots.                                                  *)

LEMMA FreshType ==
  ASSUME NEW o \in Output
  PROVE  Fresh(o) \in Buffered
<1>1. /\ <<>> \in Seq(Nat) /\ <<o.tok>> \in Seq(Nat)
      /\ [i \in 1..o.tok |-> i] \in Seq(Nat)
  BY DEF Output
<1>2. o.fin \in BOOLEAN /\ o.err \in BOOLEAN /\ o.reason \in Reasons
  BY DEF Output, Reasons
<1> QED  BY <1>1, <1>2 DEF Fresh, Buffered

LEMMA ErrorType == ErrorOutput \in Buffered
<1>1. <<>> \in Seq(Nat)
  OBVIOUS
<1>2. "length" \in Reasons
  BY DEF Reasons
<1> QED  BY <1>1, <1>2 DEF ErrorOutput, Buffered

LEMMA PutType ==
  ASSUME NEW b \in {<<>>} \cup Buffered, NEW o \in Buffered
  PROVE  /\ PutOutput(b, o) \in Buffered
         /\ PutOutput(b, o).fin = o.fin /\ PutOutput(b, o).reason = o.reason
         /\ b # <<>> => PutOutput(b, o).err = FALSE
         /\ b = <<>> => PutOutput(b, o) = o
<1>1. CASE b = <<>>
  BY <1>1 DEF PutOutput
<1>2. CASE b # <<>>
  <2>1. b.new \o o.new \in Seq(Nat)
    BY <1>2 DEF Buffered
  <2>2. /\ Merge(b, o) \in Buffered /\ Merge(b, o).err = FALSE
        /\ Merge(b, o).fin = o.fin /\ Merge(b, o).reason = o.reason
    BY <2>1 DEF Merge, Buffered
  <2>3. PutOutput(b, o) = Merge(b, o)
    BY <1>2 DEF PutOutput
  <2> QED  BY <1>2, <2>2, <2>3
<1> QED  BY <1>1, <1>2

\* Distribute merges into a slot an output of the step for that request.
LEMMA Distributed ==
  ASSUME EngineTypeOK, Distribute, NEW r \in Reqs
  PROVE  \/ slot'[r] = slot[r]
         \/ \E o \in outputs : /\ o.req = r /\ o \in Output
                               /\ slot'[r] = PutOutput(slot[r], Fresh(o))
<1> DEFINE live == {o \in outputs : o.req \in tracked}
           For(q) == CHOOSE o \in live : o.req = q
<1>1. slot' = [q \in Reqs |-> IF \E o \in live : o.req = q
                              THEN PutOutput(slot[q], Fresh(For(q))) ELSE slot[q]]
  BY DEF Distribute
<1>3. CASE \E o \in live : o.req = r
  <2>1. For(r) \in live /\ For(r).req = r
    BY <1>3
  <2>2. For(r) \in Output
    BY <2>1 DEF EngineTypeOK, SchedTypeOK
  <2> QED  BY <1>1, <1>3, <2>1, <2>2
<1>4. CASE ~ \E o \in live : o.req = r
  BY <1>1, <1>4
<1> QED  BY <1>3, <1>4

LEMMA SlotStep == ASSUME EngineInv, [Next]_vars  PROVE SlotTyped'
<1> USE DEF EngineInv, SlotTyped
<1>1. CASE Distribute
  <2>1. ASSUME NEW r \in Reqs  PROVE slot'[r] \in {<<>>} \cup Buffered
    <3>1. slot[r] \in {<<>>} \cup Buffered
      OBVIOUS
    <3>2. CASE slot'[r] # slot[r]
      <4>1. PICK o \in Output : slot'[r] = PutOutput(slot[r], Fresh(o))
        BY <1>1, <3>2, Distributed
      <4>2. Fresh(o) \in Buffered
        BY FreshType
      <4> QED  BY <3>1, <4>1, <4>2, PutType
    <3> QED  BY <3>1, <3>2
  <2>2. DOMAIN slot' = Reqs /\ slot' = [r \in DOMAIN slot' |-> slot'[r]]
    BY <1>1 DEF Distribute
  <2> QED  BY <2>1, <2>2
<1>2. CASE FailAll
  <2>1. \A r \in Reqs : slot[r] \in {<<>>} \cup Buffered
    OBVIOUS
  <2> QED  BY <1>2, <2>1, ErrorType, PutType DEF FailAll
<1>3. CASE \E r \in Reqs : UNCHANGED slot \/ slot' = [slot EXCEPT ![r] = <<>>]
  BY <1>3
<1>4. ASSUME NEW r \in Reqs,
             \/ Call(r) \/ AddBegins(r) \/ AddEnds(r) \/ OrphanDone(r)
      PROVE  SlotTyped'
  BY <1>3, <1>4 DEF Call, Submit, AddReturns, AddFails, CleanupSafe, StreamTakes, StreamEnds,
       Disconnect, StreamCloses, StreamGone, GenerateEnds, GenerateCancelled, Cancel, Cleanup,
       AddBegins, AddEnds, OrphanDone
<1>5. CASE StepBegins \/ Working \/ LoopCheck \/ LoopWake \/ UNCHANGED vars
  BY <1>5 DEF StepBegins, Working, LoopCheck, LoopWake, vars, engineVars
<1> QED  BY <1>1, <1>2, <1>4, <1>5 DEF Next, Worker, EngineLoop

\* What EngineTypeOK says of the engine's own variables.
CallTypes ==
  /\ client \in [Reqs -> {"new", "adding", "serving", "ending", "closing", "dropped",
                          "last", "unclean", "over"}]
  /\ future \in [Reqs -> {"none", "queued", "running", "done", "refused", "cancelled"}]
SetTypes ==
  /\ orphans \subseteq Reqs /\ callbacks \subseteq Reqs /\ tracked \subseteq Reqs
  /\ finishedEvent \subseteq Reqs /\ failed \subseteq Reqs
VerdictTypes == verdict \in [Reqs -> {"none", "stop", "length", "error", "refused", "gone"}]
LoopTypes == loop \in {"check", "submitted", "stepping", "idle"} /\ idleEvent \in BOOLEAN

LEMMA CallTypesStep == ASSUME CallTypes, [Next]_vars  PROVE CallTypes'
<1> USE DEF CallTypes
<1>1. ASSUME NEW r \in Reqs,
             \/ Submit(r) \/ AddBegins(r) \/ AddEnds(r) \/ AddReturns(r) \/ AddFails(r)
      PROVE  CallTypes'
  BY <1>1 DEF Submit, AddBegins, AddEnds, AddReturns, AddFails
<1>2. ASSUME NEW r \in Reqs,
             \/ StreamTakes(r) \/ StreamEnds(r) \/ Disconnect(r) \/ StreamCloses(r)
             \/ StreamGone(r) \/ GenerateEnds(r) \/ GenerateCancelled(r)
      PROVE  CallTypes'
  BY <1>2 DEF StreamTakes, StreamEnds, Disconnect, StreamCloses, StreamGone, GenerateEnds,
              GenerateCancelled
<1>3. CASE UNCHANGED <<client, future>>
  BY <1>3
<1> QED
  BY <1>1, <1>2, <1>3
     DEF Next, Worker, EngineLoop, Call, StepBegins, Working, LoopCheck, LoopWake, Distribute,
         FailAll, OrphanDone, CleanupSafe, Cancel, vars, engineVars

LEMMA SetTypesStep == ASSUME SetTypes, SchedTypeOK, [Next]_vars  PROVE SetTypes'
<1> USE DEF SetTypes
<1>1. ASSUME NEW r \in Reqs,
             \/ Submit(r) \/ AddBegins(r) \/ AddEnds(r) \/ AddReturns(r) \/ AddFails(r)
             \/ OrphanDone(r)
      PROVE  SetTypes'
  BY <1>1 DEF Submit, AddBegins, AddEnds, AddReturns, AddFails, OrphanDone
<1>2. ASSUME NEW r \in Reqs,
             \/ StreamTakes(r) \/ StreamEnds(r) \/ Disconnect(r) \/ StreamCloses(r)
             \/ StreamGone(r) \/ GenerateEnds(r) \/ GenerateCancelled(r) \/ CleanupSafe(r)
             \/ Cancel(r)
      PROVE  SetTypes'
  BY <1>2 DEF StreamTakes, StreamEnds, Disconnect, StreamCloses, StreamGone, GenerateEnds,
              GenerateCancelled, CleanupSafe, Cancel, Cleanup
<1>3. CASE Distribute
  <2>1. \A o \in outputs : o.req \in Reqs
    BY DEF SchedTypeOK, Output
  <2> QED  BY <1>3, <2>1 DEF Distribute
<1>4. CASE FailAll
  BY <1>4 DEF FailAll
<1>5. CASE UNCHANGED <<orphans, callbacks, tracked, finishedEvent, failed>>
  BY <1>5
<1> QED
  BY <1>1, <1>2, <1>3, <1>4, <1>5
     DEF Next, Worker, EngineLoop, Call, StepBegins, Working, LoopCheck, LoopWake, vars, engineVars

LEMMA VerdictTypesStep == ASSUME VerdictTypes, SlotTyped, [Next]_vars  PROVE VerdictTypes'
<1> USE DEF VerdictTypes
<1>1. ASSUME NEW r \in Reqs, StreamTakes(r) \/ GenerateEnds(r)  PROVE VerdictTypes'
  <2>1. slot[r] # <<>> => slot[r].reason \in Reasons
    BY DEF SlotTyped, Buffered
  <2>2. slot[r] # <<>> => Ended(slot[r]) \in {"error", "none", "stop", "length"}
    BY <2>1 DEF Ended, Reasons
  <2> QED  BY <1>1, <2>2 DEF StreamTakes, GenerateEnds
<1>2. ASSUME NEW r \in Reqs, AddFails(r) \/ Disconnect(r) \/ GenerateCancelled(r)
      PROVE  VerdictTypes'
  BY <1>2 DEF AddFails, Disconnect, GenerateCancelled
<1>3. CASE UNCHANGED verdict
  BY <1>3
<1> QED
  BY <1>1, <1>2, <1>3
     DEF Next, Worker, EngineLoop, Call, StepBegins, Working, LoopCheck, LoopWake, Distribute,
         FailAll, Submit, AddBegins, AddEnds, AddReturns, OrphanDone, StreamEnds, StreamCloses,
         StreamGone, CleanupSafe, Cancel, vars, engineVars

LEMMA LoopTypesStep == ASSUME LoopTypes, [Next]_vars  PROVE LoopTypes'
<1> USE DEF LoopTypes
<1>1. ASSUME NEW r \in Reqs, Call(r) \/ AddBegins(r) \/ AddEnds(r) \/ OrphanDone(r)
      PROVE  LoopTypes'
  <2>1. loop' = loop
    BY <1>1 DEF Call, Submit, AddReturns, AddFails, CleanupSafe, StreamTakes, StreamEnds,
         Disconnect, StreamCloses, StreamGone, GenerateEnds, GenerateCancelled, Cancel,
         AddBegins, AddEnds, OrphanDone
  <2>2. idleEvent' = idleEvent \/ idleEvent' = TRUE
    BY <1>1 DEF Call, Submit, AddReturns, AddFails, CleanupSafe, StreamTakes, StreamEnds,
         Disconnect, StreamCloses, StreamGone, GenerateEnds, GenerateCancelled, Cancel,
         AddBegins, AddEnds, OrphanDone, Wake
  <2> QED  BY <2>1, <2>2
<1>2. CASE StepBegins \/ Working \/ EngineLoop \/ UNCHANGED vars
  BY <1>2 DEF StepBegins, Working, EngineLoop, LoopCheck, LoopWake, Distribute, FailAll, vars,
              engineVars
<1> QED  BY <1>1, <1>2 DEF Next, Worker

LEMMA TypeParts ==
  EngineTypeOK <=> /\ SchedTypeOK /\ CallTypes /\ SetTypes /\ VerdictTypes /\ LoopTypes
                   /\ ToSet(jobs) \subseteq {Step} \cup {Add(r) : r \in Reqs}
BY DEF EngineTypeOK, CallTypes, SetTypes, VerdictTypes, LoopTypes

LEMMA TypeStep == ASSUME EngineInv, [Next]_vars  PROVE EngineTypeOK'
<1>1. CallTypes' /\ SetTypes' /\ VerdictTypes' /\ LoopTypes'
  BY TypeParts, CallTypesStep, SetTypesStep, VerdictTypesStep, LoopTypesStep DEF EngineInv
<1>2. SchedTypeOK'
  BY SchedPart DEF SchedInv
<1>3. (ToSet(jobs) \subseteq {Step} \cup {Add(r) : r \in Reqs})'
  BY JobsStep DEF JobQueue, JobSet, ToSet
<1> QED  BY <1>1, <1>2, <1>3 DEF EngineTypeOK, CallTypes, SetTypes, VerdictTypes, LoopTypes

-----------------------------------------------------------------------------
(* The phases of a call.                                                   *)

\* Nothing but the end of its add job changes whether a request was submitted.
LEMMA SubmittedStep ==
  ASSUME EngineInv, [Next]_vars, NEW r \in Reqs
  PROVE  \/ status[r] = "none" <=> status'[r] = "none"
         \/ future[r] = "running" /\ Admit(r) /\ future'[r] = "done"
<1>1. CASE Admits
  <2>1. PICK q \in Reqs : future[q] = "running" /\ Admit(q) /\ future'[q] = "done"
    BY <1>1 DEF Admits
  <2> QED  BY <2>1 DEF Admit, EngineInv, EngineTypeOK, SchedTypeOK
<1>2. CASE Steady
  BY <1>2 DEF Steady, Submitted
<1> QED  BY <1>1, <1>2, SchedPart, ListsStep DEF EngineInv

\* The statuses apart, a phase is about these variables only.
Phase(r) ==
  /\ future[r] = "none" <=> client[r] = "new"
  /\ client[r] = "adding" => future[r] \in {"queued", "running", "done", "refused"}
  /\ client[r] \notin {"new", "adding", "over"} => future[r] = "done"
  /\ client[r] = "over" => \/ future[r] \in {"done", "refused", "cancelled"}
                           \/ future[r] = "running" /\ r \in orphans
  /\ r \in orphans => client[r] = "over" /\ future[r] # "cancelled" /\ r \notin callbacks
  /\ r \in callbacks => client[r] = "over"
  /\ r \in tracked => client[r] # "new"

LEMMA PhaseStep ==
  ASSUME EngineInv, [Next]_vars, NEW r \in Reqs
  PROVE  Phase(r)'
<1> USE DEF EngineInv, Phase
<1>0. Phase(r) /\ CallTypes /\ SetTypes
  BY TypeParts DEF CallPhase
<1>1. ASSUME NEW q \in Reqs, Submit(q)  PROVE Phase(r)'
  BY <1>0, <1>1 DEF Submit, CallTypes
<1>2. ASSUME NEW q \in Reqs, AddBegins(q)  PROVE Phase(r)'
  <2>1. future[q] = "queued"
    <3>1. Add(q) \in ToSet(jobs)
      BY <1>2, ToSetTail DEF AddBegins, JobQueue
    <3> QED  BY <3>1 DEF JobQueue
  <2> QED  BY <1>0, <1>2, <2>1 DEF AddBegins, CallTypes
<1>3. ASSUME NEW q \in Reqs, AddEnds(q)  PROVE Phase(r)'
  BY <1>0, <1>3 DEF AddEnds, CallTypes
<1>4. ASSUME NEW q \in Reqs, AddReturns(q)  PROVE Phase(r)'
  BY <1>0, <1>4 DEF AddReturns, CallTypes
<1>5. ASSUME NEW q \in Reqs, AddFails(q)  PROVE Phase(r)'
  BY <1>0, <1>5 DEF AddFails, CallTypes
<1>6. ASSUME NEW q \in Reqs, OrphanDone(q)  PROVE Phase(r)'
  BY <1>0, <1>6 DEF OrphanDone
<1>7. ASSUME NEW q \in Reqs, CleanupSafe(q) \/ Cancel(q)  PROVE Phase(r)'
  BY <1>0, <1>7 DEF CleanupSafe, Cancel, Cleanup
<1>8. ASSUME NEW q \in Reqs,
             \/ StreamTakes(q) \/ StreamEnds(q) \/ Disconnect(q) \/ StreamCloses(q)
             \/ StreamGone(q) \/ GenerateEnds(q) \/ GenerateCancelled(q)
      PROVE  Phase(r)'
  <2>1. client[q] \notin {"new", "adding", "over"} /\ client'[q] \notin {"new", "adding"}
    BY <1>0, <1>8 DEF StreamTakes, StreamEnds, Disconnect, StreamCloses, StreamGone, GenerateEnds,
         GenerateCancelled, CallTypes
  <2>2. /\ \A p \in Reqs \ {q} : client'[p] = client[p]
        /\ UNCHANGED <<future, orphans, callbacks>> /\ tracked' \subseteq tracked
    BY <1>0, <1>8 DEF StreamTakes, StreamEnds, Disconnect, StreamCloses, StreamGone, GenerateEnds,
         GenerateCancelled, Cleanup, CallTypes
  <2> QED  BY <1>0, <2>1, <2>2
<1>9. CASE UNCHANGED <<client, future, orphans, callbacks, tracked>>
  BY <1>0, <1>9
<1> QED
  BY <1>1, <1>2, <1>3, <1>4, <1>5, <1>6, <1>7, <1>8, <1>9
     DEF Next, Worker, EngineLoop, Call, StepBegins, Working, LoopCheck, LoopWake, Distribute,
         FailAll, vars, engineVars

\* An add job is done once, and stays so.
LEMMA DoneStep ==
  ASSUME EngineInv, [Next]_vars, NEW r \in Reqs
  PROVE  \/ future'[r] = "done" <=> future[r] = "done"
         \/ Admit(r) /\ future[r] = "running" /\ future'[r] = "done"
<1> USE DEF EngineInv
<1>0. CallTypes
  BY TypeParts
<1>1. ASSUME NEW q \in Reqs, Submit(q)
      PROVE  future'[r] = "done" <=> future[r] = "done"
  BY <1>0, <1>1 DEF Submit, CallTypes, CallPhase
<1>2. ASSUME NEW q \in Reqs, AddBegins(q)
      PROVE  future'[r] = "done" <=> future[r] = "done"
  <2>1. future[q] = "queued"
    <3>1. Add(q) \in ToSet(jobs)
      BY <1>2, ToSetTail DEF AddBegins, JobQueue
    <3> QED  BY <3>1 DEF JobQueue
  <2> QED  BY <1>0, <1>2, <2>1 DEF AddBegins, CallTypes
<1>3. ASSUME NEW q \in Reqs, AddEnds(q)
      PROVE  \/ future'[r] = "done" <=> future[r] = "done"
             \/ Admit(r) /\ future[r] = "running" /\ future'[r] = "done"
  BY <1>0, <1>3 DEF AddEnds, CallTypes
<1>4. ASSUME NEW q \in Reqs, AddFails(q)
      PROVE  future'[r] = "done" <=> future[r] = "done"
  BY <1>0, <1>4 DEF AddFails, CallTypes
<1>5. CASE UNCHANGED future
  BY <1>5
<1> QED
  BY <1>1, <1>2, <1>3, <1>4, <1>5
     DEF Next, Worker, EngineLoop, Call, StepBegins, Working, LoopCheck, LoopWake, Distribute,
         FailAll, AddReturns, OrphanDone, CleanupSafe, Cancel, StreamTakes, StreamEnds, Disconnect,
         StreamCloses, StreamGone, GenerateEnds, GenerateCancelled, vars, engineVars

LEMMA CallPhaseStep == ASSUME EngineInv, [Next]_vars, NEW r \in Reqs  PROVE CallPhase(r)'
<1>1. status[r] = "none" <=> future[r] # "done"
  BY DEF EngineInv, CallPhase
<1>2. Admit(r) => status'[r] # "none"
  BY DEF EngineInv, EngineTypeOK, SchedTypeOK, Admit
<1>3. status'[r] = "none" <=> future'[r] # "done"
  BY <1>1, <1>2, SubmittedStep, DoneStep
<1> QED  BY <1>3, PhaseStep DEF Phase, CallPhase

\* The steps that are about one call.
OwnStep(r) ==
  \/ Submit(r) \/ AddReturns(r) \/ AddFails(r) \/ StreamTakes(r) \/ StreamEnds(r)
  \/ Disconnect(r) \/ StreamCloses(r) \/ StreamGone(r) \/ GenerateEnds(r)
  \/ GenerateCancelled(r) \/ Cancel(r) \/ CleanupSafe(r) \/ OrphanDone(r)

Apart(r) ==
  /\ client'[r] = client[r] /\ verdict'[r] = verdict[r]
  /\ r \in orphans' <=> r \in orphans
  /\ r \in callbacks' <=> r \in callbacks
  /\ r \in tracked' <=> r \in tracked
  /\ r \in requests => r \in requests'
  /\ r \in requests' => r \in requests \/ future[r] = "running"
  /\ slot'[r] = slot[r] \/ Distribute \/ FailAll
  /\ (r \in finishedEvent' <=> r \in finishedEvent) \/ Distribute \/ FailAll

\* No other step touches it, except that the loop fills its slot.
LEMMA OthersStep ==
  ASSUME EngineTypeOK, SlotTyped, [Next]_vars, NEW r \in Reqs, ~OwnStep(r)
  PROVE  Apart(r)
<1> USE DEF Apart
<1>0. CallTypes /\ VerdictTypes /\ DOMAIN slot = Reqs
  BY TypeParts DEF SlotTyped
<1>1. ASSUME NEW q \in Reqs \ {r}, Submit(q) \/ AddReturns(q) \/ AddFails(q) \/ OrphanDone(q)
      PROVE  Apart(r)
  BY <1>0, <1>1 DEF Submit, AddReturns, AddFails, OrphanDone, CallTypes, VerdictTypes, schedVars,
       queueVars
<1>2. ASSUME NEW q \in Reqs \ {r},
             \/ StreamEnds(q) \/ StreamCloses(q) \/ StreamGone(q) \/ GenerateEnds(q)
             \/ GenerateCancelled(q) \/ Cancel(q) \/ CleanupSafe(q)
      PROVE  Apart(r)
  <2>1. Cleanup(q)
    BY <1>2 DEF StreamEnds, StreamCloses, StreamGone, GenerateEnds, GenerateCancelled, Cancel,
         CleanupSafe
  <2>2. slot'[r] = slot[r] /\ (r \in requests <=> r \in requests') /\ (r \in tracked' <=> r \in tracked)
    BY <1>0, <2>1 DEF Cleanup, RemoveFinished
  <2>3. client'[r] = client[r] /\ verdict'[r] = verdict[r]
    BY <1>0, <1>2 DEF StreamEnds, StreamCloses, StreamGone, GenerateEnds, GenerateCancelled, Cancel,
         CleanupSafe, CallTypes, VerdictTypes
  <2>4. UNCHANGED <<orphans, finishedEvent>> /\ (r \in callbacks' <=> r \in callbacks)
    BY <1>2 DEF StreamEnds, StreamCloses, StreamGone, GenerateEnds, GenerateCancelled, Cancel,
         CleanupSafe
  <2> QED  BY <2>2, <2>3, <2>4
<1>3. ASSUME NEW q \in Reqs \ {r}, StreamTakes(q) \/ Disconnect(q)
      PROVE  Apart(r)
  BY <1>0, <1>3 DEF StreamTakes, Disconnect, CallTypes, VerdictTypes, schedVars, queueVars
<1>4. ASSUME NEW q \in Reqs, AddBegins(q) \/ AddEnds(q)
      PROVE  Apart(r)
  BY <1>4 DEF AddBegins, AddEnds, Admit, Refuse, schedVars, queueVars
<1>5. CASE Working
  BY <1>5, WorkLedgers DEF Working, engineVars
<1>6. CASE StepBegins \/ EngineLoop \/ UNCHANGED vars
  BY <1>6 DEF StepBegins, EngineLoop, LoopCheck, LoopWake, Distribute, FailAll, vars, engineVars,
       schedVars, queueVars
<1> QED
  BY <1>1, <1>2, <1>3, <1>4, <1>5, <1>6 DEF Next, Worker, Call, OwnStep

-----------------------------------------------------------------------------
(* Final outputs, and what the slots and the events say.                   *)

\* The worker has no output before the end of a step, and a final one is about
\* a request that is finished by then.
LEMMA WorkOutputs ==
  ASSUME SchedInv, Work, outputs = {}
  PROVE  /\ pc # "idle" /\ (pc' # "idle" => outputs' = {})
         /\ \A o \in outputs' : o.fin => status'[o.req] = "finished"
<1> USE DEF SchedInv, SchedTypeOK
<1>1. ASSUME NEW kind, NEW queue, Handle(kind, queue)
      PROVE  /\ pc' # "idle" => outputs' = {}
             /\ \A o \in outputs' : o.fin => status'[o.req] = "finished"
  BY <1>1 DEF Handle, AbortRunning, RetryRunning, AbortedOutput
<1>2. ASSUME NEW queue, Propagate(queue)  PROVE outputs' = {}
  BY <1>2 DEF Propagate
<1>3. CASE InsertFails
  <2>1. PICK kind \in InsertFaults : Handle(kind, Tail(waiting)) \/ Propagate(Tail(waiting))
    BY <1>3 DEF InsertFails
  <2> QED  BY <1>1, <1>2, <1>3, <2>1 DEF InsertFails, CanSchedule
<1>4. CASE NextFails
  <2>1. PICK kind \in NextFaults : Handle(kind, waiting) \/ Propagate(waiting)
    BY <1>4 DEF NextFails
  <2> QED  BY <1>1, <1>2, <1>4, <2>1 DEF NextFails, CanGenerate
<1>5. CASE Generate
  <2>1. PICK eos \in SUBSET DOMAIN seqs :
          \E match \in SUBSET {u \in Responses : ridOf[u] \in StopStrings /\ ~Ends(u, eos)} :
            LET FinOf(u) == Ends(u, eos) \/ u \in match
                done == {ridOf[u] : u \in {v \in Responses : FinOf(v)}}
            IN  /\ outputs' = {[req |-> ridOf[u], tok |-> seqs[u].n + 1, fin |-> FinOf(u),
                                reason |-> IF ~FinOf(u) THEN "none"
                                           ELSE IF u \in eos \cup match THEN "stop" ELSE "length",
                                err |-> FALSE] : u \in Responses}
                /\ status' = [r \in Reqs |-> IF r \in done THEN "finished" ELSE status[r]]
    BY <1>5 DEF Generate
  <2>2. PICK match \in SUBSET Responses :
          LET FinOf(u) == Ends(u, eos) \/ u \in match
              done == {ridOf[u] : u \in {v \in Responses : FinOf(v)}}
          IN  /\ outputs' = {[req |-> ridOf[u], tok |-> seqs[u].n + 1, fin |-> FinOf(u),
                              reason |-> IF ~FinOf(u) THEN "none"
                                         ELSE IF u \in eos \cup match THEN "stop" ELSE "length",
                              err |-> FALSE] : u \in Responses}
              /\ status' = [r \in Reqs |-> IF r \in done THEN "finished" ELSE status[r]]
    BY <2>1
  <2> DEFINE FinOf(u) == Ends(u, eos) \/ u \in match
             done == {ridOf[u] : u \in {v \in Responses : FinOf(v)}}
  <2>3. status' = [r \in Reqs |-> IF r \in done THEN "finished" ELSE status[r]]
    BY <2>2
  <2>4. \A u \in Responses : ridOf[u] \in Reqs
    BY DEF Responses
  <2>5. ASSUME NEW o \in outputs', o.fin
        PROVE  status'[o.req] = "finished"
    <3> HIDE DEF FinOf
    <3>1. PICK u \in Responses :
            o = [req |-> ridOf[u], tok |-> seqs[u].n + 1, fin |-> FinOf(u),
                 reason |-> IF ~FinOf(u) THEN "none"
                            ELSE IF u \in eos \cup match THEN "stop" ELSE "length",
                 err |-> FALSE]
      BY <2>2 DEF FinOf
    <3>2. FinOf(u) /\ o.req = ridOf[u]
      BY <2>5, <3>1
    <3> QED  BY <2>3, <2>4, <3>2
  <2> QED  BY <1>5, <2>5 DEF Generate, CanGenerate
<1>6. CASE ~(InsertFails \/ NextFails \/ Generate)
  BY <1>6 DEF Work, DoAbort, AbortsDone, ScheduleHead, CanSchedule, ScheduleEnd, NothingToDo, stepVars
<1> QED  BY <1>3, <1>4, <1>5, <1>6

LEMMA WorkBusy == ASSUME Work  PROVE pc # "idle"
BY DEF Work, DoAbort, AbortsDone, ScheduleHead, CanSchedule, ScheduleEnd, InsertFails, NextFails,
       CanGenerate, Generate, NothingToDo

\* A request that has left the lists for good does not come back.
LEMMA GoneStays ==
  ASSUME SchedInv, LedgerInv, SchedulerStep, AddsAreNew, NEW r,
         r \in Submitted, r \notin Waiting \cup running
  PROVE  r \in Submitted' /\ r \notin (Waiting \cup running)'
<1>1. CASE Admits
  <2>1. PICK q \in Reqs : future[q] = "running" /\ Admit(q)
    BY <1>1 DEF Admits
  <2>2. q # r
    BY <2>1 DEF AddsAreNew, Submitted
  <2> QED  BY <2>1, <2>2, AdmitsLists
<1>2. CASE Steady
  BY <1>2 DEF Steady
<1> QED  BY <1>1, <1>2, ListsStep

LEMMA FinalOutputsStep == ASSUME EngineInv, [Next]_vars  PROVE FinalOutputs'
<1> USE DEF EngineInv, FinalOutputs
<1>1. SchedulerStep /\ SchedInv' /\ LedgerInv' /\ AddsAreNew
  BY SchedPart
<1>2. pc' # "idle" => outputs' = {} /\ loop' = "stepping"
  <2>1. CASE Working
    <3>1. loop' = loop /\ outputs = {} /\ loop = "stepping"
      BY <2>1, WorkBusy DEF Working, engineVars
    <3> QED  BY <2>1, <3>1, WorkOutputs DEF Working
  <2>2. CASE StepBegins
    BY <2>2 DEF StepBegins
  <2>3. CASE UNCHANGED <<pc, outputs>> /\ (loop' = loop \/ pc = "idle")
    BY <2>3
  <2>4. CASE EngineLoop
    BY <2>3, <2>4 DEF EngineLoop, LoopCheck, LoopWake, Distribute, FailAll, StepReturned, schedVars,
         stepVars
  <2>5. ASSUME NEW r \in Reqs, Call(r) \/ AddBegins(r) \/ AddEnds(r) \/ OrphanDone(r)
        PROVE  UNCHANGED <<pc, outputs, loop>>
    BY <2>5 DEF Call, Submit, AddReturns, AddFails, CleanupSafe, StreamTakes, StreamEnds,
         Disconnect, StreamCloses, StreamGone, GenerateEnds, GenerateCancelled, Cancel, AddBegins,
         AddEnds, OrphanDone, Admit, Refuse, schedVars, stepVars
  <2>6. CASE UNCHANGED vars
    BY <2>3, <2>6 DEF vars, schedVars, stepVars, engineVars
  <2> QED  BY <2>1, <2>2, <2>3, <2>4, <2>5, <2>6 DEF Next, Worker
<1>3. ASSUME NEW o \in outputs', o.fin
      PROVE  o.req \in Submitted' /\ o.req \notin (Waiting \cup running)'
  <2>1. CASE o \in outputs
    BY <1>1, <1>3, <2>1, GoneStays
  <2>2. CASE o \notin outputs
    <3>1. Work
      BY <1>1, <1>3, <2>2 DEF SchedulerStep, Admits, Admit, StepJob, Outside, stepVars
    <3>2. status'[o.req] = "finished" /\ o.req \in Reqs
      <4>1. outputs = {}
        BY <3>1, WorkBusy
      <4>2. o \in Output
        BY <1>1, <1>3 DEF SchedInv, SchedTypeOK
      <4> QED  BY <1>3, <3>1, <4>1, <4>2, WorkOutputs DEF Output
    <3> QED  BY <1>1, <3>2 DEF SchedInv, OnePlace, Submitted
  <2> QED  BY <2>1, <2>2
<1> QED  BY <1>2, <1>3

LEMMA SettledStays ==
  ASSUME SchedInv, LedgerInv, SchedulerStep, AddsAreNew, NEW r \in Reqs, Settled(r)
  PROVE  Settled(r)'
<1>1. status'[r] # "none"
  <2>1. CASE Admits
    <3>1. PICK q \in Reqs : Admit(q)
      BY <2>1 DEF Admits
    <3> QED  BY <3>1 DEF Admit, Settled, SchedInv, SchedTypeOK
  <2>2. CASE Steady
    BY <2>2 DEF Steady, Submitted, Settled
  <2> QED  BY <2>1, <2>2, ListsStep
<1> QED  BY <1>1, ReleasedStays DEF Settled

LEMMA FailedGrows == ASSUME [Next]_vars  PROVE failed \subseteq failed'
BY DEF Next, Worker, EngineLoop, Call, StepBegins, Working, LoopCheck, LoopWake, Distribute,
       FailAll, Submit, AddBegins, AddEnds, AddReturns, AddFails, OrphanDone, CleanupSafe, Cancel,
       StreamTakes, StreamEnds, Disconnect, StreamCloses, StreamGone, GenerateEnds,
       GenerateCancelled, vars, engineVars

LEMMA FinalSlotStep == ASSUME EngineInv, [Next]_vars, NEW r \in Reqs  PROVE FinalSlot(r)'
<1> USE DEF EngineInv
<1>1. SchedulerStep /\ AddsAreNew /\ FinalSlot(r) /\ failed \subseteq failed'
  BY SchedPart, FailedGrows
<1>2. Settled(r) => Settled(r)'
  BY <1>1, SettledStays
<1>3. CASE slot'[r] = slot[r] \/ slot'[r] = <<>>
  BY <1>1, <1>2, <1>3 DEF FinalSlot
<1>4. CASE Distribute /\ slot'[r] # slot[r]
  <2>1. PICK o \in outputs : /\ o.req = r /\ o \in Output
                             /\ slot'[r] = PutOutput(slot[r], Fresh(o))
    BY <1>4, Distributed
  <2>2. slot'[r].fin = o.fin
    <3>1. Fresh(o) \in Buffered /\ slot[r] \in {<<>>} \cup Buffered
      BY <2>1, FreshType DEF SlotTyped
    <3>2. Fresh(o).fin = o.fin
      BY DEF Fresh
    <3>3. PutOutput(slot[r], Fresh(o)).fin = Fresh(o).fin
      BY <3>1, PutType, Zenon
    <3> QED  BY <2>1, <3>2, <3>3
  <2>3. o.fin => Settled(r)
    BY <2>1 DEF FinalOutputs, Settled, Released, Submitted
  <2> QED  BY <1>2, <2>2, <2>3 DEF FinalSlot
<1>5. CASE FailAll /\ slot'[r] # slot[r]
  <2>1. r \in failed' /\ slot'[r] = PutOutput(slot[r], ErrorOutput)
    BY <1>5 DEF FailAll
  <2>2. slot[r] \in {<<>>} \cup Buffered /\ ErrorOutput.reason = "length" /\ ErrorOutput.err
    BY DEF SlotTyped, ErrorOutput
  <2>3. CASE slot[r] = <<>>
    <3>1. slot'[r] = ErrorOutput
      BY <2>1, <2>3 DEF PutOutput
    <3> QED  BY <2>2, <3>1 DEF FinalSlot
  <2>4. CASE slot[r] # <<>>
    <3>1. slot'[r].reason = "length"
      BY <2>1, <2>4 DEF PutOutput, Merge, ErrorOutput
    <3> QED  BY <2>1, <3>1 DEF FinalSlot
  <2> QED  BY <2>3, <2>4
<1>6. CASE OwnStep(r)
  <2>1. DOMAIN slot = Reqs
    BY DEF SlotTyped
  <2>2. slot'[r] = slot[r] \/ slot'[r] = <<>>
    BY <1>6, <2>1 DEF OwnStep, Submit, AddReturns, AddFails, CleanupSafe, StreamTakes, StreamEnds,
         Disconnect, StreamCloses, StreamGone, GenerateEnds, GenerateCancelled, Cancel, OrphanDone,
         Cleanup
  <2> QED  BY <1>3, <2>2
<1> QED  BY <1>3, <1>4, <1>5, <1>6, OthersStep DEF Apart

\* A finished event is set by a final output or by a failed step.
EventTold(r) == r \in finishedEvent => Settled(r) \/ r \in failed

LEMMA EventStep == ASSUME EngineInv, [Next]_vars, NEW r \in Reqs  PROVE EventTold(r)'
<1> USE DEF EngineInv
<1>1. SchedulerStep /\ AddsAreNew /\ EventTold(r) /\ failed \subseteq failed'
  BY SchedPart, FailedGrows DEF LetGo, EventTold
<1>2. Settled(r) => Settled(r)'
  BY <1>1, SettledStays
<1>3. CASE r \in finishedEvent' => r \in finishedEvent
  BY <1>1, <1>2, <1>3 DEF EventTold
<1>4. CASE Distribute /\ r \in finishedEvent' /\ r \notin finishedEvent
  <2>1. PICK o \in outputs : o.req = r /\ o.fin
    BY <1>4 DEF Distribute
  <2>2. Settled(r)
    BY <2>1 DEF FinalOutputs, Settled, Released, Submitted
  <2> QED  BY <1>2, <2>2 DEF EventTold
<1>5. CASE FailAll /\ r \in finishedEvent' /\ r \notin finishedEvent
  BY <1>5 DEF FailAll, EventTold
<1>6. CASE OwnStep(r)
  <2>1. finishedEvent' = finishedEvent
    BY <1>6 DEF OwnStep, Submit, AddReturns, AddFails, CleanupSafe, StreamTakes, StreamEnds,
         Disconnect, StreamCloses, StreamGone, GenerateEnds, GenerateCancelled, Cancel, OrphanDone
  <2> QED  BY <1>3, <2>1
<1> QED  BY <1>3, <1>4, <1>5, <1>6, OthersStep DEF Apart

-----------------------------------------------------------------------------
(* Until its abort the scheduler knows a request; afterwards it lets it go. *)

\* Nobody waits for an add job that runs on: its callback will abort.
InUse(r) ==
  future[r] = "done" /\ (client[r] \in {"adding", "serving", "ending", "closing", "dropped"}
                         \/ r \in orphans)

LEMMA StillKnownStep == ASSUME EngineInv, [Next]_vars, NEW r \in Reqs  PROVE StillKnown(r)'
<1> USE DEF EngineInv
<1>0. CallTypes /\ SchedulerStep /\ AddsAreNew /\ CallPhase(r)
  BY SchedPart, TypeParts
<1>1. CASE Admit(r)
  BY <1>1 DEF StillKnown, Admit
<1>2. CASE ~Admit(r) /\ InUse(r)'
  <2>1. InUse(r)
    <3>1. future[r] = "done"
      BY <1>2, DoneStep DEF InUse
    <3>2. CASE OwnStep(r)
      BY <1>0, <1>2, <3>1, <3>2
         DEF OwnStep, Submit, AddReturns, AddFails, CleanupSafe, StreamTakes, StreamEnds,
         Disconnect, StreamCloses, StreamGone, GenerateEnds, GenerateCancelled, Cancel, OrphanDone,
         InUse, CallTypes, CallPhase
    <3>3. CASE ~OwnStep(r)
      BY <1>2, <3>1, <3>3, OthersStep DEF Apart, InUse
    <3> QED  BY <3>2, <3>3
  <2>2. CASE Released(r)
    <3>1. status[r] # "none"
      BY <1>0, <2>1 DEF InUse, CallPhase
    <3> QED  BY <1>0, <2>2, <3>1, ReleasedStays DEF StillKnown
  <2>3. CASE r \in requests /\ ~Released(r)
    <3>1. CASE Cancel(r)
      <4>1. UNCHANGED <<waiting, running>>
        BY <3>1 DEF Cancel, Cleanup, RemoveFinished
      <4> QED  BY <2>3, <3>1, <4>1, AbortReleases DEF Cancel, StillKnown
    <3>2. CASE StreamEnds(r) \/ StreamCloses(r) \/ StreamGone(r) \/ GenerateEnds(r)
               \/ GenerateCancelled(r) \/ CleanupSafe(r)
      BY <1>0, <1>2, <2>1, <3>2
         DEF StreamEnds, StreamCloses, StreamGone, GenerateEnds, GenerateCancelled, CleanupSafe,
             InUse, CallTypes, CallPhase
    <3>3. CASE Submit(r) \/ AddReturns(r) \/ AddFails(r) \/ StreamTakes(r) \/ Disconnect(r)
               \/ OrphanDone(r)
      BY <2>3, <3>3 DEF Submit, AddReturns, AddFails, StreamTakes, Disconnect, OrphanDone,
         StillKnown, schedVars, queueVars
    <3>4. CASE ~OwnStep(r)
      BY <2>3, <3>4, OthersStep DEF Apart, StillKnown
    <3> QED  BY <3>1, <3>2, <3>3, <3>4 DEF OwnStep
  <2>4. r \in requests \/ Released(r)
    BY <2>1 DEF StillKnown, InUse
  <2> QED  BY <2>2, <2>3, <2>4
<1>3. CASE ~InUse(r)'
  BY <1>3 DEF StillKnown, InUse
<1> QED  BY <1>1, <1>2, <1>3

EndingTold(r) ==
  client[r] = "ending" => Settled(r) \/ (r \in failed /\ verdict[r] = "length")

LEMMA EndingStep == ASSUME EngineInv, [Next]_vars, NEW r \in Reqs  PROVE EndingTold(r)'
<1> USE DEF EngineInv
<1>0. CallTypes /\ VerdictTypes /\ SchedulerStep /\ AddsAreNew /\ EndingTold(r) /\ failed \subseteq failed'
  BY SchedPart, TypeParts, FailedGrows DEF LetGo, EndingTold
<1>1. Settled(r) => Settled(r)'
  BY <1>0, SettledStays
<1>2. CASE StreamTakes(r)
  <2>1. CASE client'[r] = "ending"
    <3>1. slot[r] # <<>> /\ slot[r].fin /\ ~slot[r].err
      BY <1>0, <1>2, <2>1 DEF StreamTakes, CallTypes
    <3>2. verdict'[r] = slot[r].reason
      BY <1>0, <1>2, <3>1 DEF StreamTakes, Ended, VerdictTypes
    <3>3. Settled(r) \/ (r \in failed /\ slot[r].reason = "length")
      BY <3>1 DEF FinalSlot
    <3> QED  BY <1>0, <1>1, <3>2, <3>3 DEF EndingTold
  <2> QED  BY <2>1 DEF EndingTold
<1>3. CASE client'[r] # "ending"
  BY <1>3 DEF EndingTold
<1>4. CASE client'[r] = client[r] /\ verdict'[r] = verdict[r]
  BY <1>0, <1>1, <1>4 DEF EndingTold
<1>5. CASE OwnStep(r) /\ ~StreamTakes(r)
  <2>1. client'[r] # "ending" \/ (client'[r] = client[r] /\ verdict'[r] = verdict[r])
    BY <1>0, <1>5 DEF OwnStep, Submit, AddReturns, AddFails, CleanupSafe, StreamEnds,
         Disconnect, StreamCloses, StreamGone, GenerateEnds, GenerateCancelled, Cancel, OrphanDone,
         CallTypes, VerdictTypes
  <2> QED  BY <1>3, <1>4, <2>1
<1> QED  BY <1>2, <1>4, <1>5, OthersStep DEF Apart

Past(r) ==
  client[r] \in {"last", "unclean", "over"} => Released(r) \/ EndsUnaborted(r) \/ r \in orphans

LEMMA NotSubmitted == ASSUME SchedInv, NEW r \in Reqs, status[r] = "none"  PROVE Released(r)
BY DEF SchedInv, OnePlace, Released

\* Where nothing new happens to the call, what was let go stays so.
LEMMA PastStays ==
  ASSUME EngineInv, [Next]_vars, NEW r \in Reqs,
         client[r] \in {"last", "unclean", "over"},
         verdict'[r] = verdict[r], r \in orphans => r \in orphans'
  PROVE  Released(r)' \/ EndsUnaborted(r)' \/ r \in orphans'
<1> USE DEF EngineInv
<1>1. SchedulerStep /\ AddsAreNew /\ CallPhase(r) /\ LetGo(r) /\ failed \subseteq failed' /\ SchedInv'
  BY SchedPart, FailedGrows
<1>2. CASE EndsUnaborted(r)
  BY <1>1, <1>2 DEF EndsUnaborted
<1>3. CASE Released(r) /\ status[r] # "none"
  BY <1>1, <1>3, ReleasedStays
<1>4. CASE status[r] = "none"
  <2>1. CASE future[r] = "running"
    BY <1>1, <2>1 DEF CallPhase
  <2>2. CASE future[r] # "running"
    <3>1. status'[r] = "none"
      BY <1>4, <2>2, SubmittedStep
    <3> QED  BY <1>1, <3>1 DEF SchedInv, OnePlace, Released
  <2> QED  BY <2>1, <2>2
<1> QED  BY <1>1, <1>2, <1>3, <1>4 DEF LetGo

LEMMA PastStep == ASSUME EngineInv, [Next]_vars, NEW r \in Reqs  PROVE Past(r)'
<1> USE DEF EngineInv
<1>0. /\ CallTypes /\ VerdictTypes /\ SetTypes /\ SchedulerStep /\ AddsAreNew
      /\ failed \subseteq failed' /\ SchedInv'
      /\ CallPhase(r) /\ CallPhase(r)' /\ StillKnown(r) /\ LetGo(r)
  BY SchedPart, TypeParts, FailedGrows, CallPhaseStep
<1>1. CASE ~OwnStep(r)
  BY <1>1, OthersStep, PastStays DEF Apart, Past
<1>2. CASE CleanupSafe(r) \/ StreamGone(r) \/ Cancel(r)
  <2>1. verdict' = verdict /\ orphans' = orphans
    BY <1>2 DEF CleanupSafe, StreamGone, Cancel
  <2>2. client[r] \in {"last", "unclean", "over"} \/ client'[r] \notin {"last", "unclean", "over"}
    BY <1>0, <1>2 DEF CleanupSafe, StreamGone, Cancel, CallTypes
  <2> QED  BY <2>1, <2>2, PastStays DEF Past
<1>3. CASE Submit(r) \/ AddReturns(r) \/ Disconnect(r) \/ StreamTakes(r)
  <2>1. client'[r] \notin {"last", "unclean", "over"}
    BY <1>0, <1>3 DEF Submit, AddReturns, Disconnect, StreamTakes, CallTypes
  <2> QED  BY <2>1 DEF Past
<1>4. CASE StreamEnds(r)
  <2>1. client[r] = "ending" /\ verdict' = verdict
    BY <1>4 DEF StreamEnds
  <2>2. Settled(r) \/ EndsUnaborted(r)
    BY <1>0, <2>1 DEF LetGo, EndsUnaborted
  <2> QED  BY <1>0, <2>1, <2>2, SettledStays DEF Past, EndsUnaborted, Settled
<1>5. CASE GenerateEnds(r)
  <2>1. r \in finishedEvent /\ r \notin Streams
    BY <1>5 DEF GenerateEnds
  <2>2. Settled(r) \/ EndsUnaborted(r)'
    BY <1>0, <2>1 DEF LetGo, EndsUnaborted
  <2> QED  BY <1>0, <2>2, SettledStays DEF Past, Settled
<1>6. CASE StreamCloses(r) \/ GenerateCancelled(r)
  <2>1. /\ UNCHANGED <<waiting, running>> /\ AbortRequest(r)
        /\ client[r] \in {"serving", "closing", "dropped"}
    BY <1>6 DEF StreamCloses, GenerateCancelled, Cleanup, RemoveFinished
  <2>2. r \in requests \/ Released(r)
    BY <1>0, <2>1 DEF CallPhase, StillKnown
  <2> QED  BY <2>1, <2>2, AbortReleases DEF Past
<1>7. CASE AddFails(r) \/ OrphanDone(r)
  <2>1. CASE future'[r] # "done"
    <3>1. Released(r)'
      BY <1>0, <2>1 DEF CallPhase, SchedInv, OnePlace, Released
    <3> QED  BY <3>1 DEF Past
  <2>2. CASE future'[r] = "done"
    <3>1. /\ future[r] = "done" /\ AbortRequest(r) /\ UNCHANGED <<waiting, running>>
          /\ client[r] = "adding" \/ r \in orphans
      BY <1>0, <1>7, <2>2 DEF AddFails, OrphanDone, CallTypes, queueVars
    <3>2. r \in requests \/ Released(r)
      BY <1>0, <3>1 DEF StillKnown
    <3> QED  BY <3>1, <3>2, AbortReleases DEF Past
  <2> QED  BY <2>1, <2>2
<1> QED  BY <1>1, <1>2, <1>3, <1>4, <1>5, <1>6, <1>7 DEF OwnStep

-----------------------------------------------------------------------------
(* Nothing is left behind, and the loop is woken.                          *)

LeftNothing(r) ==
  client[r] = "over" /\ r \notin orphans \cup callbacks => r \notin tracked \cup requests

LEMMA LeftNothingStep ==
  ASSUME EngineInv, [Next]_vars, NEW r \in Reqs, LeftNothing(r)
  PROVE  LeftNothing(r)'
<1> USE DEF LeftNothing
<1>0. CallTypes /\ CallPhase(r) /\ SlotTyped /\ EngineTypeOK
  BY TypeParts DEF EngineInv
<1>1. CASE ~OwnStep(r)
  BY <1>0, <1>1, OthersStep DEF Apart, CallPhase
<1>2. CASE CleanupSafe(r) \/ StreamGone(r) \/ GenerateEnds(r) \/ GenerateCancelled(r)
  BY <1>2 DEF CleanupSafe, StreamGone, GenerateEnds, GenerateCancelled, Cleanup, RemoveFinished
<1>3. CASE AddFails(r) \/ OrphanDone(r)
  BY <1>0, <1>3 DEF AddFails, OrphanDone, CallPhase
<1>4. CASE \/ Submit(r) \/ AddReturns(r) \/ StreamTakes(r) \/ StreamEnds(r) \/ Disconnect(r)
           \/ StreamCloses(r) \/ Cancel(r)
  <2>1. client'[r] # "over"
    BY <1>0, <1>4 DEF Submit, AddReturns, StreamTakes, StreamEnds, Disconnect, StreamCloses, Cancel,
       CallTypes
  <2> QED  BY <2>1
<1> QED  BY <1>1, <1>2, <1>3, <1>4 DEF OwnStep


\* Somebody is about to wake the loop.
Waker ==
  \/ idleEvent \/ callbacks # {} \/ orphans # {}
  \/ \E r \in Reqs : client[r] = "adding" /\ future[r] = "done"

LEMMA HasWork == ASSUME SchedTypeOK  PROVE HasRequests <=> Waiting \cup running # {}
<1>1. waiting \in Seq(Reqs)
  BY DEF SchedTypeOK
<1>2. waiting # <<>> <=> Waiting # {}
  BY <1>1, ToSetTail DEF Waiting, ToSet
<1> QED  BY <1>2 DEF HasRequests

\* A waker goes only when the loop has been woken.
LEMMA WakerStays ==
  ASSUME EngineInv, [Next]_vars, Waker, ~LoopWake
  PROVE  Waker'
<1>0. CallTypes
  BY TypeParts DEF EngineInv
<1> USE DEF Waker
<1>1. ASSUME NEW q \in Reqs, AddReturns(q) \/ CleanupSafe(q)  PROVE Waker'
  BY <1>1 DEF AddReturns, CleanupSafe, Wake
<1>2. ASSUME NEW q \in Reqs, OrphanDone(q)  PROVE Waker'
  BY <1>2 DEF OrphanDone
<1>3. ASSUME NEW q \in Reqs, AddFails(q)  PROVE Waker'
  BY <1>3 DEF AddFails
<1>4. ASSUME NEW q \in Reqs,
             \/ Submit(q) \/ AddBegins(q) \/ AddEnds(q) \/ StreamTakes(q) \/ StreamEnds(q)
             \/ Disconnect(q) \/ StreamCloses(q) \/ StreamGone(q) \/ GenerateEnds(q)
             \/ GenerateCancelled(q) \/ Cancel(q)
      PROVE  Waker'
  <2>1. UNCHANGED <<idleEvent, callbacks, orphans>>
    BY <1>4 DEF Submit, AddBegins, AddEnds, StreamTakes, StreamEnds, Disconnect, StreamCloses,
       StreamGone, GenerateEnds, GenerateCancelled, Cancel
  <2>2. ASSUME NEW r \in Reqs, client[r] = "adding", future[r] = "done"
        PROVE  client'[r] = "adding" /\ future'[r] = "done"
    <3>1. client'[r] = "adding"
      BY <1>0, <1>4, <2>2 DEF Submit, AddBegins, AddEnds, StreamTakes, StreamEnds, Disconnect,
         StreamCloses, StreamGone, GenerateEnds, GenerateCancelled, Cancel, CallTypes
    <3>2. future'[r] = "done"
      BY <2>2, DoneStep
    <3> QED  BY <3>1, <3>2
  <2> QED  BY <2>1, <2>2
<1>5. CASE UNCHANGED <<idleEvent, callbacks, orphans, client, future>>
  BY <1>5
<1> QED
  BY <1>1, <1>2, <1>3, <1>4, <1>5
     DEF Next, Worker, EngineLoop, Call, StepBegins, Working, LoopCheck, Distribute, FailAll,
         vars, engineVars

\* The loop goes to sleep with no work, and new work comes with a waker.
LEMMA WakeUpStep ==
  ASSUME EngineInv, NoLostWakeup, [Next]_vars
  PROVE  NoLostWakeup'
<1> USE DEF EngineInv
<1>0. SchedulerStep /\ SchedTypeOK /\ SchedTypeOK'
  BY SchedPart DEF SchedInv
<1> SUFFICES ASSUME loop' = "idle", HasRequests'  PROVE Waker'
  BY DEF NoLostWakeup, Waker
<1>1. (HasRequests <=> Waiting \cup running # {}) /\ (Waiting \cup running)' # {}
  <2>1. waiting' \in Seq(Reqs)
    BY <1>0 DEF SchedTypeOK
  <2>2. waiting' # <<>> => Head(waiting') \in ToSet(waiting')
    BY <2>1, ToSetTail
  <2> QED  BY <1>0, <2>2, HasWork DEF HasRequests, Waiting
<1>2. CASE Admits
  <2>1. PICK r \in Reqs : future[r] = "running" /\ future'[r] = "done"
    BY <1>2 DEF Admits
  <2>2. client'[r] = "adding" \/ r \in orphans'
    <3>1. CallPhase(r) /\ ~OwnStep(r)
      BY <2>1, <1>0, TypeParts
         DEF OwnStep, Submit, AddReturns, AddFails, CleanupSafe, StreamTakes, StreamEnds,
         Disconnect, StreamCloses, StreamGone, GenerateEnds, GenerateCancelled, Cancel, OrphanDone,
         CallTypes
    <3> QED  BY <2>1, <3>1, OthersStep DEF CallPhase, Apart
  <2> QED  BY <2>1, <2>2 DEF Waker
<1>3. CASE Steady /\ ~Admits
  <2>1. HasRequests
    BY <1>1, <1>3 DEF Steady
  <2>2. loop = "idle" /\ ~LoopWake
    <3>1. ASSUME NEW r \in Reqs, Call(r) \/ AddBegins(r) \/ AddEnds(r) \/ OrphanDone(r)
          PROVE  loop' = loop
      BY <3>1 DEF Call, Submit, AddReturns, AddFails, CleanupSafe, StreamTakes, StreamEnds,
         Disconnect, StreamCloses, StreamGone, GenerateEnds, GenerateCancelled, Cancel,
         AddBegins, AddEnds, OrphanDone
    <3> QED  BY <2>1, <3>1 DEF Next, Worker, EngineLoop, StepBegins, Working, LoopCheck, LoopWake,
             Distribute, FailAll, vars, engineVars
  <2> QED  BY <2>1, <2>2, WakerStays DEF NoLostWakeup, Waker
<1> QED  BY <1>0, <1>2, <1>3, ListsStep

-----------------------------------------------------------------------------
(* Theorems.                                                               *)

LEMMA EngineInit == ASSUME Init  PROVE EngineInv
<1>1. SchedInv /\ LedgerInv
  BY InitInv, LedgerInit DEF Init
<1>2. /\ jobs = <<>> /\ ToSet(jobs) = {} /\ IsInjective(jobs) /\ jobs \in Seq(JobSet)
  BY DEF Init, ToSet, IsInjective
<1>3. EngineTypeOK
  BY <1>1, <1>2 DEF Init, EngineTypeOK, SchedInv
<1>4. JobQueue
  BY <1>2 DEF JobQueue
<1>5. SlotTyped /\ FinalOutputs
  BY DEF Init, SchedInit, SlotTyped, FinalOutputs
<1>6. ASSUME NEW r \in Reqs  PROVE CallPhase(r) /\ FinalSlot(r) /\ StillKnown(r) /\ LetGo(r)
  BY DEF Init, SchedInit, CallPhase, FinalSlot, StillKnown, LetGo
<1> QED  BY <1>1, <1>3, <1>4, <1>5, <1>6 DEF EngineInv

LEMMA EngineStep == ASSUME EngineInv, [Next]_vars  PROVE EngineInv'
<1>1. EngineTypeOK' /\ SchedInv' /\ LedgerInv' /\ JobQueue' /\ SlotTyped' /\ FinalOutputs'
  BY TypeStep, SchedPart, JobsStep, SlotStep, FinalOutputsStep
<1>2. ASSUME NEW r \in Reqs
      PROVE  CallPhase(r)' /\ FinalSlot(r)' /\ StillKnown(r)' /\ LetGo(r)'
  <2>1. EndingTold(r)' /\ Past(r)' /\ EventTold(r)'
    BY EndingStep, PastStep, EventStep
  <2> QED  BY <2>1, CallPhaseStep, FinalSlotStep, StillKnownStep
              DEF EndingTold, Past, EventTold, LetGo
<1> QED  BY <1>1, <1>2 DEF EngineInv

\* The inductive invariant of the engine around the scheduler.
THEOREM EngineInvariant == Spec => []EngineInv
<1> QED  BY EngineInit, EngineStep, PTL DEF Spec

\* Type correctness of the engine's state.
THEOREM EngineTypes == Spec => []EngineTypeOK
<1>1. EngineInv => EngineTypeOK
  BY DEF EngineInv
<1> QED  BY <1>1, EngineInvariant, PTL

\* No client that leaves, at whatever await, with whatever else under way,
\* leaves a request behind that decodes for nobody.
THEOREM NoRequestOutlivesItsCall == Spec => []NoZombie
<1>1. EngineInv => NoZombie
  BY DEF EngineInv, NoZombie, LetGo, Released
<1> QED  BY <1>1, EngineInvariant, PTL

\* A call that is over leaves no entry behind that would count against the
\* in-flight cap, however it ended.
THEOREM NothingIsLeaked == Spec => []NothingLeaks
<1> DEFINE Clean == \A r \in Reqs : LeftNothing(r)
<1>1. Init => Clean
  BY DEF Init, LeftNothing
<1>2. EngineInv /\ Clean /\ [Next]_vars => Clean'
  BY LeftNothingStep
<1>3. Clean => NothingLeaks
  BY DEF LeftNothing, NothingLeaks
<1> QED  BY <1>1, <1>2, <1>3, EngineInvariant, PTL DEF Spec

\* The engine loop never sleeps on work without somebody about to wake it.
THEOREM NoWakeupIsLost == Spec => []NoLostWakeup
<1>1. Init => NoLostWakeup
  BY DEF Init, NoLostWakeup
<1>2. EngineInv /\ NoLostWakeup /\ [Next]_vars => NoLostWakeup'
  BY WakeUpStep
<1> QED  BY <1>1, <1>2, EngineInvariant, PTL DEF Spec

\* The engine combines the scheduler's calls, an abort with a clean-up in one
\* step of the asyncio thread: what the scheduler keeps to holds there too.
THEOREM EngineKeepsScheduler ==
  Spec => [](OnePlace /\ BatchBound /\ UidMaps /\ TokenOwner /\ OwnStopTokens)
<1>1. EngineInv => OnePlace /\ BatchBound /\ UidMaps /\ TokenOwner /\ OwnStopTokens
  BY DEF EngineInv, SchedInv
<1> QED  BY <1>1, EngineInvariant, PTL

\* However many branches of the disconnect guard, of the stream's own clean-up
\* and of the cancel route abort one call, it is counted once.
THEOREM EngineCountsOnce == Spec => []CountedOnce
<1>1. EngineInv => CountedOnce
  BY LedgerCounts DEF EngineInv
<1> QED  BY <1>1, EngineInvariant, PTL

LEMMA CancelledStays ==
  ASSUME EngineInv, CancelledIsGone, [Next]_vars
  PROVE  CancelledIsGone'
<1>1. SchedulerStep /\ SchedInv /\ LedgerInv /\ SchedInv' /\ AddsAreNew
  BY SchedPart DEF EngineInv
<1> SUFFICES ASSUME NEW r \in Reqs, r \in cancelled', r \notin pending'
             PROVE  r \notin (Waiting \cup running)'
  BY <1>1 DEF CancelledIsGone, SchedInv, SchedTypeOK
<1>2. CASE r \in cancelled \ pending
  <2>1. r \in Submitted /\ r \notin Waiting \cup running
    BY <1>1, <1>2 DEF CancelledIsGone, LedgerInv
  <2> QED  BY <1>1, <2>1, GoneStays
<1>3. CASE r \notin cancelled \ pending
  <2>1. CASE Work
    <3>1. r \in pending
      BY <1>3, <2>1, WorkLedgers
    <3> QED  BY <1>1, <3>1, PendingStep
  <2>2. CASE ~Work
    BY <1>1, <1>3, <2>2 DEF SchedulerStep, Admits, Admit, StepJob, Outside, AbortRequest, ForceAbort,
       abortVars
  <2> QED  BY <2>1, <2>2
<1> QED  BY <1>2, <1>3

\* Under the engine too a cancelled request is out of every list once its abort
\* is no longer pending, also where the clean-up ran first.
THEOREM EngineCancelledIsGone == Spec => []CancelledIsGone
<1>1. Init => CancelledIsGone
  BY DEF Init, SchedInit, CancelledIsGone
<1>2. EngineInv /\ CancelledIsGone /\ [Next]_vars => CancelledIsGone'
  BY CancelledStays
<1> QED  BY <1>1, <1>2, EngineInvariant, PTL DEF Spec

\* And nothing that has left the scheduler comes back to it.
THEOREM EngineGoneForGood == Spec => GoneForGood
<1>1. EngineInv /\ [Next]_vars
        => [\A r \in Reqs : status[r] # "none" /\ r \notin Waiting \cup running
                              => r \notin (Waiting \cup running)']_schedVars
  <2> SUFFICES ASSUME EngineInv, [Next]_vars, NEW r \in Reqs,
                      status[r] # "none", r \notin Waiting \cup running
               PROVE  r \notin (Waiting \cup running)'
    OBVIOUS
  <2> QED  BY SchedPart, GoneStays DEF EngineInv, Submitted
<1> QED  BY <1>1, EngineInvariant, PTL DEF Spec, GoneForGood
=============================================================================
