-------------------------- MODULE SchedulerProofs --------------------------
(***************************************************************************)
(* Proofs about Scheduler, for every number of requests, every batch size, *)
(* every fault and every interleaving of the two threads.                  *)
(***************************************************************************)
EXTENDS Scheduler, SequenceLemmas

-----------------------------------------------------------------------------
(* The inductive invariant SchedInv, one lemma per action that moves a     *)
(* request or touches the generator.                                       *)

LEMMA Bounds ==
  MaxRetries \in Nat /\ MaxFaults \in Nat /\ MaxNumSeqs \in Nat \ {0} /\ MaxTokens \in Nat \ {0}
BY SchedulerAssumption

LEMMA QueueType == ASSUME SchedTypeOK  PROVE Waiting \subseteq Reqs
<1>1. waiting \in Seq(Reqs)
  BY DEF SchedTypeOK
<1> QED  BY <1>1 DEF Waiting, ToSet

LEMMA InitInv == ASSUME SchedInit  PROVE SchedInv
<1>1. SchedTypeOK
  <2>1. /\ waiting \in Seq(Reqs) /\ status \in [Reqs -> Statuses] /\ out \in [Reqs -> Nat]
        /\ attempt \in 0..MaxRetries /\ faults \in 0..MaxFaults
    BY Bounds DEF SchedInit, Statuses
  <2>2. DOMAIN uidOf = {} /\ DOMAIN ridOf = {} /\ DOMAIN seqs = {}
    BY DEF SchedInit, EmptyMap
  <2> QED  BY <2>1, <2>2 DEF SchedInit, SchedTypeOK
<1>2. OnePlace
  BY DEF SchedInit, OnePlace, Waiting, IsInjective, ToSet
<1>3. BatchBound /\ IsFiniteSet(running)
  BY SchedulerAssumption, FS_EmptySet DEF SchedInit, BatchBound
<1>4. UidMaps /\ TokenOwner /\ OwnStopTokens /\ UidsFresh
  BY DEF SchedInit, UidMaps, TokenOwner, OwnStopTokens, UidsFresh, EmptyMap
<1> QED  BY <1>1, <1>2, <1>3, <1>4 DEF SchedInv

\* What does not touch the queue, the running map, the statuses or the generator.
LEMMA CoreUnchanged ==
  ASSUME SchedInv, SchedTypeOK',
         UNCHANGED <<waiting, running, status, genVars>>
  PROVE  SchedInv'
<1> USE DEF SchedInv, genVars
<1>1. OnePlace'
  BY DEF OnePlace, Waiting
<1>2. BatchBound' /\ IsFiniteSet(running)'
  BY DEF BatchBound
<1>3. UidMaps' /\ TokenOwner' /\ OwnStopTokens' /\ UidsFresh'
  BY DEF UidMaps, TokenOwner, OwnStopTokens, UidsFresh
<1> QED  BY <1>1, <1>2, <1>3

LEMMA StepStartInv == ASSUME SchedInv, StepStart  PROVE SchedInv'
<1>1. attempt' \in 0..MaxRetries /\ outputs' \subseteq Output
  BY Bounds DEF StepStart
<1>2. SchedTypeOK'
  BY <1>1 DEF SchedInv, StepStart, SchedTypeOK, queueVars, genVars, abortVars
<1> QED  BY <1>2, CoreUnchanged DEF StepStart, queueVars

LEMMA AbortsDoneInv == ASSUME SchedInv, AbortsDone  PROVE SchedInv'
<1>1. SchedTypeOK'
  BY DEF SchedInv, AbortsDone, SchedTypeOK, queueVars, genVars, abortVars
<1> QED  BY <1>1, CoreUnchanged DEF AbortsDone, queueVars

LEMMA ScheduleEndInv == ASSUME SchedInv, ScheduleEnd  PROVE SchedInv'
<1>1. SchedTypeOK'
  BY DEF SchedInv, ScheduleEnd, SchedTypeOK, queueVars, genVars, abortVars
<1> QED  BY <1>1, CoreUnchanged DEF ScheduleEnd, queueVars

LEMMA NothingToDoInv == ASSUME SchedInv, NothingToDo  PROVE SchedInv'
<1>1. SchedTypeOK'
  BY DEF SchedInv, NothingToDo, SchedTypeOK, queueVars, genVars, abortVars
<1> QED  BY <1>1, CoreUnchanged DEF NothingToDo, queueVars

LEMMA AbortCallInv == ASSUME SchedInv, NEW r \in Reqs, AbortCall(r)  PROVE SchedInv'
<1>1. SchedTypeOK'
  BY DEF SchedInv, AbortCall, AbortRequest, Once, SchedTypeOK, queueVars, genVars, stepVars
<1> QED  BY <1>1, CoreUnchanged DEF AbortCall, queueVars

LEMMA DisconnectCallInv == ASSUME SchedInv, NEW r \in Reqs, DisconnectCall(r)  PROVE SchedInv'
<1>1. SchedTypeOK'
  BY DEF SchedInv, DisconnectCall, ForceAbort, Once, SchedTypeOK, queueVars, genVars, stepVars, abortVars
<1> QED  BY <1>1, CoreUnchanged DEF DisconnectCall, queueVars

LEMMA RemoveCallInv == ASSUME SchedInv, NEW r \in Reqs, RemoveCall(r)  PROVE SchedInv'
<1>1. SchedTypeOK'
  BY DEF SchedInv, RemoveCall, RemoveFinished, SchedTypeOK, genVars, stepVars, abortVars
<1> QED  BY <1>1, CoreUnchanged DEF RemoveCall, RemoveFinished

\* A new request goes to the back of the queue.
LEMMA AdmitInv ==
  ASSUME SchedInv, NEW r \in Reqs, status[r] = "none", Admit(r)
  PROVE  SchedInv'
<1> USE DEF SchedInv
<1>0. r \notin Waiting /\ r \notin running
  BY DEF OnePlace
<1>1. /\ waiting' \in Seq(Reqs) /\ Waiting' = Waiting \cup {r}
      /\ IsInjective(waiting)'
  BY <1>0, ToSetAppend DEF Admit, SchedTypeOK, OnePlace, Waiting
<1>2. SchedTypeOK'
  BY <1>1 DEF Admit, SchedTypeOK, genVars, stepVars, Statuses
<1>3. OnePlace'
  BY <1>0, <1>1 DEF Admit, SchedTypeOK, OnePlace
<1>4. BatchBound' /\ IsFiniteSet(running)'
  BY DEF Admit, BatchBound
<1>5. UidMaps' /\ TokenOwner' /\ OwnStopTokens' /\ UidsFresh'
  BY DEF Admit, genVars, UidMaps, TokenOwner, OwnStopTokens, UidsFresh
<1> QED  BY <1>2, <1>3, <1>4, <1>5

\* An abort takes the request out of the queue wherever its status and its entry
\* in requests stand by then.
LEMMA AbortUnqueues ==
  ASSUME SchedInv, NEW r \in Reqs, DoAbort(r)
  PROVE  waiting' \in Seq(Reqs) /\ Waiting' = Waiting \ {r} /\ IsInjective(waiting)'
<1> USE DEF SchedInv
<1>1. CASE r \in requests /\ status[r] # "waiting"
  <2>1. r \notin Waiting /\ waiting' = waiting
    BY <1>1 DEF OnePlace, DoAbort, Unqueued
  <2> QED  BY <2>1 DEF OnePlace, SchedTypeOK, Waiting
<1>2. CASE ~(r \in requests /\ status[r] # "waiting")
  <2>1. waiting' = RemoveFirst(waiting, r)
    BY <1>2 DEF DoAbort, Unqueued
  <2> QED  BY <2>1, ToSetRemoveFirst DEF OnePlace, SchedTypeOK, Waiting
<1> QED  BY <1>1, <1>2

LEMMA DoAbortInv == ASSUME SchedInv, NEW r \in Reqs, DoAbort(r)  PROVE SchedInv'
<1> USE DEF SchedInv
<1> DEFINE uids == IF r \in DOMAIN uidOf THEN {uidOf[r]} ELSE {}
<1>1. /\ waiting' \in Seq(Reqs) /\ Waiting' = Waiting \ {r}
      /\ IsInjective(waiting)'
  BY AbortUnqueues
<1>2. SchedTypeOK'
  BY <1>1 DEF DoAbort, SchedTypeOK, Drop, stepVars, Statuses
<1>3. OnePlace'
  BY <1>1 DEF DoAbort, SchedTypeOK, OnePlace
<1>4. BatchBound' /\ IsFiniteSet(running)'
  <2>1. /\ IsFiniteSet(running \ {r}) /\ Cardinality(running) \in Nat
        /\ \/ Cardinality(running \ {r}) = Cardinality(running)
           \/ Cardinality(running \ {r}) = Cardinality(running) - 1
    BY FS_RemoveElement, FS_CardinalityType
  <2>2. running' = running \ {r}
    BY DEF DoAbort
  <2> QED  BY <2>1, <2>2, Bounds DEF BatchBound
<1>5. \A u \in DOMAIN ridOf : u \in uids <=> ridOf[u] = r
  BY DEF UidMaps
<1>6. /\ DOMAIN ridOf' = DOMAIN ridOf \ uids /\ DOMAIN seqs' = DOMAIN seqs \ uids
      /\ DOMAIN uidOf' = DOMAIN uidOf \ {r}
      /\ \A u \in DOMAIN ridOf' : ridOf'[u] = ridOf[u]
      /\ \A u \in DOMAIN seqs' : seqs'[u] = seqs[u]
      /\ \A q \in DOMAIN uidOf' : uidOf'[q] = uidOf[q]
      /\ running' = running \ {r} /\ genCfg' = genCfg /\ nextUid' = nextUid
  BY DEF DoAbort, Drop
<1>7. UidMaps'
  BY <1>5, <1>6 DEF UidMaps
<1>8. TokenOwner' /\ OwnStopTokens' /\ UidsFresh'
  BY <1>6 DEF TokenOwner, OwnStopTokens, UidsFresh
<1> QED  BY <1>2, <1>3, <1>4, <1>7, <1>8

\* A generator is opened anew only where nothing is running.
LEMMA ReopenedIdle ==
  ASSUME SchedInv, NEW r \in Reqs, ~Incompatible(r), Reopened(r)
  PROVE  running = {} /\ DOMAIN uidOf = {} /\ DOMAIN ridOf = {}
<1>1. running = {}
  BY SchedulerAssumption
     DEF SchedInv, SchedTypeOK, OwnStopTokens, Incompatible, Reopened
<1> QED  BY <1>1 DEF SchedInv, UidMaps

\* The head of the queue is inserted under a uid no other sequence has.
LEMMA ScheduleHeadInv == ASSUME SchedInv, ScheduleHead  PROVE SchedInv'
<1> USE DEF SchedInv
<1> DEFINE r   == Head(waiting)
           old == IF Reopened(r) THEN EmptyMap ELSE seqs
           uid == IF Reopened(r) THEN 0 ELSE nextUid
<1>1. /\ Tail(waiting) \in Seq(Reqs) /\ r \in Reqs /\ r \in Waiting
      /\ Waiting = ToSet(Tail(waiting)) \cup {r}
      /\ IsInjective(Tail(waiting)) /\ r \notin ToSet(Tail(waiting))
  BY ToSetTail DEF ScheduleHead, CanSchedule, SchedTypeOK, OnePlace, Waiting
<1>2. /\ waiting' = Tail(waiting) /\ genCfg' = StopCfg[r] /\ nextUid' = uid + 1
      /\ seqs' = Put(old, uid, [req |-> r, n |-> 0, left |-> Prefill[r]])
      /\ uidOf' = Put(uidOf, r, uid) /\ ridOf' = Put(ridOf, uid, r)
      /\ status' = [status EXCEPT ![r] = "running"] /\ running' = running \cup {r}
      /\ ~Incompatible(r) /\ Cardinality(running) < MaxNumSeqs
  BY DEF ScheduleHead, CanSchedule
<1>3. r \notin running
  BY <1>1 DEF OnePlace
<1>4. Reopened(r) => running = {} /\ DOMAIN uidOf = {} /\ DOMAIN ridOf = {}
  BY <1>1, <1>2, ReopenedIdle
<1>5. /\ uid \in Nat /\ DOMAIN old \subseteq Nat
      /\ \A u \in DOMAIN old : old[u] \in SeqRecord /\ u < uid
      /\ \A u \in DOMAIN ridOf : u \in DOMAIN old /\ old[u].req = ridOf[u] /\ u # uid
  BY <1>4 DEF SchedTypeOK, UidsFresh, TokenOwner, EmptyMap
<1>6. /\ DOMAIN seqs' = DOMAIN old \cup {uid} /\ DOMAIN uidOf' = DOMAIN uidOf \cup {r}
      /\ DOMAIN ridOf' = DOMAIN ridOf \cup {uid}
      /\ seqs'[uid] = [req |-> r, n |-> 0, left |-> Prefill[r]]
      /\ \A u \in DOMAIN old : u # uid => seqs'[u] = old[u]
      /\ uidOf'[r] = uid /\ \A q \in DOMAIN uidOf : q # r => uidOf'[q] = uidOf[q]
      /\ ridOf'[uid] = r /\ \A u \in DOMAIN ridOf : u # uid => ridOf'[u] = ridOf[u]
  BY <1>2 DEF Put
<1> HIDE DEF r, old, uid
<1>7. seqs'[uid] \in SeqRecord /\ seqs'[uid].req = r
  BY <1>1, <1>6, SchedulerAssumption DEF SeqRecord
<1>8. SchedTypeOK'
  <2>1. /\ waiting' \in Seq(Reqs) /\ running' \subseteq Reqs
        /\ status' \in [Reqs -> Statuses] /\ nextUid' \in Nat
        /\ genCfg' \in {StopCfg[q] : q \in Reqs} \cup {NoCfg}
    BY <1>1, <1>2, <1>5 DEF SchedTypeOK, Statuses
  <2>2. /\ DOMAIN uidOf' \subseteq Reqs /\ \A q \in DOMAIN uidOf' : uidOf'[q] \in Nat
        /\ DOMAIN ridOf' \subseteq Nat /\ \A u \in DOMAIN ridOf' : ridOf'[u] \in Reqs
    BY <1>1, <1>5, <1>6 DEF SchedTypeOK
  <2>3. DOMAIN seqs' \subseteq Nat /\ \A u \in DOMAIN seqs' : seqs'[u] \in SeqRecord
    BY <1>5, <1>6, <1>7
  <2> QED  BY <2>1, <2>2, <2>3 DEF ScheduleHead, SchedTypeOK, abortVars, stepVars
<1>9. OnePlace'
  BY <1>1, <1>2, <1>3 DEF OnePlace, Waiting, SchedTypeOK
<1>10. BatchBound' /\ IsFiniteSet(running)'
  <2>1. /\ IsFiniteSet(running \cup {r}) /\ Cardinality(running) \in Nat
        /\ Cardinality(running \cup {r}) = Cardinality(running) + 1
    BY <1>3, FS_AddElement, FS_CardinalityType
  <2> QED  BY <1>2, <2>1, Bounds DEF BatchBound
<1>11. UidMaps'
  BY <1>2, <1>3, <1>5, <1>6 DEF UidMaps
<1>12. TokenOwner'
  BY <1>5, <1>6, <1>7 DEF TokenOwner
<1>13. OwnStopTokens'
  BY <1>1, <1>2, <1>4 DEF OwnStopTokens, Reopened
<1>14. UidsFresh'
  <2>1. \A u \in DOMAIN old : u \in Nat /\ u < uid
    BY <1>5
  <2> QED  BY <1>2, <1>5, <1>6, <2>1 DEF UidsFresh
<1> QED  BY <1>8, <1>9, <1>10, <1>11, <1>12, <1>13, <1>14

-----------------------------------------------------------------------------
(* The exception handlers.  queue is the waiting queue by the time of the  *)
(* exception: the whole queue, or what is left without the head.           *)

LEMMA QueueLeft ==
  ASSUME SchedInv, CanSchedule
  PROVE  /\ Tail(waiting) \in Seq(Reqs) /\ IsInjective(Tail(waiting))
         /\ ToSet(Tail(waiting)) \subseteq Waiting /\ Head(waiting) \in Reqs
  BY ToSetTail DEF SchedInv, SchedTypeOK, OnePlace, CanSchedule, Waiting

LEMMA AbortRunningInv ==
  ASSUME SchedInv, Fault, NEW queue \in Seq(Reqs), IsInjective(queue),
         ToSet(queue) \subseteq Waiting, AbortRunning(queue)
  PROVE  SchedInv'
<1> USE DEF SchedInv
<1>1. \A r \in running : AbortedOutput(r) \in Output
  BY DEF AbortedOutput, Output, SchedTypeOK
<1>2. SchedTypeOK'
  <2>1. status' \in [Reqs -> Statuses] /\ outputs' \subseteq Output
    BY <1>1 DEF AbortRunning, SchedTypeOK, Statuses
  <2>2. faults' \in 0..MaxFaults
    BY Bounds DEF Fault, SchedTypeOK
  <2>3. DOMAIN uidOf' = {} /\ DOMAIN ridOf' = {} /\ DOMAIN seqs' = {} /\ nextUid' = 0
    BY DEF AbortRunning, CloseGenerator, EmptyMap
  <2> QED  BY <2>1, <2>2, <2>3
           DEF AbortRunning, CloseGenerator, Fault, SchedTypeOK, abortVars
<1>3. OnePlace'
  <2>1. waiting' = queue /\ running' = {}
    BY DEF AbortRunning
  <2>2. \A q \in ToSet(queue) : status'[q] = status[q]
    BY QueueType DEF AbortRunning, OnePlace
  <2> QED  BY <2>1, <2>2 DEF OnePlace, Waiting
<1>4. BatchBound' /\ IsFiniteSet(running)'
  BY FS_EmptySet, SchedulerAssumption DEF AbortRunning, BatchBound
<1>5. UidMaps' /\ TokenOwner' /\ OwnStopTokens' /\ UidsFresh'
  BY DEF AbortRunning, CloseGenerator, EmptyMap, UidMaps, TokenOwner, OwnStopTokens, UidsFresh
<1> QED  BY <1>2, <1>3, <1>4, <1>5

LEMMA RetryRunningInv ==
  ASSUME SchedInv, Fault, attempt < MaxRetries, NEW queue \in Seq(Reqs), IsInjective(queue),
         ToSet(queue) \subseteq Waiting, RetryRunning(queue)
  PROVE  SchedInv'
<1> USE DEF SchedInv
<1>1. PICK s \in InSomeOrder(running) : waiting' = s \o queue
  BY DEF RetryRunning
<1>2. s \in Seq(Reqs) /\ IsInjective(s) /\ ToSet(s) = running
  <2>1. Cardinality(running) \in Nat
    BY FS_CardinalityType
  <2>2. s \in [1..Cardinality(running) -> Reqs]
    BY <1>1 DEF InSomeOrder, SchedTypeOK
  <2> QED  BY <1>1, <2>1, <2>2 DEF InSomeOrder
<1>3. ToSet(s) \cap ToSet(queue) = {}
  BY <1>2 DEF OnePlace
<1>4. /\ waiting' \in Seq(Reqs) /\ IsInjective(waiting)'
      /\ Waiting' = running \cup ToSet(queue)
  BY <1>1, <1>2, <1>3, ToSetConcat DEF Waiting
<1>5. SchedTypeOK'
  <2>1. status' \in [Reqs -> Statuses]
    BY DEF RetryRunning, SchedTypeOK, Statuses
  <2>2. faults' \in 0..MaxFaults /\ attempt' \in 0..MaxRetries
    BY Bounds DEF Fault, RetryRunning, SchedTypeOK
  <2>3. DOMAIN uidOf' = {} /\ DOMAIN ridOf' = {} /\ DOMAIN seqs' = {} /\ nextUid' = 0
    BY DEF RetryRunning, CloseGenerator, EmptyMap
  <2> QED  BY <1>4, <2>1, <2>2, <2>3
           DEF RetryRunning, CloseGenerator, Fault, SchedTypeOK, abortVars
<1>6. OnePlace'
  <2>1. running' = {}
    BY DEF RetryRunning
  <2>2. \A q \in running \cup ToSet(queue) : status'[q] = "waiting"
    BY QueueType DEF RetryRunning, OnePlace, SchedTypeOK
  <2> QED  BY <1>4, <2>1, <2>2 DEF OnePlace
<1>7. BatchBound' /\ IsFiniteSet(running)'
  BY FS_EmptySet, SchedulerAssumption DEF RetryRunning, BatchBound
<1>8. UidMaps' /\ TokenOwner' /\ OwnStopTokens' /\ UidsFresh'
  BY DEF RetryRunning, CloseGenerator, EmptyMap, UidMaps, TokenOwner, OwnStopTokens, UidsFresh
<1> QED  BY <1>5, <1>6, <1>7, <1>8

LEMMA HandleInv ==
  ASSUME SchedInv, Fault, NEW kind, NEW queue \in Seq(Reqs), IsInjective(queue),
         ToSet(queue) \subseteq Waiting, Handle(kind, queue)
  PROVE  SchedInv'
BY AbortRunningInv, RetryRunningInv DEF Handle

LEMMA PropagateInv ==
  ASSUME SchedInv, Fault, NEW queue \in Seq(Reqs), IsInjective(queue),
         ToSet(queue) \subseteq Waiting, Propagate(queue), UNCHANGED genVars
  PROVE  SchedInv'
<1> USE DEF SchedInv, genVars
<1>1. SchedTypeOK'
  <2>1. faults' \in 0..MaxFaults
    BY Bounds DEF Fault, SchedTypeOK
  <2> QED  BY <2>1 DEF Propagate, Fault, SchedTypeOK, abortVars
<1>2. OnePlace'
  BY DEF Propagate, OnePlace, Waiting
<1>3. BatchBound' /\ IsFiniteSet(running)'
  BY DEF Propagate, BatchBound
<1>4. UidMaps' /\ TokenOwner' /\ OwnStopTokens' /\ UidsFresh'
  BY DEF Propagate, UidMaps, TokenOwner, OwnStopTokens, UidsFresh
<1> QED  BY <1>1, <1>2, <1>3, <1>4

\* An insert that fails in a new generator leaves one without sequences.
LEMMA ReopenFailsInv ==
  ASSUME SchedInv, Fault, NEW r \in Reqs, ~Incompatible(r), Reopened(r),
         NEW queue \in Seq(Reqs), IsInjective(queue), ToSet(queue) \subseteq Waiting,
         Propagate(queue), UNCHANGED <<uidOf, ridOf>>,
         genCfg' \in {NoCfg, StopCfg[r]}, seqs' = EmptyMap, nextUid' = 0
  PROVE  SchedInv'
<1> USE DEF SchedInv
<1>1. running = {} /\ DOMAIN uidOf = {} /\ DOMAIN ridOf = {}
  BY ReopenedIdle
<1>2. SchedTypeOK'
  <2>1. faults' \in 0..MaxFaults
    BY Bounds DEF Fault, SchedTypeOK
  <2>2. DOMAIN uidOf' = {} /\ DOMAIN ridOf' = {} /\ DOMAIN seqs' = {}
    BY <1>1 DEF EmptyMap
  <2> QED  BY <2>1, <2>2 DEF Propagate, Fault, SchedTypeOK, abortVars
<1>3. OnePlace'
  BY DEF Propagate, OnePlace, Waiting
<1>4. BatchBound' /\ IsFiniteSet(running)'
  BY DEF Propagate, BatchBound
<1>5. UidMaps' /\ TokenOwner' /\ OwnStopTokens' /\ UidsFresh'
  BY <1>1 DEF Propagate, EmptyMap, UidMaps, TokenOwner, OwnStopTokens, UidsFresh
<1> QED  BY <1>2, <1>3, <1>4, <1>5

LEMMA InsertFailsInv == ASSUME SchedInv, InsertFails  PROVE SchedInv'
<1> DEFINE queue == Tail(waiting)
           r == Head(waiting)
<1>1. /\ queue \in Seq(Reqs) /\ IsInjective(queue)
      /\ ToSet(queue) \subseteq Waiting /\ r \in Reqs
  BY QueueLeft DEF InsertFails
<1>2. Fault /\ ~Incompatible(r)
  BY DEF InsertFails
<1>3. PICK kind \in InsertFaults :
        \/ Handle(kind, queue)
        \/ /\ Propagate(queue) /\ UNCHANGED <<uidOf, ridOf>>
           /\ IF Reopened(r)
              THEN genCfg' \in {NoCfg, StopCfg[r]} /\ seqs' = EmptyMap /\ nextUid' = 0
              ELSE UNCHANGED <<genCfg, nextUid, seqs>>
  BY DEF InsertFails
<1> HIDE DEF queue, r
<1>4. CASE Handle(kind, queue)
  BY <1>1, <1>2, <1>4, HandleInv
<1>5. CASE /\ Propagate(queue) /\ UNCHANGED <<uidOf, ridOf>>
           /\ Reopened(r) /\ genCfg' \in {NoCfg, StopCfg[r]} /\ seqs' = EmptyMap /\ nextUid' = 0
  BY <1>1, <1>2, <1>5, ReopenFailsInv
<1>6. CASE Propagate(queue) /\ UNCHANGED <<uidOf, ridOf, genCfg, nextUid, seqs>>
  <2>1. UNCHANGED genVars
    BY <1>6 DEF genVars
  <2> QED  BY <1>1, <1>2, <1>6, <2>1, PropagateInv
<1> QED  BY <1>3, <1>4, <1>5, <1>6

LEMMA NextFailsInv == ASSUME SchedInv, NextFails  PROVE SchedInv'
<1>1. /\ waiting \in Seq(Reqs) /\ IsInjective(waiting) /\ ToSet(waiting) \subseteq Waiting
      /\ Fault
  BY DEF SchedInv, SchedTypeOK, OnePlace, Waiting, NextFails
<1>2. PICK kind \in NextFaults :
        Handle(kind, waiting) \/ (Propagate(waiting) /\ UNCHANGED genVars)
  BY DEF NextFails
<1>3. CASE Handle(kind, waiting)
  BY <1>1, <1>3, HandleInv
<1>4. CASE Propagate(waiting) /\ UNCHANGED genVars
  BY <1>1, <1>4, PropagateInv
<1> QED  BY <1>2, <1>3, <1>4
-----------------------------------------------------------------------------
(* One decoding step.                                                      *)

LEMMA GenerateInv == ASSUME SchedInv, Generate  PROVE SchedInv'
<1> USE DEF SchedInv
<1>1. PICK eos \in SUBSET DOMAIN seqs :
        \E match \in SUBSET {u \in Responses : ridOf[u] \in StopStrings /\ ~Ends(u, eos)} :
          LET FinOf(u) == Ends(u, eos) \/ u \in match
              done == {ridOf[u] : u \in {v \in Responses : FinOf(v)}}
          IN  /\ seqs' = Advance(eos)
              /\ outputs' = {[req |-> ridOf[u], tok |-> seqs[u].n + 1, fin |-> FinOf(u),
                              reason |-> IF ~FinOf(u) THEN "none"
                                         ELSE IF u \in eos \cup match THEN "stop" ELSE "length",
                              err |-> FALSE] : u \in Responses}
              /\ status' = [r \in Reqs |-> IF r \in done THEN "finished" ELSE status[r]]
              /\ running' = running \ done
              /\ ridOf' = Drop(ridOf, {u \in DOMAIN ridOf : ridOf[u] \in done})
              /\ uidOf' = Drop(uidOf, done)
  BY DEF Generate
<1>2. PICK match \in SUBSET Responses :
        LET FinOf(u) == Ends(u, eos) \/ u \in match
            done == {ridOf[u] : u \in {v \in Responses : FinOf(v)}}
        IN  /\ seqs' = Advance(eos)
            /\ outputs' = {[req |-> ridOf[u], tok |-> seqs[u].n + 1, fin |-> FinOf(u),
                            reason |-> IF ~FinOf(u) THEN "none"
                                       ELSE IF u \in eos \cup match THEN "stop" ELSE "length",
                            err |-> FALSE] : u \in Responses}
            /\ status' = [r \in Reqs |-> IF r \in done THEN "finished" ELSE status[r]]
            /\ running' = running \ done
            /\ ridOf' = Drop(ridOf, {u \in DOMAIN ridOf : ridOf[u] \in done})
            /\ uidOf' = Drop(uidOf, done)
  BY <1>1
<1> DEFINE FinOf(u) == Ends(u, eos) \/ u \in match
           done == {ridOf[u] : u \in {v \in Responses : FinOf(v)}}
<1>3. /\ waiting' = waiting /\ genCfg' = genCfg /\ nextUid' = nextUid
      /\ running' = running \ done
      /\ status' = [r \in Reqs |-> IF r \in done THEN "finished" ELSE status[r]]
  BY <1>2 DEF Generate
<1>4. /\ DOMAIN uidOf' = DOMAIN uidOf \ done
      /\ DOMAIN ridOf' = {u \in DOMAIN ridOf : ridOf[u] \notin done}
      /\ \A r \in DOMAIN uidOf' : uidOf'[r] = uidOf[r]
      /\ \A u \in DOMAIN ridOf' : ridOf'[u] = ridOf[u]
  BY <1>2 DEF Drop
<1>5. /\ DOMAIN seqs' = {u \in DOMAIN seqs : ~Ends(u, eos)}
      /\ \A u \in DOMAIN seqs' : seqs'[u] \in SeqRecord /\ seqs'[u].req = seqs[u].req
  <2>1. seqs' = Advance(eos)
    BY <1>2
  <2>2. \A u \in DOMAIN seqs : seqs[u] \in SeqRecord
    BY DEF SchedTypeOK
  <2>3. ASSUME NEW u \in DOMAIN seqs, ~Ends(u, eos)
        PROVE  seqs'[u] \in SeqRecord /\ seqs'[u].req = seqs[u].req
    <3>1. seqs'[u] = IF seqs[u].left > 0 THEN [seqs[u] EXCEPT !.left = @ - 1]
                                         ELSE [seqs[u] EXCEPT !.n = @ + 1]
      BY <2>1, <2>3 DEF Advance
    <3> QED  BY <2>2, <3>1 DEF SeqRecord
  <2> QED  BY <2>1, <2>3 DEF Advance
<1>6. outputs' \subseteq Output
  <2>1. \A u \in Responses : ridOf[u] \in Reqs /\ seqs[u].n + 1 \in Nat
    BY DEF Responses, SchedTypeOK, SeqRecord
  <2>2. \A u \in Responses : FinOf(u) \in BOOLEAN
    BY DEF Ends
  <2> HIDE DEF FinOf
  <2>3. \A o \in outputs' : \E u \in Responses :
          o = [req |-> ridOf[u], tok |-> seqs[u].n + 1, fin |-> FinOf(u),
               reason |-> IF ~FinOf(u) THEN "none"
                          ELSE IF u \in eos \cup match THEN "stop" ELSE "length",
               err |-> FALSE]
    BY <1>2 DEF FinOf
  <2>4. SUFFICES ASSUME NEW u \in Responses, NEW why \in {"none", "stop", "length"}
                 PROVE  [req |-> ridOf[u], tok |-> seqs[u].n + 1, fin |-> FinOf(u),
                         reason |-> why, err |-> FALSE] \in Output
    BY <2>3
  <2> QED  BY <2>1, <2>2 DEF Output
<1> HIDE DEF done
<1>7. SchedTypeOK'
  <2>1. status' \in [Reqs -> Statuses] /\ out' \in [Reqs -> Nat]
    BY <1>3 DEF Generate, SchedTypeOK, Statuses
  <2>2. /\ running' \subseteq Reqs /\ waiting' \in Seq(Reqs)
        /\ genCfg' \in {StopCfg[q] : q \in Reqs} \cup {NoCfg} /\ nextUid' \in Nat
    BY <1>3 DEF SchedTypeOK
  <2>3. /\ DOMAIN uidOf' \subseteq Reqs /\ \A q \in DOMAIN uidOf' : uidOf'[q] \in Nat
        /\ DOMAIN ridOf' \subseteq Nat /\ \A u \in DOMAIN ridOf' : ridOf'[u] \in Reqs
        /\ DOMAIN seqs' \subseteq Nat /\ \A u \in DOMAIN seqs' : seqs'[u] \in SeqRecord
    BY <1>4, <1>5 DEF SchedTypeOK
  <2> QED  BY <1>6, <2>1, <2>2, <2>3 DEF Generate, SchedTypeOK, abortVars
<1>8. OnePlace'
  <2>1. done \subseteq running
    BY DEF done, Responses
  <2>2. Waiting' = Waiting /\ IsInjective(waiting)'
    BY <1>3 DEF OnePlace, Waiting
  <2>3. \A r \in Waiting : r \notin done /\ status'[r] = status[r]
    BY <1>3, <2>1, QueueType DEF OnePlace
  <2>4. \A r \in running \ done : status'[r] = status[r]
    BY <1>3 DEF SchedTypeOK
  <2> QED  BY <1>3, <2>2, <2>3, <2>4 DEF OnePlace
<1>9. BatchBound' /\ IsFiniteSet(running)'
  <2>1. /\ IsFiniteSet(running \ done) /\ Cardinality(running \ done) <= Cardinality(running)
        /\ Cardinality(running) \in Nat /\ Cardinality(running \ done) \in Nat
    BY FS_Subset, FS_CardinalityType
  <2> QED  BY <1>3, <2>1, Bounds DEF BatchBound
<1>10. UidMaps'
  BY <1>3, <1>4 DEF UidMaps
<1>11. ASSUME NEW u \in DOMAIN ridOf, ridOf[u] \notin done  PROVE ~Ends(u, eos)
  <2> SUFFICES ASSUME Ends(u, eos)  PROVE FALSE
    OBVIOUS
  <2>1. u \in Responses
    BY DEF UidMaps, TokenOwner, Responses, Ends
  <2> QED  BY <1>11, <2>1 DEF done
<1>12. TokenOwner'
  BY <1>4, <1>5, <1>11 DEF TokenOwner
<1>13. OwnStopTokens' /\ UidsFresh'
  BY <1>3, <1>5 DEF OwnStopTokens, UidsFresh
<1> QED  BY <1>7, <1>8, <1>9, <1>10, <1>12, <1>13

-----------------------------------------------------------------------------
(* Theorems.                                                               *)

LEMMA StepInv == ASSUME SchedInv, [SchedNext]_schedVars  PROVE SchedInv'
<1>1. CASE StepStart  BY <1>1, StepStartInv
<1>2. CASE Work
  <2>1. ASSUME NEW r \in Reqs, DoAbort(r)  PROVE SchedInv'
    BY <2>1, DoAbortInv
  <2> QED  BY <1>2, <2>1, AbortsDoneInv, ScheduleHeadInv, ScheduleEndInv,
              InsertFailsInv, NextFailsInv, GenerateInv, NothingToDoInv DEF Work
<1>3. ASSUME NEW r \in Reqs, AddCall(r) \/ AbortCall(r) \/ DisconnectCall(r) \/ RemoveCall(r)
      PROVE  SchedInv'
  BY <1>3, AdmitInv, AbortCallInv, DisconnectCallInv, RemoveCallInv DEF AddCall
<1>4. CASE UNCHANGED schedVars
  <2>1. SchedTypeOK'
    BY <1>4 DEF SchedInv, SchedTypeOK, schedVars, queueVars, genVars, abortVars, stepVars
  <2> QED  BY <1>4, <2>1, CoreUnchanged DEF schedVars, queueVars
<1> QED  BY <1>1, <1>2, <1>3, <1>4 DEF SchedNext

\* The inductive invariant, for every interleaving of the worker's steps with
\* the asyncio thread's calls, every fault and every size of the system.
THEOREM SchedulerInvariant == SchedSpec => []SchedInv
<1>1. SchedInit => SchedInv
  BY InitInv
<1>2. SchedInv /\ [SchedNext]_schedVars => SchedInv'
  BY StepInv
<1> QED  BY <1>1, <1>2, PTL DEF SchedSpec

\* Type correctness of the scheduler's state.
THEOREM SchedulerTypes == SchedSpec => []SchedTypeOK
<1>1. SchedInv => SchedTypeOK
  BY DEF SchedInv
<1> QED  BY <1>1, SchedulerInvariant, PTL

\* A request is at most once in the queue or the running map, never in both, and
\* its status says which, whatever is aborted, retried or finished meanwhile.
THEOREM EveryRequestOnePlace == SchedSpec => []OnePlace
<1>1. SchedInv => OnePlace
  BY DEF SchedInv
<1> QED  BY <1>1, SchedulerInvariant, PTL

\* The running map never exceeds max_num_seqs.
THEOREM BatchIsBounded == SchedSpec => []BatchBound
<1>1. SchedInv => BatchBound
  BY DEF SchedInv
<1> QED  BY <1>1, SchedulerInvariant, PTL

\* The uid maps stay inverse to each other and cover exactly the running requests.
THEOREM UidMapsAgree == SchedSpec => []UidMaps
<1>1. SchedInv => UidMaps
  BY DEF SchedInv
<1> QED  BY <1>1, SchedulerInvariant, PTL

\* No token of a sequence ever reaches a request it was not generated for.
THEOREM TokensReachTheirOwner == SchedSpec => []TokenOwner
<1>1. SchedInv => TokenOwner
  BY DEF SchedInv
<1> QED  BY <1>1, SchedulerInvariant, PTL

\* Every running request decodes under its own stop tokens.
THEOREM StopTokensAreOwn == SchedSpec => []OwnStopTokens
<1>1. SchedInv => OwnStopTokens
  BY DEF SchedInv
<1> QED  BY <1>1, SchedulerInvariant, PTL

-----------------------------------------------------------------------------
(* What every step does to the queue, the running map and the statuses.    *)

Steady ==
  /\ (Waiting \cup running)' \subseteq Waiting \cup running
  /\ Submitted' = Submitted

LEMMA HandleSteady ==
  ASSUME SchedInv, NEW kind, NEW queue \in Seq(Reqs), ToSet(queue) \subseteq Waiting,
         Handle(kind, queue)
  PROVE  Steady
<1> USE DEF SchedInv
<1>1. CASE AbortRunning(queue)
  <2>1. Submitted' = Submitted
    BY <1>1 DEF AbortRunning, Submitted, OnePlace
  <2>2. waiting' = queue /\ running' = {}
    BY <1>1 DEF AbortRunning
  <2> QED  BY <2>1, <2>2 DEF Steady, Waiting
<1>2. CASE RetryRunning(queue)
  <2>1. PICK s \in InSomeOrder(running) : waiting' = s \o queue
    BY <1>2 DEF RetryRunning
  <2>2. s \in Seq(Reqs) /\ ToSet(s) = running
    <3>1. Cardinality(running) \in Nat
      BY FS_CardinalityType
    <3>2. s \in [1..Cardinality(running) -> Reqs]
      BY <2>1 DEF InSomeOrder, SchedTypeOK
    <3> QED  BY <2>1, <3>1, <3>2 DEF InSomeOrder
  <2>3. Waiting' = running \cup ToSet(queue) /\ running' = {}
    BY <1>2, <2>1, <2>2, ToSetConcat DEF RetryRunning, Waiting
  <2>4. Submitted' = Submitted
    BY <1>2 DEF RetryRunning, Submitted, OnePlace
  <2> QED  BY <2>3, <2>4 DEF Steady
<1> QED  BY <1>1, <1>2 DEF Handle

LEMMA PropagateSteady ==
  ASSUME NEW queue, ToSet(queue) \subseteq Waiting, Propagate(queue)
  PROVE  Steady
BY DEF Propagate, Steady, Waiting, Submitted

\* Only add_request lets a request in, and a request once submitted stays so.
LEMMA WorkSteady == ASSUME SchedInv, requests \subseteq Submitted, Work  PROVE Steady
<1>1. ASSUME NEW r \in Reqs, DoAbort(r)  PROVE Steady
  <2>1. Waiting' = Waiting \ {r} /\ running' = running \ {r}
    BY <1>1, AbortUnqueues DEF DoAbort
  <2>2. Submitted' = Submitted
    BY <1>1 DEF DoAbort, Submitted, SchedInv, SchedTypeOK
  <2> QED  BY <2>1, <2>2 DEF Steady
<1>2. CASE AbortsDone \/ ScheduleEnd \/ NothingToDo
  BY <1>2 DEF AbortsDone, ScheduleEnd, NothingToDo, queueVars, Steady, Waiting, Submitted
<1>3. CASE ScheduleHead
  <2>1. /\ Head(waiting) \in Waiting /\ waiting' = Tail(waiting)
        /\ ToSet(Tail(waiting)) \subseteq Waiting
        /\ running' = running \cup {Head(waiting)}
        /\ status' = [status EXCEPT ![Head(waiting)] = "running"]
    BY <1>3, ToSetTail DEF ScheduleHead, CanSchedule, SchedInv, SchedTypeOK, Waiting
  <2>2. Submitted' = Submitted
    BY <2>1 DEF Submitted, SchedInv, SchedTypeOK, OnePlace
  <2> QED  BY <2>1, <2>2 DEF Steady, Waiting
<1>4. CASE InsertFails
  <2>1. PICK kind \in InsertFaults :
          Handle(kind, Tail(waiting)) \/ Propagate(Tail(waiting))
    BY <1>4 DEF InsertFails
  <2>2. Tail(waiting) \in Seq(Reqs) /\ ToSet(Tail(waiting)) \subseteq Waiting
    BY <1>4, QueueLeft DEF InsertFails
  <2> QED  BY <2>1, <2>2, HandleSteady, PropagateSteady
<1>5. CASE NextFails
  <2>1. PICK kind \in NextFaults : Handle(kind, waiting) \/ Propagate(waiting)
    BY <1>5 DEF NextFails
  <2>2. waiting \in Seq(Reqs) /\ ToSet(waiting) \subseteq Waiting
    BY DEF SchedInv, SchedTypeOK, Waiting
  <2> QED  BY <2>1, <2>2, HandleSteady, PropagateSteady
<1>6. CASE Generate
  <2>1. PICK done \in SUBSET running :
          /\ running' = running \ done
          /\ status' = [r \in Reqs |-> IF r \in done THEN "finished" ELSE status[r]]
    <3>1. \A S \in SUBSET Responses : {ridOf[u] : u \in S} \subseteq running
      BY DEF Responses
    <3> QED  BY <1>6, <3>1 DEF Generate
  <2>2. Submitted' = Submitted
    BY <2>1 DEF Submitted, SchedInv, SchedTypeOK, OnePlace
  <2>3. Waiting' = Waiting
    BY <1>6 DEF Generate, Waiting
  <2> QED  BY <2>1, <2>2, <2>3 DEF Steady
<1> QED  BY <1>1, <1>2, <1>3, <1>4, <1>5, <1>6 DEF Work

\* What a worker's action leaves alone.
LEMMA WorkLedgers ==
  ASSUME Work
  PROVE  /\ UNCHANGED <<requests, cancelled, disconnected, numCancelled, numDisconnect>>
         /\ pending' \subseteq pending
         /\ pending' = pending \/ \E r \in Reqs : DoAbort(r)
BY DEF Work, DoAbort, AbortsDone, ScheduleHead, ScheduleEnd, InsertFails, NextFails, Generate,
       NothingToDo, Fault, queueVars, abortVars

-----------------------------------------------------------------------------
(* The ledgers of cancelled requests.                                      *)

LEMMA LedgerInit == ASSUME SchedInit  PROVE LedgerInv
<1>1. Submitted = {}
  BY DEF SchedInit, Submitted
<1> QED  BY <1>1, FS_EmptySet DEF SchedInit, LedgerInv

\* Adding to a ledger counts the request unless it is there already.
LEMMA LedgerGrows ==
  ASSUME NEW S, IsFiniteSet(S), NEW r, NEW n, n = Cardinality(S)
  PROVE  n + Once(r, S) = Cardinality(S \cup {r})
BY FS_AddElement, FS_CardinalityType DEF Once

LEMMA AbortLedger ==
  ASSUME SchedInv, LedgerInv, NEW r \in Reqs,
         UNCHANGED status, requests' \subseteq requests,
         AbortRequest(r) \/ ForceAbort(r)
  PROVE  LedgerInv'
<1>1. Submitted' = Submitted /\ requests' \subseteq requests
  BY DEF Submitted
<1>2. CASE ~Known(r)
  BY <1>1, <1>2 DEF AbortRequest, ForceAbort, LedgerInv, abortVars
<1>3. CASE Known(r)
  <2>1. r \in Submitted
    BY <1>3 DEF Known, Submitted, SchedInv, UidMaps, OnePlace, LedgerInv
  <2>2. /\ pending' = pending \cup {r} /\ cancelled' = cancelled \cup {r}
        /\ numCancelled' = numCancelled + Once(r, cancelled)
        /\ \/ disconnected' = disconnected /\ numDisconnect' = numDisconnect
           \/ /\ disconnected' = disconnected \cup {r}
              /\ numDisconnect' = numDisconnect + Once(r, disconnected)
    BY <1>3 DEF AbortRequest, ForceAbort
  <2>3. IsFiniteSet(cancelled) /\ IsFiniteSet(disconnected)
    BY FS_Subset DEF LedgerInv
  <2>4. numCancelled' = Cardinality(cancelled')
    BY <2>2, <2>3, LedgerGrows DEF LedgerInv
  <2>5. numDisconnect' = Cardinality(disconnected')
    BY <2>2, <2>3, LedgerGrows DEF LedgerInv
  <2> QED  BY <1>1, <2>1, <2>2, <2>4, <2>5 DEF LedgerInv
<1> QED  BY <1>2, <1>3

\* A new request is in no ledger.
LEMMA AdmitLedger ==
  ASSUME SchedInv, LedgerInv, NEW r \in Reqs, status[r] = "none", Admit(r)
  PROVE  LedgerInv'
<1>1. r \notin cancelled /\ r \notin disconnected
  BY DEF LedgerInv, Submitted
<1>2. /\ requests' = requests \cup {r} /\ cancelled' = cancelled
      /\ disconnected' = disconnected /\ pending' = pending
      /\ numCancelled' = numCancelled /\ numDisconnect' = numDisconnect
  BY <1>1 DEF Admit
<1>3. Submitted' = Submitted \cup {r}
  BY DEF Admit, Submitted, SchedInv, SchedTypeOK
<1> QED  BY <1>2, <1>3, FS_AddElement DEF LedgerInv

LEMMA LedgerStep ==
  ASSUME SchedInv, LedgerInv, [SchedNext]_schedVars
  PROVE  LedgerInv'
<1>1. CASE StepStart \/ UNCHANGED schedVars
  <2>1. UNCHANGED <<requests, status, pending, cancelled, disconnected, numCancelled, numDisconnect>>
    BY <1>1 DEF StepStart, schedVars, queueVars, abortVars
  <2> QED  BY <2>1 DEF LedgerInv, Submitted
<1>2. CASE Work
  <2>1. Submitted' = Submitted
    BY <1>2, WorkSteady DEF Steady, LedgerInv
  <2> QED  BY <1>2, <2>1, WorkLedgers DEF LedgerInv
<1>3. ASSUME NEW r \in Reqs, AddCall(r)  PROVE LedgerInv'
  BY <1>3, AdmitLedger DEF AddCall
<1>4. ASSUME NEW r \in Reqs, AbortCall(r) \/ DisconnectCall(r)  PROVE LedgerInv'
  BY <1>4, AbortLedger DEF AbortCall, DisconnectCall, queueVars
<1>5. ASSUME NEW r \in Reqs, RemoveCall(r)  PROVE LedgerInv'
  BY <1>5 DEF RemoveCall, RemoveFinished, abortVars, LedgerInv, Submitted
<1> QED  BY <1>1, <1>2, <1>3, <1>4, <1>5 DEF SchedNext

\* Each counter is the size of its ledger.
THEOREM LedgersAgree == SchedSpec => []LedgerInv
<1>1. SchedInit => LedgerInv
  BY LedgerInit
<1>2. SchedInv /\ LedgerInv /\ [SchedNext]_schedVars => LedgerInv'
  BY LedgerStep
<1> QED  BY <1>1, <1>2, SchedulerInvariant, PTL DEF SchedSpec

LEMMA LedgerCounts == ASSUME LedgerInv  PROVE CountedOnce
<1>1. IsFiniteSet(cancelled) /\ Cardinality(cancelled) <= Cardinality(Submitted)
  BY FS_Subset DEF LedgerInv
<1>2. Cardinality(disconnected) <= Cardinality(cancelled)
  BY <1>1, FS_Subset DEF LedgerInv
<1> QED  BY <1>1, <1>2 DEF LedgerInv, CountedOnce

\* A cancellation and a disconnect are counted once per request, however often
\* and in whatever order the abort branches and the clean-up run.
THEOREM CancellationsCountedOnce == SchedSpec => []CountedOnce
<1>1. LedgerInv => CountedOnce
  BY LedgerCounts
<1> QED  BY <1>1, LedgersAgree, PTL

-----------------------------------------------------------------------------
(* Nothing comes back.                                                     *)

LEMMA GoneStep ==
  ASSUME SchedInv, LedgerInv, [SchedNext]_schedVars, NEW r \in Reqs,
         status[r] # "none", r \notin Waiting \cup running
  PROVE  r \notin (Waiting \cup running)'
<1>1. CASE Work
  BY <1>1, WorkSteady DEF Steady, LedgerInv
<1>2. ASSUME NEW q \in Reqs, AddCall(q)  PROVE r \notin (Waiting \cup running)'
  <2>1. q # r /\ Waiting' = Waiting \cup {q} /\ running' = running
    BY <1>2, ToSetAppend DEF AddCall, Admit, SchedInv, SchedTypeOK, Waiting
  <2> QED  BY <2>1
<1>3. CASE UNCHANGED <<waiting, running>>
  BY <1>3 DEF Waiting
<1> QED  BY <1>1, <1>2, <1>3
         DEF SchedNext, StepStart, AbortCall, DisconnectCall, RemoveCall, RemoveFinished,
             schedVars, queueVars

\* An aborted or finished request never enters the queue or the batch again.
THEOREM GoneStaysGone == SchedSpec => GoneForGood
<1>1. SchedInv /\ LedgerInv /\ [SchedNext]_schedVars
        => [\A r \in Reqs : status[r] # "none" /\ r \notin Waiting \cup running
                              => r \notin (Waiting \cup running)']_schedVars
  BY GoneStep
<1> QED  BY <1>1, SchedulerInvariant, LedgersAgree, PTL DEF SchedSpec, GoneForGood

LEMMA CancelledStep ==
  ASSUME SchedInv, LedgerInv, CancelledIsGone, [SchedNext]_schedVars
  PROVE  CancelledIsGone'
<1> SUFFICES ASSUME NEW r \in Reqs, r \in cancelled', r \notin pending'
             PROVE  r \notin (Waiting \cup running)'
  <2>1. cancelled' \subseteq Reqs
    BY StepInv DEF SchedInv, SchedTypeOK
  <2> QED  BY <2>1 DEF CancelledIsGone
<1>1. CASE r \in cancelled \ pending
  <2>1. status[r] # "none" /\ r \notin Waiting \cup running
    BY <1>1 DEF CancelledIsGone, LedgerInv, Submitted
  <2> QED  BY <2>1, GoneStep
<1>2. CASE r \notin cancelled \ pending
  <2>1. CASE Work
    <3>1. DoAbort(r)
      BY <1>2, <2>1, WorkLedgers DEF DoAbort
    <3> QED  BY <3>1, AbortUnqueues DEF DoAbort
  <2>2. CASE ~Work
    BY <1>2, <2>2
       DEF SchedNext, StepStart, AddCall, Admit, AbortCall, AbortRequest, DisconnectCall,
           ForceAbort, RemoveCall, abortVars, schedVars, queueVars
  <2> QED  BY <2>1, <2>2
<1> QED  BY <1>1, <1>2

\* Once its abort is no longer pending, a cancelled request is in no list.
THEOREM CancelledRequestsAreGone == SchedSpec => []CancelledIsGone
<1>1. SchedInit => CancelledIsGone
  BY DEF SchedInit, CancelledIsGone
<1>2. SchedInv /\ LedgerInv /\ CancelledIsGone /\ [SchedNext]_schedVars => CancelledIsGone'
  BY CancelledStep
<1> QED  BY <1>1, <1>2, SchedulerInvariant, LedgersAgree, PTL DEF SchedSpec

-----------------------------------------------------------------------------
(* Tokens, where no request is retried: a retry keeps the tokens of the     *)
(* first attempt and lets the generator count from one again.               *)

NoRetry == MaxFaults = 0 \/ MaxRetries = 0 \/ "corruption" \notin InsertFaults \cup NextFaults

\* A request has no token before it runs, and while it runs the generator has
\* produced for it what the scheduler has counted, and less than max_tokens.
TokenCount ==
  /\ \A r \in Reqs : status[r] \in {"none", "waiting"} => out[r] = 0
  /\ \A u \in DOMAIN ridOf : seqs[u].n = out[ridOf[u]] /\ seqs[u].n < MaxTokens

\* One decoding step: what becomes of a request and its sequence.
Decoded(eos, match) ==
  LET FinOf(u) == Ends(u, eos) \/ u \in match
      done == {ridOf[u] : u \in {v \in Responses : FinOf(v)}}
  IN  /\ seqs' = Advance(eos)
      /\ outputs' = {[req |-> ridOf[u], tok |-> seqs[u].n + 1, fin |-> FinOf(u),
                      reason |-> IF ~FinOf(u) THEN "none"
                                 ELSE IF u \in eos \cup match THEN "stop" ELSE "length",
                      err |-> FALSE] : u \in Responses}
      /\ out' = [r \in Reqs |->
                   IF \E u \in Responses : ridOf[u] = r THEN out[r] + 1 ELSE out[r]]
      /\ status' = [r \in Reqs |-> IF r \in done THEN "finished" ELSE status[r]]
      /\ ridOf' = Drop(ridOf, {u \in DOMAIN ridOf : ridOf[u] \in done})

LEMMA GenerateDecodes ==
  ASSUME Generate
  PROVE  \E eos \in SUBSET DOMAIN seqs : \E match \in SUBSET Responses :
           Decoded(eos, match) /\ \A u \in match : ~Ends(u, eos)
<1>1. PICK eos \in SUBSET DOMAIN seqs :
        \E match \in SUBSET {u \in Responses : ridOf[u] \in StopStrings /\ ~Ends(u, eos)} :
          Decoded(eos, match)
  BY DEF Generate, Decoded
<1>2. PICK match \in SUBSET {u \in Responses : ridOf[u] \in StopStrings /\ ~Ends(u, eos)} :
        Decoded(eos, match)
  BY <1>1
<1> QED  BY <1>2

\* Every running request has one sequence, which the answers are taken from.
LEMMA OneSequence ==
  ASSUME SchedInv, NEW u \in DOMAIN ridOf
  PROVE  /\ u \in DOMAIN seqs /\ seqs[u] \in SeqRecord
         /\ ridOf[u] \in running /\ ridOf[u] \in Reqs /\ status[ridOf[u]] = "running"
         /\ \A v \in DOMAIN ridOf : ridOf[v] = ridOf[u] => v = u
BY DEF SchedInv, SchedTypeOK, UidMaps, TokenOwner, OnePlace

LEMMA GenerateTokens ==
  ASSUME SchedInv, TokenCount, Generate
  PROVE  /\ TokenCount'
         /\ \A o \in outputs' : /\ status[o.req] = "running" /\ o.tok = out[o.req] + 1
                                /\ o.fin = (status'[o.req] = "finished")
<1>1. PICK eos \in SUBSET DOMAIN seqs, match \in SUBSET Responses :
        Decoded(eos, match) /\ \A u \in match : ~Ends(u, eos)
  BY GenerateDecodes
<1> DEFINE FinOf(u) == Ends(u, eos) \/ u \in match
           done == {ridOf[u] : u \in {v \in Responses : FinOf(v)}}
<1>2. /\ seqs' = Advance(eos)
      /\ out' = [r \in Reqs |->
                   IF \E u \in Responses : ridOf[u] = r THEN out[r] + 1 ELSE out[r]]
      /\ status' = [r \in Reqs |-> IF r \in done THEN "finished" ELSE status[r]]
      /\ DOMAIN ridOf' = {u \in DOMAIN ridOf : ridOf[u] \notin done}
      /\ \A u \in DOMAIN ridOf' : ridOf'[u] = ridOf[u]
  BY <1>1 DEF Decoded, Drop
<1>3. Responses \subseteq DOMAIN ridOf
  BY DEF Responses
<1>4. ASSUME NEW r \in Reqs, status'[r] \in {"none", "waiting"}  PROVE out'[r] = 0
  <2>1. status[r] \in {"none", "waiting"}
    BY <1>2, <1>4
  <2>2. ~ \E u \in Responses : ridOf[u] = r
    BY <1>3, <2>1, OneSequence
  <2> QED  BY <1>2, <2>1, <2>2 DEF TokenCount
<1>5. ASSUME NEW u \in DOMAIN ridOf'
      PROVE  seqs'[u].n = out'[ridOf'[u]] /\ seqs'[u].n < MaxTokens
  <2>1. u \in DOMAIN ridOf /\ ridOf'[u] = ridOf[u] /\ ridOf[u] \notin done
    BY <1>2
  <2>2. /\ u \in DOMAIN seqs /\ seqs[u] \in SeqRecord /\ ridOf[u] \in Reqs /\ ridOf[u] \in running
        /\ \A v \in DOMAIN ridOf : ridOf[v] = ridOf[u] => v = u
    BY <2>1, OneSequence
  <2>3. seqs[u].n = out[ridOf[u]] /\ seqs[u].n < MaxTokens
    BY <2>1 DEF TokenCount
  <2>4. CASE seqs[u].left > 0
    <3>1. u \notin Responses /\ ~Ends(u, eos)
      BY <2>2, <2>4 DEF Responses, Ends, SeqRecord
    <3>2. seqs'[u].n = seqs[u].n
      BY <1>2, <2>2, <2>4, <3>1 DEF Advance, SeqRecord
    <3>3. out'[ridOf[u]] = out[ridOf[u]]
      BY <1>2, <1>3, <2>2, <3>1
    <3> QED  BY <2>1, <2>3, <3>2, <3>3
  <2>5. CASE ~(seqs[u].left > 0)
    <3>1. u \in Responses /\ seqs[u].left = 0
      BY <2>1, <2>2, <2>5 DEF Responses, SeqRecord
    <3>2. ~Ends(u, eos)
      BY <2>1, <3>1
    <3>3. seqs'[u].n = seqs[u].n + 1
      BY <1>2, <2>2, <2>5, <3>2 DEF Advance, SeqRecord
    <3>4. out'[ridOf[u]] = out[ridOf[u]] + 1
      BY <1>2, <2>2, <3>1
    <3>5. ~(seqs[u].n + 1 >= MaxTokens) /\ seqs[u].n \in Nat
      BY <2>2, <3>1, <3>2 DEF Ends, SeqRecord
    <3> QED  BY <2>1, <2>3, <3>3, <3>4, <3>5, Bounds
  <2> QED  BY <2>4, <2>5
<1>6. ASSUME NEW o \in outputs'
      PROVE  /\ status[o.req] = "running" /\ o.tok = out[o.req] + 1
             /\ o.fin = (status'[o.req] = "finished")
  <2> HIDE DEF FinOf
  <2>1. PICK u \in Responses : o.req = ridOf[u] /\ o.tok = seqs[u].n + 1 /\ o.fin = FinOf(u)
    BY <1>1 DEF Decoded, FinOf
  <2>2. /\ ridOf[u] \in Reqs /\ status[ridOf[u]] = "running"
        /\ \A v \in DOMAIN ridOf : ridOf[v] = ridOf[u] => v = u
    BY <1>3, OneSequence
  <2>3. status'[o.req] = "finished" <=> FinOf(u)
    BY <1>2, <1>3, <2>1, <2>2
  <2>4. FinOf(u) \in BOOLEAN
    BY DEF FinOf, Ends
  <2> QED  BY <1>3, <2>1, <2>2, <2>3, <2>4 DEF TokenCount
<1> QED  BY <1>4, <1>5, <1>6 DEF TokenCount

\* A step's new outputs carry the next token or none, and end what is finished.
OutputsInOrder ==
  \A o \in outputs' \ outputs :
    /\ status[o.req] = "running"
    /\ o.tok # 0 => o.tok = out[o.req] + 1
    /\ o.fin = (status'[o.req] = "finished")

LEMMA DoAbortTokens ==
  ASSUME SchedInv, TokenCount, NEW r \in Reqs, DoAbort(r)
  PROVE  TokenCount'
<1>1. /\ DOMAIN ridOf' \subseteq DOMAIN ridOf
      /\ \A u \in DOMAIN ridOf' : ridOf'[u] = ridOf[u] /\ (u \in DOMAIN seqs => seqs'[u] = seqs[u])
      /\ out' = out /\ \A q \in Reqs : status'[q] = status[q] \/ status'[q] = "finished"
  BY DEF DoAbort, Drop, SchedInv, SchedTypeOK
<1> QED  BY <1>1, OneSequence DEF TokenCount

LEMMA ScheduleHeadTokens ==
  ASSUME SchedInv, TokenCount, ScheduleHead
  PROVE  TokenCount'
<1> USE DEF SchedInv
<1> DEFINE r   == Head(waiting)
           old == IF Reopened(r) THEN EmptyMap ELSE seqs
           uid == IF Reopened(r) THEN 0 ELSE nextUid
<1>1. r \in Reqs /\ status[r] = "waiting" /\ r \notin running
  BY ToSetTail DEF ScheduleHead, CanSchedule, SchedTypeOK, OnePlace, Waiting
<1>2. /\ seqs' = Put(old, uid, [req |-> r, n |-> 0, left |-> Prefill[r]])
      /\ ridOf' = Put(ridOf, uid, r) /\ status' = [status EXCEPT ![r] = "running"]
      /\ ~Incompatible(r) /\ out' = out
  BY DEF ScheduleHead
<1>3. \A u \in DOMAIN ridOf : u \in DOMAIN old /\ old[u] = seqs[u] /\ u # uid
  <2>1. Reopened(r) => DOMAIN ridOf = {}
    BY <1>1, <1>2, ReopenedIdle
  <2>2. CASE ~Reopened(r)
    <3>1. \A u \in DOMAIN ridOf : u \in DOMAIN seqs /\ u \in Nat /\ u < nextUid /\ nextUid \in Nat
      BY DEF TokenOwner, UidsFresh, SchedTypeOK
    <3> QED  BY <2>2, <3>1
  <2> QED  BY <2>1, <2>2
<1> HIDE DEF r, old, uid
<1>4. /\ DOMAIN ridOf' = DOMAIN ridOf \cup {uid}
      /\ \A u \in DOMAIN ridOf : ridOf'[u] = ridOf[u] /\ seqs'[u] = seqs[u]
      /\ ridOf'[uid] = r /\ seqs'[uid].n = 0
  BY <1>2, <1>3 DEF Put
<1>5. ASSUME NEW u \in DOMAIN ridOf'
      PROVE  seqs'[u].n = out'[ridOf'[u]] /\ seqs'[u].n < MaxTokens
  BY <1>1, <1>2, <1>4, Bounds DEF TokenCount
<1>6. ASSUME NEW q \in Reqs, status'[q] \in {"none", "waiting"}  PROVE out'[q] = 0
  BY <1>1, <1>2, <1>6 DEF TokenCount, SchedTypeOK
<1> QED  BY <1>5, <1>6 DEF TokenCount

LEMMA FaultTokens ==
  ASSUME SchedInv, TokenCount, NoRetry, NEW kind \in InsertFaults \cup NextFaults, NEW queue, Fault,
         \/ Handle(kind, queue)
         \/ Propagate(queue) /\ UNCHANGED ridOf /\ (UNCHANGED seqs \/ DOMAIN ridOf = {})
  PROVE  TokenCount' /\ OutputsInOrder
<1>1. CASE AbortRunning(queue)
  <2>1. DOMAIN ridOf' = {} /\ out' = out
    BY <1>1 DEF AbortRunning, CloseGenerator, EmptyMap, Fault
  <2>2. \A r \in Reqs : status'[r] = IF r \in running THEN "finished" ELSE status[r]
    BY <1>1 DEF AbortRunning
  <2>3. TokenCount'
    BY <2>1, <2>2 DEF TokenCount
  <2>4. ASSUME NEW o \in outputs'
        PROVE  /\ status[o.req] = "running" /\ o.tok = 0
               /\ o.fin = (status'[o.req] = "finished")
    <3>1. PICK r \in running : o = AbortedOutput(r)
      BY <1>1 DEF AbortRunning
    <3>2. r \in Reqs /\ status[r] = "running" /\ status'[r] = "finished"
      BY <2>2 DEF SchedInv, SchedTypeOK, OnePlace
    <3> QED  BY <3>1, <3>2 DEF AbortedOutput
  <2> QED  BY <2>3, <2>4 DEF OutputsInOrder
<1>2. CASE Propagate(queue) /\ UNCHANGED ridOf /\ (UNCHANGED seqs \/ DOMAIN ridOf = {})
  BY <1>2 DEF Propagate, Fault, TokenCount, OutputsInOrder
<1>3. ~(kind = "corruption" /\ attempt < MaxRetries)
  <2>1. MaxFaults # 0
    BY Bounds DEF Fault, SchedInv, SchedTypeOK
  <2>2. MaxRetries # 0 \/ ~(attempt < MaxRetries)
    BY Bounds DEF SchedInv, SchedTypeOK
  <2> QED  BY <2>1, <2>2 DEF NoRetry
<1> QED  BY <1>1, <1>2, <1>3 DEF Handle

LEMMA WorkTokens ==
  ASSUME SchedInv, TokenCount, NoRetry, Work
  PROVE  TokenCount' /\ OutputsInOrder
<1>1. ASSUME NEW r \in Reqs, DoAbort(r)  PROVE TokenCount' /\ OutputsInOrder
  BY <1>1, DoAbortTokens DEF DoAbort, stepVars, OutputsInOrder
<1>2. CASE ScheduleHead
  BY <1>2, ScheduleHeadTokens DEF ScheduleHead, stepVars, OutputsInOrder
<1>3. CASE AbortsDone \/ ScheduleEnd \/ NothingToDo
  BY <1>3 DEF AbortsDone, ScheduleEnd, NothingToDo, queueVars, genVars, TokenCount, OutputsInOrder
<1>4. CASE InsertFails
  <2>1. Head(waiting) \in Reqs /\ Fault
    BY <1>4, QueueLeft DEF InsertFails
  <2>2. Reopened(Head(waiting)) => DOMAIN ridOf = {}
    BY <1>4, <2>1, ReopenedIdle DEF InsertFails
  <2>3. PICK kind \in InsertFaults :
          \/ Handle(kind, Tail(waiting))
          \/ Propagate(Tail(waiting)) /\ UNCHANGED ridOf /\ (UNCHANGED seqs \/ DOMAIN ridOf = {})
    BY <1>4, <2>2 DEF InsertFails
  <2> QED  BY <2>1, <2>3, FaultTokens
<1>5. CASE NextFails
  <2>1. PICK kind \in NextFaults :
          Handle(kind, waiting) \/ (Propagate(waiting) /\ UNCHANGED ridOf /\ UNCHANGED seqs)
    BY <1>5 DEF NextFails, genVars
  <2> QED  BY <1>5, <2>1, FaultTokens DEF NextFails
<1>6. CASE Generate
  BY <1>6, GenerateTokens DEF OutputsInOrder
<1> QED  BY <1>1, <1>2, <1>3, <1>4, <1>5, <1>6 DEF Work

LEMMA TokensStep ==
  ASSUME SchedInv, TokenCount, NoRetry, [SchedNext]_schedVars
  PROVE  TokenCount' /\ OutputsInOrder
<1>1. CASE UNCHANGED <<status, out, ridOf, seqs>> /\ outputs' \subseteq outputs
  BY <1>1 DEF TokenCount, OutputsInOrder
<1>2. ASSUME NEW r \in Reqs, AddCall(r)  PROVE TokenCount' /\ OutputsInOrder
  <2>1. \A q \in Reqs : status'[q] = IF q = r THEN "waiting" ELSE status[q]
    BY <1>2 DEF AddCall, Admit, SchedInv, SchedTypeOK
  <2> QED  BY <1>2, <2>1 DEF AddCall, Admit, genVars, stepVars, TokenCount, OutputsInOrder
<1> QED  BY <1>1, <1>2, WorkTokens
         DEF SchedNext, StepStart, AbortCall, DisconnectCall, RemoveCall, RemoveFinished,
             schedVars, queueVars, genVars, abortVars, stepVars

\* As long as no request is retried, a request's tokens are numbered without a
\* gap and nothing follows its final output, whatever is aborted or fails.
THEOREM TokensNumbered ==
  ASSUME NoRetry
  PROVE  SchedSpec => TokensInOrder
<1>1. SchedInit => TokenCount
  BY DEF SchedInit, TokenCount, EmptyMap
<1>2. SchedInv /\ TokenCount /\ [SchedNext]_schedVars => TokenCount' /\ OutputsInOrder
  BY TokensStep
<1>3. OutputsInOrder
      => [\A o \in outputs' \ outputs :
            /\ status[o.req] = "running"
            /\ o.tok # 0 => o.tok = out[o.req] + 1
            /\ o.fin = (status'[o.req] = "finished")]_schedVars
  BY DEF OutputsInOrder
<1> QED  BY <1>1, <1>2, <1>3, SchedulerInvariant, PTL DEF SchedSpec, TokensInOrder

-----------------------------------------------------------------------------
(* The queue keeps its order.                                              *)

Fair(r, q) ==
  q \in Waiting \ {r} /\ Ahead(r, q) /\ {r, q} \subseteq (Waiting \cup running)' => Ahead(r, q)'

LEMMA AheadInOrder == \A r, q : Ahead(r, q) <=> r \in running \/ InOrder(waiting, r, q)
BY DEF Ahead, InOrder

LEMMA AheadLater == \A r, q : Ahead(r, q)' <=> r \in running' \/ InOrder(waiting', r, q)
BY DEF Ahead, InOrder

\* What is left of the queue, whole or without its head, is in order.
LEMMA LeftInOrder ==
  ASSUME SchedInv, NEW queue,
         queue = waiting \/ (queue = Tail(waiting) /\ waiting # <<>>)
  PROVE  /\ queue \in Seq(Reqs) /\ ToSet(queue) \subseteq Waiting
         /\ \A r, q : InOrder(waiting, r, q) /\ r \in ToSet(queue) => InOrder(queue, r, q)
<1> USE DEF SchedInv
<1>1. waiting \in Seq(Reqs) /\ IsInjective(waiting)
  BY DEF SchedTypeOK, OnePlace
<1>2. CASE queue = waiting
  BY <1>1, <1>2 DEF Waiting
<1>3. CASE queue = Tail(waiting) /\ waiting # <<>>
  BY <1>1, <1>3, ToSetTail, OrderInTail DEF Waiting
<1> QED  BY <1>2, <1>3

LEMMA HandleFair ==
  ASSUME SchedInv, NEW kind, NEW queue,
         queue = waiting \/ (queue = Tail(waiting) /\ waiting # <<>>),
         Handle(kind, queue) \/ Propagate(queue), NEW r, NEW q
  PROVE  Fair(r, q)
<1> SUFFICES ASSUME q \in Waiting, r # q, Ahead(r, q), {r, q} \subseteq (Waiting \cup running)'
             PROVE  r \in running' \/ InOrder(waiting', r, q)
  BY AheadLater DEF Fair
<1>1. /\ queue \in Seq(Reqs) /\ ToSet(queue) \subseteq Waiting /\ q \notin running
      /\ r \in running => r \notin Waiting
      /\ r \notin running /\ r \in ToSet(queue) => InOrder(queue, r, q)
  BY LeftInOrder, AheadInOrder DEF SchedInv, OnePlace
<1>2. CASE AbortRunning(queue)
  BY <1>1, <1>2 DEF AbortRunning, Waiting
<1>3. CASE RetryRunning(queue)
  <2>1. PICK s \in InSomeOrder(running) : waiting' = s \o queue
    BY <1>3 DEF RetryRunning
  <2>2. s \in Seq(Reqs) /\ ToSet(s) = running
    <3>1. Cardinality(running) \in Nat
      BY FS_CardinalityType DEF SchedInv
    <3>2. s \in [1..Cardinality(running) -> Reqs]
      BY <2>1 DEF InSomeOrder, SchedInv, SchedTypeOK
    <3> QED  BY <2>1, <3>1, <3>2 DEF InSomeOrder
  <2>3. Waiting' = running \cup ToSet(queue) /\ running' = {}
    BY <1>1, <1>3, <2>1, <2>2, ToSetConcat DEF RetryRunning, Waiting
  <2>4. q \in ToSet(queue)
    BY <1>1, <2>3
  <2> QED  BY <1>1, <2>1, <2>2, <2>3, <2>4, OrderInConcat
<1>4. CASE Propagate(queue)
  BY <1>1, <1>4 DEF Propagate, Waiting
<1> QED  BY <1>2, <1>3, <1>4 DEF Handle

LEMMA FairStep ==
  ASSUME SchedInv, [SchedNext]_schedVars, NEW r \in Reqs, NEW q \in Reqs
  PROVE  Fair(r, q)
<1> USE DEF SchedInv
<1>1. waiting \in Seq(Reqs) /\ IsInjective(waiting) /\ Waiting \cap running = {}
  BY DEF SchedTypeOK, OnePlace
<1>2. ASSUME NEW c \in Reqs, DoAbort(c)  PROVE Fair(r, q)
  <2>1. Waiting' = Waiting \ {c} /\ running' = running \ {c}
    BY <1>2, AbortUnqueues DEF DoAbort
  <2>2. \A x, y : x # c /\ y # c /\ InOrder(waiting, x, y) => InOrder(waiting', x, y)
    BY <1>1, <1>2, ToSetRemoveFirst DEF DoAbort, Unqueued
  <2> QED  BY <1>1, <2>1, <2>2, AheadInOrder, AheadLater DEF Fair
<1>3. CASE ScheduleHead
  <2>1. waiting # <<>> /\ waiting' = Tail(waiting) /\ running' = running \cup {Head(waiting)}
    BY <1>3 DEF ScheduleHead, CanSchedule
  <2>2. InOrder(waiting, r, q) => r = Head(waiting) \/ InOrder(Tail(waiting), r, q)
    BY <1>1, <2>1, OrderInTail
  <2> QED  BY <2>1, <2>2, AheadInOrder, AheadLater DEF Fair
<1>4. CASE InsertFails
  <2>1. waiting # <<>>
    BY <1>4 DEF InsertFails, CanSchedule
  <2>2. PICK kind \in InsertFaults :
          Handle(kind, Tail(waiting)) \/ Propagate(Tail(waiting))
    BY <1>4 DEF InsertFails
  <2> QED  BY <2>1, <2>2, HandleFair
<1>5. CASE NextFails
  <2>1. PICK kind \in NextFaults : Handle(kind, waiting) \/ Propagate(waiting)
    BY <1>5 DEF NextFails
  <2> QED  BY <2>1, HandleFair
<1>6. CASE Generate
  <2>1. running' \subseteq running /\ waiting' = waiting
    BY <1>6 DEF Generate
  <2> QED  BY <1>1, <2>1, AheadInOrder, AheadLater DEF Fair, Waiting
<1>7. ASSUME NEW c \in Reqs, AddCall(c)  PROVE Fair(r, q)
  <2>1. waiting' = Append(waiting, c) /\ running' = running
    BY <1>7 DEF AddCall, Admit
  <2> QED  BY <1>1, <2>1, OrderAppended, AheadInOrder, AheadLater DEF Fair
<1>8. CASE UNCHANGED <<waiting, running>>
  BY <1>8, AheadInOrder, AheadLater DEF Fair
<1> QED  BY <1>2, <1>3, <1>4, <1>5, <1>6, <1>7, <1>8
         DEF SchedNext, Work, StepStart, AbortsDone, ScheduleEnd, NothingToDo, AbortCall,
             DisconnectCall, RemoveCall, RemoveFinished, schedVars, queueVars

\* First come, first served: whatever is put back, sent back by a recovery or
\* aborted in between, no request is let in front of an earlier one.
THEOREM QueueIsFair == SchedSpec => FirstComeFirstServed
<1>1. SchedInv /\ [SchedNext]_schedVars
        => [\A r, q \in Reqs :
              q \in Waiting \ {r} /\ Ahead(r, q) /\ {r, q} \subseteq (Waiting \cup running)'
                => Ahead(r, q)']_schedVars
  BY FairStep DEF Fair
<1> QED  BY <1>1, SchedulerInvariant, PTL DEF SchedSpec, FirstComeFirstServed
=============================================================================
