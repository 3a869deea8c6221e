------------------------ MODULE DiffusionLaneProofs ------------------------
(***************************************************************************)
(* Proofs about DiffusionLane, for every number of calls, every cap and    *)
(* every interleaving of the worker thread with the coroutines and stop(). *)
(***************************************************************************)
EXTENDS DiffusionLane, TLAPS, FiniteSetTheorems

LEMMA Empty ==
  <<>> \in Seq(Reqs \cup {NoReq}) /\ <<>> \in Seq({"chunk", "error", "done"})
  OBVIOUS

LEMMA Appended ==
  ASSUME NEW S, NEW s \in Seq(S), NEW e \in S
  PROVE  /\ Append(s, e) \in Seq(S)
         /\ DOMAIN s = 1..Len(s) /\ Len(s) \in Nat
         /\ DOMAIN Append(s, e) = 1..(Len(s) + 1)
         /\ Append(s, e)[Len(s) + 1] = e
         /\ \A i \in DOMAIN s : Append(s, e)[i] = s[i]
  OBVIOUS

LEMMA Shortened ==
  ASSUME NEW S, NEW s \in Seq(S), s # <<>>
  PROVE  /\ Tail(s) \in Seq(S) /\ Head(s) \in S /\ Head(s) = s[1]
         /\ DOMAIN s = 1..Len(s) /\ Len(s) \in Nat \ {0}
         /\ DOMAIN Tail(s) = 1..(Len(s) - 1)
         /\ \A i \in DOMAIN Tail(s) : i + 1 \in DOMAIN s /\ Tail(s)[i] = s[i + 1]
  OBVIOUS

\* Where an item goes: to the end of the queue of a call that still reads.
LEMMA Pushed ==
  ASSUME TypeOK, NEW r \in Reqs, NEW item \in {"chunk", "error", "done"}
  PROVE  /\ Push(queue, r, item) \in [Reqs -> Seq({"chunk", "error", "done"})]
         /\ \A c \in Reqs : c # r => Push(queue, r, item)[c] = queue[c]
         /\ phase[r] # "streaming" => Push(queue, r, item) = queue
         /\ \A k \in DOMAIN Push(queue, r, item)[r] :
              \/ k \in DOMAIN queue[r] /\ Push(queue, r, item)[r][k] = queue[r][k]
              \/ Push(queue, r, item)[r][k] = item
<1> DEFINE I == {"chunk", "error", "done"}
<1>1. queue \in [Reqs -> Seq(I)] /\ queue[r] \in Seq(I)
  BY DEF TypeOK
<1>2. CASE phase[r] = "streaming"
  <2>1. Push(queue, r, item) = [queue EXCEPT ![r] = Append(queue[r], item)]
    BY <1>2 DEF Push
  <2> QED  BY <2>1, <1>1, <1>2, Appended
<1>3. CASE phase[r] # "streaming"
  BY <1>1, <1>3 DEF Push
<1> QED  BY <1>2, <1>3

\* The bounded counters start in their ranges and stay there.
LEMMA BoundsStart == 0 \in 0..MaxBlocks /\ 0 \in 0..MaxStops
  BY DiffusionAssumption

LEMMA BoundsKept ==
  /\ \A n \in 0..MaxBlocks : n < MaxBlocks => n + 1 \in 0..MaxBlocks
  /\ \A n \in 0..MaxStops : n < MaxStops => n + 1 \in 0..MaxStops
  BY DiffusionAssumption

-----------------------------------------------------------------------------
(* The initial state.                                                      *)

LEMMA LaneStarts == Init => LaneInv
<1> SUFFICES ASSUME Init PROVE LaneInv
  OBVIOUS
<1>1. TypeOK
  <2>1. queue \in [Reqs -> Seq({"chunk", "error", "done"})] /\ jobs \in Seq(Reqs \cup {NoReq})
    BY DEF Init
  <2>2. phase \in [Reqs -> Phases]
    BY DEF Init, Phases
  <2> QED  BY <2>1, <2>2, BoundsStart DEF Init, TypeOK
<1>2. JobInv
  BY DiffusionAssumption DEF Init, JobInv, SubmittedOnce, Working, Pending
<1>3. WaitInv
  BY DEF Init, WaitInv, Past, Pending, Marked
<1>4. LockedOnce /\ HeadOfLine
  BY DiffusionAssumption DEF Init, LockedOnce, Locked, HeadOfLine, Pending
<1>5. AdmissionInv /\ AdmissionExact
  BY DiffusionAssumption, FS_EmptySet DEF Init, AdmissionInv, AdmissionExact
<1> QED  BY <1>1, <1>2, <1>3, <1>4, <1>5 DEF LaneInv

-----------------------------------------------------------------------------
(* The type invariant.                                                     *)

LEMMA TypeStep ==
  ASSUME LaneInv, [Next]_vars
  PROVE  TypeOK'
<1> USE DEF LaneInv, TypeOK, Phases, lifeVars, workerVars, callVars, eventVars
<1>1. ASSUME Load \/ LoopTest \/ TakeUp \/ PutDone \/ SetDone \/ Heal PROVE TypeOK'
  <2>1. CASE Load
    BY <2>1 DEF Load
  <2>2. CASE LoopTest
    BY <2>2 DEF LoopTest
  <2>3. CASE TakeUp
    BY <2>3 DEF TakeUp
  <2>4. CASE PutDone
    BY <2>4, Pushed, ZenonT(30) DEF PutDone, JobInv, Working
  <2>5. CASE SetDone
    BY <2>5 DEF SetDone, JobInv, Working
  <2>6. CASE Heal
    BY <2>6, BoundsStart DEF Heal
  <2> QED  BY <1>1, <2>1, <2>2, <2>3, <2>4, <2>5, <2>6
<1>2. CASE GetJob
  <2>1. Tail(jobs) \in Seq(Reqs \cup {NoReq}) /\ Head(jobs) \in Reqs \cup {NoReq}
    BY <1>2, Shortened DEF GetJob
  <2> QED  BY <1>2, <2>1 DEF GetJob
<1>3. CASE Run
  <2>1. job \in Reqs
    BY <1>3 DEF Run, JobInv, Working
  <2>2. queue' \in [Reqs -> Seq({"chunk", "error", "done"})]
    BY <1>3, <2>1, Pushed DEF Run
  <2>3. blocks' \in 0..MaxBlocks
    BY <1>3, BoundsKept DEF Run
  <2>4. worker' \in {"running", "leaving"}
    BY <1>3 DEF Run
  <2> QED  BY <1>3, <2>2, <2>3, <2>4 DEF Run
<1>4. CASE Start \/ Started \/ StopJoined \/ StopGivesUp
  <2>1. CASE Start
    <3>1. UNCHANGED <<stops, job, blocks, active, callVars, eventVars>>
      BY <2>1 DEF Start
    <3>2. life' \in {"down", "starting", "up", "stopping"}
      BY <2>1 DEF Start
    <3>3. worker' \in {"none", "loading", "loop", "get", "got", "running", "leaving",
                       "putDone", "heal", "dead"}
      BY <2>1 DEF Start
    <3>4. ready' \in BOOLEAN /\ loadError' \in BOOLEAN
      BY <2>1 DEF Start
    <3>5. loaded' \in BOOLEAN /\ stopFlag' \in BOOLEAN
      BY <2>1 DEF Start
    <3> QED  BY <3>1, <3>2, <3>3, <3>4, <3>5
  <2>2. CASE Started
    BY <2>2 DEF Started
  <2>3. CASE StopJoined
    BY <2>3, Empty DEF StopJoined
  <2>4. CASE StopGivesUp
    BY <2>4 DEF StopGivesUp
  <2> QED  BY <1>4, <2>1, <2>2, <2>3, <2>4
<1>5. CASE Stop
  BY <1>5, Appended, BoundsKept DEF Stop
<1>6. ASSUME NEW r \in Reqs, Admit(r) \/ Enter(r) \/ Drained(r) \/ WaitExpires(r) \/ Expired(r)
      PROVE TypeOK'
  <2>1. phase' \in [Reqs -> Phases]
    BY <1>6 DEF Admit, Enter, Drained, WaitExpires, Expired, Free, Become
  <2>2. lock' \in Reqs \cup {NoReq} /\ stuck' \in BOOLEAN
    BY <1>6 DEF Admit, Enter, Drained, WaitExpires, Expired, Free
  <2>3. reservations' \in Nat /\ holding' \subseteq Reqs
    BY <1>6 DEF Admit, Enter, Drained, WaitExpires, Expired
  <2>4. UNCHANGED <<lifeVars, workerVars, gone, cut, jobs, cancel, done, queue>>
    BY <1>6 DEF Admit, Enter, Drained, WaitExpires, Expired
  <2> QED  BY <2>1, <2>2, <2>3, <2>4
<1>7. ASSUME NEW r \in Reqs, Acquire(r) PROVE TypeOK'
  <2>1. phase' \in [Reqs -> Phases]
    BY <1>7 DEF Acquire, Become
  <2>2. lock' \in Reqs \cup {NoReq}
    BY <1>7 DEF Acquire
  <2>3. Append(jobs, r) \in Seq(Reqs \cup {NoReq})
    BY Appended
  <2>4. jobs' \in Seq(Reqs \cup {NoReq})
    BY <1>7, <2>3 DEF Acquire
  <2> QED  BY <1>7, <2>1, <2>2, <2>4 DEF Acquire
<1>8. ASSUME NEW r \in Reqs, Read(r) PROVE TypeOK'
  <2>1. queue[r] \in Seq({"chunk", "error", "done"}) /\ Tail(queue[r]) \in Seq({"chunk", "error", "done"})
    BY <1>8, Shortened DEF Read
  <2>2. queue' \in [Reqs -> Seq({"chunk", "error", "done"})]
    BY <1>8, <2>1, Empty DEF Read, Abandon
  <2>3. phase' \in [Reqs -> Phases] /\ cancel' \subseteq Reqs
    BY <1>8 DEF Read, Abandon, Become
  <2> QED  BY <1>8, <2>2, <2>3 DEF Read
<1>9. ASSUME NEW r \in Reqs, Leave(r) PROVE TypeOK'
  <2>1. phase' \in [Reqs -> Phases] /\ cancel' \subseteq Reqs /\ gone' \subseteq Reqs
    BY <1>9 DEF Leave, Abandon, Free, Become
  <2>2. queue' \in [Reqs -> Seq({"chunk", "error", "done"})]
    BY <1>9, Empty DEF Leave, Abandon
  <2>3. lock' \in Reqs \cup {NoReq} /\ cut' \subseteq Reqs
    BY <1>9 DEF Leave, Free
  <2> QED  BY <1>9, <2>1, <2>2, <2>3 DEF Leave
<1>10. ASSUME NEW r \in Reqs, Release(r) PROVE TypeOK'
  BY <1>10 DEF Release
<1>11. CASE UNCHANGED vars
  BY <1>11 DEF vars
<1> QED
  BY <1>1, <1>2, <1>3, <1>4, <1>5, <1>6, <1>7, <1>8, <1>9, <1>10, <1>11
  DEF Next, Worker, Server, Resumes

-----------------------------------------------------------------------------
(* The queue of jobs.                                                      *)

LEMMA PendingAppended ==
  ASSUME TypeOK, NEW e \in Reqs \cup {NoReq}, jobs' = Append(jobs, e)
  PROVE  /\ \A r \in Reqs : Pending(r)' <=> Pending(r) \/ r = e
         /\ SubmittedOnce /\ ~Pending(e) => SubmittedOnce'
         /\ SubmittedOnce /\ e = NoReq => SubmittedOnce'
<1>1. /\ DOMAIN jobs = 1..Len(jobs) /\ Len(jobs) \in Nat
      /\ DOMAIN jobs' = 1..(Len(jobs) + 1) /\ jobs'[Len(jobs) + 1] = e
      /\ \A i \in DOMAIN jobs : jobs'[i] = jobs[i]
  BY Appended DEF TypeOK
<1>2. \A r \in Reqs : Pending(r)' <=> Pending(r) \/ r = e
  BY <1>1 DEF Pending
<1>3. ASSUME SubmittedOnce, ~Pending(e) \/ e = NoReq  PROVE SubmittedOnce'
  BY <1>1, <1>3, DiffusionAssumption DEF SubmittedOnce, Pending
<1> QED  BY <1>2, <1>3

LEMMA PendingTaken ==
  ASSUME TypeOK, jobs # <<>>, jobs' = Tail(jobs)
  PROVE  /\ \A r \in Reqs : Pending(r) <=> Pending(r)' \/ r = Head(jobs)
         /\ SubmittedOnce => SubmittedOnce'
         /\ SubmittedOnce => \A r \in Reqs : r = Head(jobs) => ~Pending(r)'
<1>1. /\ DOMAIN jobs = 1..Len(jobs) /\ Len(jobs) \in Nat \ {0}
      /\ DOMAIN jobs' = 1..(Len(jobs) - 1) /\ Head(jobs) = jobs[1]
      /\ \A i \in DOMAIN jobs' : i + 1 \in DOMAIN jobs /\ jobs'[i] = jobs[i + 1]
  BY Shortened DEF TypeOK
<1>2. \A i \in DOMAIN jobs : i # 1 => i - 1 \in DOMAIN jobs' /\ jobs[i] = jobs'[i - 1]
  <2> SUFFICES ASSUME NEW i \in DOMAIN jobs, i # 1
               PROVE  i - 1 \in DOMAIN jobs' /\ jobs[i] = jobs'[i - 1]
    OBVIOUS
  <2>1. i - 1 \in DOMAIN jobs' /\ (i - 1) + 1 = i
    BY <1>1
  <2> QED  BY <2>1, <1>1
<1>3. \A r \in Reqs : Pending(r) <=> Pending(r)' \/ r = Head(jobs)
  <2> TAKE r \in Reqs
  <2>1. ASSUME Pending(r)  PROVE Pending(r)' \/ r = Head(jobs)
    BY <2>1, <1>1, <1>2 DEF Pending
  <2>2. ASSUME Pending(r)' \/ r = Head(jobs)  PROVE Pending(r)
    <3>1. 1 \in DOMAIN jobs
      BY <1>1
    <3> QED  BY <2>2, <3>1, <1>1 DEF Pending
  <2> QED  BY <2>1, <2>2
<1>4. ASSUME SubmittedOnce  PROVE SubmittedOnce'
  <2> SUFFICES ASSUME NEW i \in DOMAIN jobs', NEW j \in DOMAIN jobs',
                      jobs'[i] = jobs'[j], jobs'[i] \in Reqs
               PROVE  i = j
    BY DEF SubmittedOnce
  <2>1. i + 1 = j + 1
    BY <1>1, <1>4 DEF SubmittedOnce
  <2> QED  BY <2>1, <1>1
<1>5. ASSUME SubmittedOnce, NEW r \in Reqs, r = Head(jobs), Pending(r)'  PROVE FALSE
  <2>1. PICK i \in DOMAIN jobs' : jobs'[i] = r
    BY <1>5 DEF Pending
  <2>2. /\ 1 \in DOMAIN jobs /\ i + 1 \in DOMAIN jobs /\ i + 1 # 1
        /\ jobs[i + 1] = jobs[1] /\ jobs[1] \in Reqs
    BY <2>1, <1>1, <1>5
  <2> QED  BY <2>2, <1>5 DEF SubmittedOnce
<1> QED  BY <1>3, <1>4, <1>5

\* Where no job comes or goes, the same jobs are waiting.
LEMMA PendingKept ==
  ASSUME UNCHANGED jobs
  PROVE  /\ \A r \in Reqs : Pending(r)' <=> Pending(r)
         /\ SubmittedOnce => SubmittedOnce'
  BY DEF Pending, SubmittedOnce

\* Which steps move a job: everything else leaves jobs and job alone.
LEMMA JobStep ==
  ASSUME LaneInv, [Next]_vars
  PROVE  JobInv'
<1> USE DEF lifeVars, workerVars, callVars, eventVars
<1>0. TypeOK /\ JobInv /\ WaitInv
  BY DEF LaneInv
<1>1. ASSUME Load \/ LoopTest \/ Start \/ Started \/ StopGivesUp \/ UNCHANGED vars  PROVE JobInv'
  <2>1. /\ UNCHANGED <<job, jobs, done, queue, phase>>
        /\ Working' <=> Working
    BY <1>1, <1>0 DEF Load, LoopTest, Start, Started, StopGivesUp, vars, Working
  <2> QED  BY <2>1, <1>0, PendingKept DEF JobInv, Pending
<1>2. ASSUME TakeUp \/ Run \/ PutDone \/ SetDone \/ Heal  PROVE JobInv'
  <2>1. /\ UNCHANGED <<jobs, phase>> /\ Working
        /\ Working' => UNCHANGED job
        /\ ~Working' => job' = NoReq
    BY <1>2 DEF TakeUp, Run, PutDone, SetDone, Heal, Working
  <2>2. \A r \in Reqs : r # job => queue'[r] = queue[r] /\ (r \in done' => r \in done)
    BY <1>2, <1>0, <2>1, Pushed DEF TakeUp, Run, PutDone, SetDone, Heal, JobInv
  <2>3. \A r \in Reqs : job' = r => job = r
    BY <2>1, DiffusionAssumption
  <2> QED  BY <1>0, <2>1, <2>2, <2>3, PendingKept DEF JobInv, Pending
<1>3. CASE GetJob
  <2>1. Head(jobs) \in Reqs \cup {NoReq} /\ job = NoReq
    BY <1>3, <1>0, Shortened DEF GetJob, TypeOK, JobInv, Working
  <2>2. /\ SubmittedOnce'
        /\ \A r \in Reqs : Pending(r) <=> Pending(r)' \/ r = Head(jobs)
        /\ \A r \in Reqs : r = Head(jobs) => ~Pending(r)'
    BY <1>3, <1>0, PendingTaken DEF GetJob, JobInv
  <2>3. CASE Head(jobs) = NoReq
    <3>1. ~Working' /\ job' = NoReq
      BY <1>3, <2>1, <2>3 DEF GetJob, Working
    <3> QED  BY <1>3, <1>0, <3>1, <2>2, DiffusionAssumption DEF JobInv, GetJob
  <2>4. CASE Head(jobs) # NoReq
    <3>1. Working' /\ job' = Head(jobs) /\ job' \in Reqs
      BY <1>3, <2>1, <2>4 DEF GetJob, Working
    <3>2. \A r \in Reqs : r = job' => ~Pending(r)' /\ Pending(r)
      BY <3>1, <2>2
    <3>3. ~Pending(job)'
      BY <3>1, <3>2 DEF Pending
    <3> QED  BY <1>3, <1>0, <3>1, <3>2, <3>3, <2>2 DEF JobInv, GetJob
  <2> QED  BY <2>3, <2>4
<1>4. CASE Stop
  <2>1. SubmittedOnce' /\ \A r \in Reqs : Pending(r)' <=> Pending(r)
    BY <1>4, <1>0, PendingAppended, DiffusionAssumption DEF Stop, JobInv
  <2>2. UNCHANGED <<job, worker, done, queue, phase>>
    BY <1>4 DEF Stop
  <2>3. job \in Reqs /\ ~Pending(job) => ~Pending(job)'
    BY <2>1, <2>2 DEF Pending
  <2> QED  BY <1>0, <2>1, <2>2, <2>3 DEF JobInv, Working
<1>5. CASE StopJoined
  <2>1. SubmittedOnce' /\ \A r \in Reqs : ~Pending(r)'
    BY <1>5 DEF StopJoined, SubmittedOnce, Pending
  <2>2. ~Working' /\ job' = NoReq /\ UNCHANGED <<done, queue, phase>>
    BY <1>5, <1>0 DEF StopJoined, Working, JobInv
  <2> QED  BY <1>0, <2>1, <2>2, DiffusionAssumption DEF JobInv
<1>6. ASSUME NEW r \in Reqs, Acquire(r)  PROVE JobInv'
  <2>1. UNCHANGED <<job, worker, done, queue>>
    BY <1>6 DEF Acquire
  <2>2. /\ \A c \in Reqs : c # r => phase'[c] = phase[c]
        /\ phase[r] \in Unsubmitted /\ phase'[r] \notin Unsubmitted
    BY <1>6, <1>0 DEF Acquire, Become, TypeOK, Unsubmitted
  <2>3. SubmittedOnce' /\ \A c \in Reqs : c # r => (Pending(c)' <=> Pending(c))
    <3>1. CASE stuck
      BY <1>6, <3>1, <1>0, PendingKept DEF Acquire, JobInv
    <3>2. CASE ~stuck
      BY <1>6, <3>2, <2>2, <1>0, PendingAppended DEF Acquire, JobInv
    <3> QED  BY <3>1, <3>2
  <2>4. job \in Reqs /\ ~Pending(job) => ~Pending(job)'
    BY <2>1, <2>2, <2>3, <1>0 DEF Pending, JobInv
  <2> QED  BY <1>0, <2>1, <2>2, <2>3, <2>4 DEF JobInv, Working
<1>7. ASSUME NEW r \in Reqs,
             Admit(r) \/ Enter(r) \/ Read(r) \/ Leave(r) \/ Drained(r) \/ WaitExpires(r)
               \/ Expired(r) \/ Release(r)
      PROVE  JobInv'
  <2>1. UNCHANGED <<jobs, job, worker, done>>
    BY <1>7 DEF Admit, Enter, Read, Leave, Drained, WaitExpires, Expired, Release
  <2>2. ASSUME NEW c \in Reqs, phase'[c] \in Unsubmitted
        PROVE  phase[c] \in Unsubmitted /\ queue'[c] = queue[c]
    <3>1. CASE Admit(r) \/ Enter(r) \/ Drained(r) \/ WaitExpires(r) \/ Expired(r) \/ Release(r)
      BY <3>1, <2>2, <1>0
      DEF Admit, Enter, Drained, WaitExpires, Expired, Release, Free, Become, TypeOK, Unsubmitted
    <3>2. CASE Read(r) \/ Leave(r)
      BY <3>2, <2>2, <1>0 DEF Read, Leave, Abandon, Free, Become, TypeOK, Unsubmitted
    <3> QED  BY <1>7, <3>1, <3>2
  <2> QED  BY <1>0, <2>1, <2>2, PendingKept DEF JobInv, Working, Pending
<1> QED
  BY <1>1, <1>2, <1>3, <1>4, <1>5, <1>6, <1>7 DEF Next, Worker, Server, Resumes

-----------------------------------------------------------------------------
(* What is known of a job.                                                 *)

\* What the worker is done with it does not take up again.
LEMMA PastStays ==
  ASSUME LaneInv, [Next]_vars
  PROVE  \A r \in Reqs : Past(r) /\ phase[r] \notin Unsubmitted => Past(r)'
<1> USE DEF lifeVars, workerVars, callVars, eventVars
<1>0. TypeOK /\ JobInv
  BY DEF LaneInv
<1> SUFFICES ASSUME NEW r \in Reqs, Past(r), phase[r] \notin Unsubmitted
             PROVE  Past(r)'
  OBVIOUS
<1>1. CASE GetJob
  <2>1. r # Head(jobs) /\ ~Pending(r)'
    BY <1>1, <1>0, PendingTaken DEF GetJob, Past
  <2>2. job' # r
    BY <1>1, <1>0, <2>1, DiffusionAssumption DEF GetJob, JobInv, Working
  <2> QED  BY <2>1, <2>2 DEF Past
<1>2. CASE Stop
  <2>1. ~Pending(r)'
    BY <1>2, <1>0, PendingAppended, DiffusionAssumption DEF Stop, Past
  <2> QED  BY <1>2, <2>1 DEF Stop, Past
<1>3. CASE StopJoined
  BY <1>3 DEF StopJoined, Past, Pending
<1>4. ASSUME NEW c \in Reqs, Acquire(c)  PROVE Past(r)'
  <2>1. c # r
    BY <1>4 DEF Acquire, Unsubmitted
  <2>2. ~Pending(r)'
    <3>1. CASE stuck
      BY <1>4, <3>1, PendingKept DEF Acquire, Past
    <3>2. CASE ~stuck
      BY <1>4, <3>2, <2>1, <1>0, PendingAppended DEF Acquire, Past
    <3> QED  BY <3>1, <3>2
  <2> QED  BY <1>4, <2>2 DEF Acquire, Past
<1>5. CASE TakeUp \/ Run \/ PutDone \/ SetDone \/ Heal
  <2>1. UNCHANGED jobs /\ (job' = r => job = r)
    BY <1>5, DiffusionAssumption DEF TakeUp, Run, PutDone, SetDone, Heal
  <2>2. job' = r => worker' \notin {"got", "running", "leaving"}
    BY <1>5, <2>1 DEF TakeUp, Run, PutDone, SetDone, Heal, Past
  <2> QED  BY <2>1, <2>2, PendingKept DEF Past
<1>6. ASSUME Load \/ LoopTest \/ Start \/ Started \/ StopGivesUp \/ UNCHANGED vars  PROVE Past(r)'
  <2>1. UNCHANGED <<jobs, job>>
    BY <1>6 DEF Load, LoopTest, Start, Started, StopGivesUp, vars
  <2>2. worker' \in {"got", "running", "leaving"} => worker' = worker
    BY <1>6 DEF Load, LoopTest, Start, Started, StopGivesUp, vars
  <2> QED  BY <2>1, <2>2, PendingKept DEF Past
<1>7. ASSUME NEW c \in Reqs,
             Admit(c) \/ Enter(c) \/ Read(c) \/ Leave(c) \/ Drained(c) \/ WaitExpires(c)
               \/ Expired(c) \/ Release(c)
      PROVE  Past(r)'
  <2>1. UNCHANGED <<jobs, job, worker>>
    BY <1>7 DEF Admit, Enter, Read, Leave, Drained, WaitExpires, Expired, Release
  <2> QED  BY <2>1, PendingKept DEF Past
<1> QED
  BY <1>1, <1>2, <1>3, <1>4, <1>5, <1>6, <1>7 DEF Next, Worker, Server, Resumes

\* Only the finally of a job sends the end mark, to the call of that job.
LEMMA MarkStep ==
  ASSUME LaneInv, [Next]_vars, NEW r \in Reqs, Marked(r)'
  PROVE  Marked(r) \/ (PutDone /\ job = r)
<1> USE DEF lifeVars, workerVars, callVars, eventVars
<1>0. TypeOK /\ JobInv
  BY DEF LaneInv
<1>1. CASE PutDone
  <2>1. job \in Reqs
    BY <1>1, <1>0 DEF PutDone, JobInv, Working
  <2>2. job # r => queue'[r] = queue[r]
    BY <1>1, <1>0, <2>1, Pushed DEF PutDone
  <2> QED  BY <1>1, <2>2 DEF Marked
<1>2. CASE Run
  <2>1. job \in Reqs
    BY <1>2, <1>0 DEF Run, JobInv, Working
  <2>2. PICK item \in {"chunk", "error"} : queue' = queue \/ queue' = Push(queue, job, item)
    BY <1>2 DEF Run
  <2>3. CASE queue' = queue \/ job # r
    <3>1. queue'[r] = queue[r]
      BY <2>1, <2>2, <2>3, <1>0, Pushed
    <3> QED  BY <3>1 DEF Marked
  <2>4. CASE queue' = Push(queue, job, item) /\ job = r
    <3>1. \A k \in DOMAIN queue'[r] :
            \/ k \in DOMAIN queue[r] /\ queue'[r][k] = queue[r][k]
            \/ queue'[r][k] = item
      BY <2>4, <1>0, Pushed
    <3> QED  BY <3>1 DEF Marked
  <2> QED  BY <2>2, <2>3, <2>4
<1>3. ASSUME NEW c \in Reqs, Read(c) \/ Leave(c)  PROVE Marked(r)
  <2>1. CASE queue'[r] = queue[r]
    BY <2>1 DEF Marked
  <2>2. CASE queue'[r] = <<>>
    BY <2>2 DEF Marked
  <2>3. CASE queue'[r] = Tail(queue[r]) /\ queue[r] # <<>>
    <3>1. \A k \in DOMAIN queue'[r] : k + 1 \in DOMAIN queue[r] /\ queue'[r][k] = queue[r][k + 1]
      BY <2>3, <1>0, Shortened DEF TypeOK
    <3> QED  BY <3>1 DEF Marked
  <2> QED  BY <1>0, <1>3, <2>1, <2>2, <2>3 DEF Read, Leave, Abandon, TypeOK
<1>4. ASSUME UNCHANGED queue  PROVE Marked(r)
  BY <1>4 DEF Marked
<1>5. ASSUME NEW c \in Reqs,
             Admit(c) \/ Enter(c) \/ Acquire(c) \/ Drained(c) \/ WaitExpires(c) \/ Expired(c)
               \/ Release(c)
      PROVE  UNCHANGED queue
  BY <1>5 DEF Admit, Enter, Acquire, Drained, WaitExpires, Expired, Release
<1>6. ASSUME Load \/ LoopTest \/ GetJob \/ TakeUp \/ SetDone \/ Heal \/ Server \/ UNCHANGED vars
      PROVE  UNCHANGED queue
  BY <1>6 DEF Load, LoopTest, GetJob, TakeUp, SetDone, Heal, Server, Start, Started, Stop,
              StopJoined, StopGivesUp, vars
<1> QED  BY <1>1, <1>2, <1>3, <1>4, <1>5, <1>6 DEF Next, Worker, Resumes

\* How a call comes to a phase of its clean-up, and a worker to its marks.
LEMMA PhaseStep ==
  ASSUME LaneInv, [Next]_vars
  PROVE  /\ cancel \subseteq cancel'
         /\ \A r \in Reqs :
              /\ phase'[r] \in {"closing", "closed"} =>
                   phase[r] \in {"closing", "closed"} \/ Marked(r)
              /\ phase'[r] \in {"draining", "expired"} =>
                   phase[r] \in {"draining", "expired"} \/ r \in cancel'
<1> USE DEF lifeVars, workerVars, callVars, eventVars
<1>0. TypeOK
  BY DEF LaneInv
<1>1. ASSUME Worker \/ Server \/ UNCHANGED vars  PROVE UNCHANGED phase /\ cancel \subseteq cancel'
  BY <1>1 DEF Worker, Load, LoopTest, GetJob, TakeUp, Run, PutDone, SetDone, Heal,
              Server, Start, Started, Stop, StopJoined, StopGivesUp, vars
<1>2. ASSUME NEW c \in Reqs,
             Admit(c) \/ Enter(c) \/ Acquire(c) \/ Drained(c) \/ WaitExpires(c) \/ Expired(c)
               \/ Release(c)
      PROVE  /\ cancel' = cancel
             /\ \A r \in Reqs :
                  /\ phase'[r] \in {"closing", "closed"} => phase[r] \in {"closing", "closed"}
                  /\ phase'[r] \in {"draining", "expired"} => phase[r] \in {"draining", "expired"}
  BY <1>0, <1>2 DEF Admit, Enter, Acquire, Drained, WaitExpires, Expired, Release, Free, Become,
                    TypeOK
<1>3. ASSUME NEW c \in Reqs, Read(c)
      PROVE  /\ cancel \subseteq cancel'
             /\ \A r \in Reqs :
                  /\ phase'[r] \in {"closing", "closed"} =>
                       phase[r] \in {"closing", "closed"} \/ Marked(r)
                  /\ phase'[r] \in {"draining", "expired"} =>
                       phase[r] \in {"draining", "expired"} \/ r \in cancel'
  <2>1. Head(queue[c]) = "done" => Marked(c)
    <3>1. 1 \in DOMAIN queue[c] /\ Head(queue[c]) = queue[c][1]
      BY <1>0, <1>3, Shortened DEF TypeOK, Read
    <3> QED  BY <3>1 DEF Marked
  <2> QED  BY <1>0, <1>3, <2>1 DEF Read, Abandon, Become, TypeOK
<1>4. ASSUME NEW c \in Reqs, Leave(c)
      PROVE  /\ cancel \subseteq cancel'
             /\ \A r \in Reqs :
                  /\ phase'[r] \in {"closing", "closed"} => phase[r] \in {"closing", "closed"}
                  /\ phase'[r] \in {"draining", "expired"} =>
                       phase[r] \in {"draining", "expired"} \/ r \in cancel'
  BY <1>0, <1>4 DEF Leave, Abandon, Free, Become, TypeOK
<1> QED  BY <1>1, <1>2, <1>3, <1>4 DEF Next, Resumes

\* The lock is taken by a call that finds it free and the engine in order, and
\* freed by its holder; whoever frees it has cancelled its job or read it all,
\* and knows that the worker has let go, or has set the flag, or was cut short.
LEMMA LockMoves ==
  ASSUME LaneInv, [Next]_vars
  PROVE  \/ lock' = lock
         \/ lock = NoReq /\ ~stuck /\ UNCHANGED <<worker, job, cancel>>
         \/ /\ lock \in Reqs /\ lock' = NoReq /\ UNCHANGED <<worker, job, jobs, cancel>>
            /\ (lock \in cancel /\ (lock \in done \/ stuck' \/ lock \in cut')) \/ Past(lock)
<1> USE DEF lifeVars, workerVars, callVars, eventVars
<1>0. TypeOK /\ WaitInv /\ LockedOnce
  BY DEF LaneInv
<1> DEFINE Cleaning == {"draining", "closing", "expired", "closed"}
<1>1. ASSUME NEW r \in Reqs, Drained(r) \/ Expired(r) \/ (Leave(r) /\ phase[r] \in Cleaning)
      PROVE  /\ lock = r /\ lock' = NoReq /\ UNCHANGED <<worker, job, jobs, cancel>>
             /\ (r \in cancel /\ (r \in done \/ stuck' \/ r \in cut')) \/ Past(r)
  <2>1. r \in Locked
    BY <1>1 DEF Drained, Expired, Locked
  <2>2. lock = r
    BY <2>1, <1>0 DEF LockedOnce
  <2>3. (r \in cancel /\ (r \in done \/ stuck' \/ r \in cut')) \/ Past(r)
    BY <1>0, <1>1 DEF Drained, Expired, Leave, WaitInv, TypeOK
  <2> QED  BY <1>1, <2>2, <2>3 DEF Drained, Expired, Leave, Free
<1>2. ASSUME NEW r \in Reqs, Acquire(r)
      PROVE  lock' = lock \/ (lock = NoReq /\ ~stuck /\ UNCHANGED <<worker, job, cancel>>)
  BY <1>2 DEF Acquire
<1>3. ASSUME NEW r \in Reqs,
             Admit(r) \/ Enter(r) \/ Read(r) \/ (Leave(r) /\ phase[r] \notin Cleaning)
               \/ WaitExpires(r) \/ Release(r)
      PROVE  lock' = lock
  BY <1>3 DEF Admit, Enter, Read, Leave, WaitExpires, Release
<1>4. ASSUME Worker \/ Server \/ UNCHANGED vars  PROVE lock' = lock
  BY <1>4 DEF Worker, Load, LoopTest, GetJob, TakeUp, Run, PutDone, SetDone, Heal,
              Server, Start, Started, Stop, StopJoined, StopGivesUp, vars
<1> QED  BY <1>1, <1>2, <1>3, <1>4 DEF Next, Resumes

LEMMA WaitStep ==
  ASSUME LaneInv, [Next]_vars
  PROVE  WaitInv'
<1> USE DEF lifeVars, workerVars, callVars, eventVars
<1>0. TypeOK /\ JobInv /\ WaitInv /\ LockedOnce
  BY DEF LaneInv
<1>1. ASSUME NEW r \in done'
      PROVE  Past(r)' /\ (job' = r => worker' # "putDone")
  <2>1. r \in done \/ (SetDone /\ r = job)
    BY <1>1 DEF Next, Worker, Load, LoopTest, GetJob, TakeUp, Run, PutDone, SetDone, Heal,
                Server, Start, Started, Stop, StopJoined, StopGivesUp, vars, Resumes, Admit, Enter,
                Acquire, Read, Leave, Drained, WaitExpires, Expired, Release
  <2>2. CASE r \in done
    <3>1. r \in Reqs /\ phase[r] \notin Unsubmitted /\ Past(r)
      BY <2>2, <1>0 DEF TypeOK, JobInv, WaitInv
    <3>2. worker' = "putDone" => job' = job /\ worker \in {"leaving", "putDone"}
      BY DEF Next, Worker, Load, LoopTest, GetJob, TakeUp, Run, PutDone, SetDone, Heal,
             Server, Start, Started, Stop, StopJoined, StopGivesUp, vars, Resumes, Admit, Enter,
             Acquire, Read, Leave, Drained, WaitExpires, Expired, Release
    <3>3. job = r => worker \notin {"leaving", "putDone"}
      BY <2>2, <3>1, <1>0 DEF WaitInv, Past
    <3> QED  BY <3>1, <3>2, <3>3, PastStays
  <2>3. CASE SetDone /\ r = job
    <3>1. r \in Reqs /\ ~Pending(r)
      BY <2>3, <1>0 DEF SetDone, JobInv, Working
    <3> QED  BY <2>3, <3>1, PendingKept DEF SetDone, Past
  <2> QED  BY <2>1, <2>2, <2>3
<1>2. ASSUME NEW r \in Reqs, Marked(r)' \/ phase'[r] \in {"closing", "closed"}
      PROVE  Past(r)'
  <2>1. CASE Marked(r) \/ phase[r] \in {"closing", "closed"}
    <3>1. phase[r] \notin Unsubmitted
      BY <2>1, <1>0 DEF JobInv, Marked, Unsubmitted
    <3> QED  BY <2>1, <3>1, <1>0, PastStays DEF WaitInv
  <2>2. CASE PutDone /\ job = r
    <3>1. ~Pending(r)
      BY <2>2, <1>0 DEF JobInv, PutDone, Working
    <3> QED  BY <2>2, <3>1, PendingKept DEF PutDone, Past
  <2> QED  BY <1>2, <2>1, <2>2, MarkStep, PhaseStep
<1>3. ASSUME NEW r \in Reqs, phase'[r] \in {"draining", "expired"}
      PROVE  r \in cancel'
  BY <1>0, <1>3, PhaseStep DEF WaitInv
<1>4. ASSUME worker' \in {"got", "running"}
      PROVE  lock' = job' \/ job' \in cancel'
  <2>1. CASE GetJob
    <3>1. job' = Head(jobs) /\ job' \in Reqs /\ UNCHANGED <<lock, cancel>>
      BY <1>4, <2>1, <1>0, Shortened DEF GetJob, TypeOK
    <3>2. \A r \in Reqs : r = Head(jobs) => Pending(r)
      BY <2>1, <1>0, PendingTaken DEF GetJob
    <3> QED  BY <3>1, <3>2, <1>0 DEF LockedOnce
  <2>2. CASE ~GetJob
    <3>1. worker \in {"got", "running"} /\ job' = job
      BY <1>4, <2>2 DEF Next, Worker, Load, LoopTest, TakeUp, Run, PutDone, SetDone, Heal,
             Server, Start, Started, Stop, StopJoined, StopGivesUp, vars, Resumes, Admit, Enter,
             Acquire, Read, Leave, Drained, WaitExpires, Expired, Release
    <3>2. job \in Reqs /\ (lock = job \/ job \in cancel)
      BY <3>1, <1>0 DEF WaitInv, JobInv, Working
    <3>3. CASE job \in cancel
      BY <3>1, <3>3, PhaseStep
    <3>4. CASE lock = job
      <4>1. ~Past(job)
        BY <3>1 DEF Past
      <4> QED  BY <3>1, <3>2, <3>4, <4>1, LockMoves, PhaseStep, DiffusionAssumption
    <3> QED  BY <3>2, <3>3, <3>4
  <2> QED  BY <2>1, <2>2
<1> QED  BY <1>1, <1>2, <1>3, <1>4 DEF WaitInv

-----------------------------------------------------------------------------
(* The generation lock.                                                    *)

LEMMA LockStep ==
  ASSUME LaneInv, [Next]_vars
  PROVE  LockedOnce'
<1> USE DEF lifeVars, workerVars, callVars, eventVars
<1>0. TypeOK /\ JobInv /\ WaitInv /\ LockedOnce
  BY DEF LaneInv
<1>1. ASSUME NEW r \in Reqs, Acquire(r), ~stuck  PROVE LockedOnce'
  <2>1. Locked = {} /\ lock' = r /\ cancel' = cancel
    BY <1>0, <1>1 DEF Acquire, LockedOnce
  <2>2. Locked' = {r}
    BY <1>0, <1>1, <2>1 DEF Acquire, Become, Locked, TypeOK
  <2>3. \A c \in Reqs \ cancel : Pending(c)' => c = r
    BY <1>0, <1>1, PendingAppended, DiffusionAssumption DEF Acquire, LockedOnce
  <2> QED  BY <2>1, <2>2, <2>3, DiffusionAssumption DEF LockedOnce
<1> DEFINE Cleaning == {"draining", "closing", "expired", "closed"}
<1>2. ASSUME NEW r \in Reqs, Drained(r) \/ Expired(r) \/ (Leave(r) /\ phase[r] \in Cleaning)
      PROVE  LockedOnce'
  <2>1. r \in Locked
    BY <1>2 DEF Drained, Expired, Locked
  <2>2. lock = r /\ Locked = {r} /\ lock' = NoReq /\ UNCHANGED <<jobs, cancel>>
    BY <1>0, <1>2, <2>1 DEF LockedOnce, Drained, Expired, Leave, Free
  <2>3. Locked' = {}
    BY <1>0, <1>2, <2>2 DEF Drained, Expired, Leave, Free, Become, Locked, TypeOK
  <2>4. r \in cancel \/ ~Pending(r)
    BY <1>0, <1>2 DEF Drained, Expired, WaitInv, Past
  <2>5. \A c \in Reqs \ cancel : ~Pending(c)
    BY <1>0, <2>2, <2>4 DEF LockedOnce
  <2> QED  BY <2>2, <2>3, <2>5, PendingKept DEF LockedOnce
<1>3. ASSUME /\ lock' = lock /\ cancel \subseteq cancel' /\ Locked' = Locked
             /\ \A c \in Reqs : Pending(c)' => Pending(c)
      PROVE  LockedOnce'
  BY <1>0, <1>3 DEF LockedOnce
<1>4. ASSUME Worker \/ Server \/ UNCHANGED vars  PROVE LockedOnce'
  <2>1. lock' = lock /\ Locked' = Locked
    BY <1>4 DEF Locked, Worker, Load, LoopTest, GetJob, TakeUp, Run, PutDone, SetDone, Heal,
                Server, Start, Started, Stop, StopJoined, StopGivesUp, vars
  <2>2. CASE GetJob
    BY <1>0, <1>3, <2>1, <2>2, PhaseStep, PendingTaken DEF GetJob
  <2>3. CASE Stop
    BY <1>0, <1>3, <2>1, <2>3, PhaseStep, PendingAppended, DiffusionAssumption DEF Stop
  <2>4. CASE StopJoined
    <3>1. \A c \in Reqs : ~Pending(c)'
      BY <2>4 DEF StopJoined, Pending
    <3> QED  BY <1>3, <2>1, <3>1, PhaseStep
  <2>5. CASE UNCHANGED jobs
    BY <1>3, <2>1, <2>5, PhaseStep, PendingKept
  <2> QED
    BY <1>4, <2>2, <2>3, <2>4, <2>5 DEF Worker, Load, LoopTest, TakeUp, Run, PutDone, SetDone, Heal,
                Server, Start, Started, StopGivesUp, vars
<1>5. ASSUME NEW r \in Reqs, Admit(r) \/ Enter(r) \/ WaitExpires(r) \/ Release(r)
                             \/ (Acquire(r) /\ stuck)
      PROVE  LockedOnce'
  <2>1. lock' = lock /\ UNCHANGED jobs
    BY <1>5 DEF Admit, Enter, WaitExpires, Release, Acquire
  <2>2. Locked' = Locked
    BY <1>0, <1>5 DEF Admit, Enter, WaitExpires, Release, Acquire, Become, Locked, TypeOK
  <2> QED  BY <1>3, <2>1, <2>2, PhaseStep, PendingKept
<1>6. ASSUME NEW r \in Reqs, Read(r) \/ (Leave(r) /\ phase[r] \notin Cleaning)
      PROVE  LockedOnce'
  <2>1. lock' = lock /\ UNCHANGED jobs
    BY <1>6 DEF Read, Leave
  <2>2. Locked' = Locked
    BY <1>0, <1>6 DEF Read, Leave, Abandon, Become, Locked, TypeOK
  <2> QED  BY <1>3, <2>1, <2>2, PhaseStep, PendingKept
<1> QED
  BY <1>1, <1>2, <1>4, <1>5, <1>6 DEF Next, Resumes

LEMMA HeadStep ==
  ASSUME LaneInv, [Next]_vars
  PROVE  HeadOfLine'
<1> USE DEF lifeVars, workerVars, callVars, eventVars
<1>0. TypeOK /\ JobInv /\ WaitInv /\ LockedOnce /\ HeadOfLine
  BY DEF LaneInv
<1> SUFFICES ASSUME worker' = "running", job' \notin cut'
             PROVE  lock' = job' \/ (lock' = NoReq /\ stuck' /\ job' \in cancel')
  BY DEF HeadOfLine
<1>1. CASE TakeUp
  BY <1>0, <1>1 DEF TakeUp, WaitInv
<1>2. CASE ~TakeUp
  <2>1. worker = "running" /\ job' = job
    BY <1>2 DEF Next, Worker, Load, LoopTest, GetJob, TakeUp, Run, PutDone, SetDone, Heal,
             Server, Start, Started, Stop, StopJoined, StopGivesUp, vars, Resumes, Admit, Enter,
             Acquire, Read, Leave, Drained, WaitExpires, Expired, Release
  <2>2. stuck => stuck'
    BY <2>1 DEF Next, Worker, Load, LoopTest, GetJob, TakeUp, Run, PutDone, SetDone, Heal,
             Server, Start, Started, Stop, StopJoined, StopGivesUp, vars, Resumes, Admit, Enter,
             Acquire, Read, Leave, Drained, WaitExpires, Expired, Release
  <2>3. job \in Reqs /\ job \notin done /\ ~Past(job)
    BY <1>0, <2>1 DEF JobInv, Working, WaitInv, Past
  <2>4. cancel \subseteq cancel' /\ job \notin cut
    <3>1. cut \subseteq cut'
      BY DEF Next, Worker, Load, LoopTest, GetJob, TakeUp, Run, PutDone, SetDone, Heal,
             Server, Start, Started, Stop, StopJoined, StopGivesUp, vars, Resumes, Admit, Enter,
             Acquire, Read, Leave, Drained, WaitExpires, Expired, Release
    <3> QED  BY <2>1, <3>1, PhaseStep
  <2>5. CASE lock = job
    BY <2>1, <2>3, <2>4, <2>5, LockMoves, DiffusionAssumption
  <2>6. CASE lock = NoReq /\ stuck /\ job \in cancel
    <3>1. lock' = lock
      BY <2>6, LockMoves, DiffusionAssumption
    <3> QED  BY <2>1, <2>2, <2>4, <2>6, <3>1
  <2> QED  BY <1>0, <2>1, <2>4, <2>5, <2>6 DEF HeadOfLine
<1> QED  BY <1>1, <1>2

-----------------------------------------------------------------------------
(* Admission.                                                              *)

LEMMA AdmissionStep ==
  ASSUME LaneInv, [Next]_vars
  PROVE  AdmissionInv' /\ AdmissionExact'
<1> USE DEF lifeVars, workerVars, callVars, eventVars
<1>0. TypeOK /\ AdmissionInv /\ AdmissionExact /\ IsFiniteSet(holding)
  BY DEF LaneInv, AdmissionInv
<1>1. ASSUME NEW r \in Reqs, Admit(r)  PROVE AdmissionInv' /\ AdmissionExact'
  <2>1. UNCHANGED <<life, stops>> /\ r \notin holding
    BY <1>0, <1>1 DEF Admit, AdmissionInv
  <2>2. \A c \in Reqs : phase'[c] = "new" => phase[c] = "new" /\ c # r
    BY <1>0, <1>1 DEF Admit, Become, TypeOK
  <2>3. CASE stuck \/ Full
    BY <1>0, <1>1, <2>1, <2>2, <2>3 DEF Admit, AdmissionInv, AdmissionExact
  <2>4. CASE ~(stuck \/ Full)
    <3>1. holding' = holding \cup {r} /\ reservations' = reservations + 1
      BY <1>1, <2>4 DEF Admit
    <3>2. IsFiniteSet(holding') /\ Cardinality(holding') = Cardinality(holding) + 1
      BY <1>0, <2>1, <3>1, FS_AddElement
    <3>3. stops = 0 => reservations + 1 <= Cap
      BY <1>0, <2>4, DiffusionAssumption DEF Full, TypeOK
    <3> QED  BY <1>0, <2>1, <2>2, <3>1, <3>2, <3>3 DEF AdmissionInv, AdmissionExact
  <2> QED  BY <2>3, <2>4
<1>2. ASSUME NEW r \in Reqs, Release(r)  PROVE AdmissionInv' /\ AdmissionExact'
  <2>1. UNCHANGED <<life, stops, phase>> /\ holding' = holding \ {r} /\ r \in holding
    BY <1>2 DEF Release
  <2>2. IsFiniteSet(holding') /\ Cardinality(holding') = Cardinality(holding) - 1
    BY <1>0, <2>1, FS_RemoveElement
  <2>3. Cardinality(holding) \in Nat /\ Cardinality(holding') \in Nat
    BY <1>0, <2>2, FS_CardinalityType
  <2>4. stops = 0 => reservations' = reservations - 1
    BY <1>0, <1>2, <2>2, <2>3 DEF Release, AdmissionExact, TypeOK
  <2>5. AdmissionExact'
    BY <1>0, <2>1, <2>2, <2>3, <2>4, DiffusionAssumption DEF AdmissionExact, TypeOK
  <2> QED  BY <1>0, <2>1, <2>2, <2>5 DEF AdmissionInv
<1>3. CASE Stop
  <2>1. stops' > 0 /\ stops' # 0 /\ UNCHANGED <<holding, phase>>
    BY <1>0, <1>3, DiffusionAssumption DEF Stop, TypeOK
  <2> QED  BY <1>0, <2>1 DEF AdmissionInv, AdmissionExact
<1>4. CASE StopJoined
  <2>1. stops' > 0 /\ stops' # 0 /\ UNCHANGED <<holding, phase>> /\ life' # "stopping"
    BY <1>0, <1>4, DiffusionAssumption DEF StopJoined, AdmissionInv, TypeOK
  <2> QED  BY <1>0, <2>1 DEF AdmissionInv, AdmissionExact
<1>5. ASSUME /\ UNCHANGED <<holding, reservations, stops>>
             /\ life' = "stopping" => life = "stopping"
             /\ \A c \in Reqs : phase'[c] = "new" => phase[c] = "new"
      PROVE  AdmissionInv' /\ AdmissionExact'
  BY <1>0, <1>5 DEF AdmissionInv, AdmissionExact
<1>6. ASSUME Worker \/ Start \/ Started \/ StopGivesUp \/ UNCHANGED vars
      PROVE  AdmissionInv' /\ AdmissionExact'
  BY <1>5, <1>6 DEF Worker, Load, LoopTest, GetJob, TakeUp, Run, PutDone, SetDone, Heal,
                    Start, Started, StopGivesUp, vars
<1>7. ASSUME NEW r \in Reqs,
             Enter(r) \/ Acquire(r) \/ Read(r) \/ Leave(r) \/ Drained(r) \/ WaitExpires(r)
               \/ Expired(r)
      PROVE  AdmissionInv' /\ AdmissionExact'
  <2>1. UNCHANGED <<holding, reservations, stops, life>>
    BY <1>7 DEF Enter, Acquire, Read, Leave, Drained, WaitExpires, Expired
  <2>2. \A c \in Reqs : phase'[c] = "new" => phase[c] = "new"
    BY <1>0, <1>7 DEF Enter, Acquire, Read, Leave, Abandon, Drained, WaitExpires, Expired, Free,
                      Become, TypeOK
  <2> QED  BY <1>5, <2>1, <2>2
<1> QED
  BY <1>1, <1>2, <1>3, <1>4, <1>6, <1>7 DEF Next, Server, Resumes

-----------------------------------------------------------------------------
(* The results.                                                            *)

\* LaneInv is inductive: it holds of the engine that is built, and every step
\* of the worker thread, of a coroutine and of start() and stop() keeps it.
THEOREM LaneInvariant == Spec => []LaneInv
<1>1. Init => LaneInv
  BY LaneStarts
<1>2. LaneInv /\ [Next]_vars => LaneInv'
  BY TypeStep, JobStep, WaitStep, LockStep, HeadStep, AdmissionStep DEF LaneInv
<1> QED  BY <1>1, <1>2, PTL DEF Spec

\* Type correctness of the lane (the attributes DiffusionEngine.__init__ sets).
THEOREM LaneTypes == Spec => []TypeOK
<1>1. LaneInv => TypeOK
  BY DEF LaneInv
<1> QED  BY <1>1, LaneInvariant, PTL

\* The generation lock has one holder, and a waiting job that is not the
\* holder's is cancelled (the finally of _stream_prompt_raw).
THEOREM LockHasOneHolder == Spec => []LockedOnce
<1>1. LaneInv => LockedOnce
  BY DEF LaneInv
<1> QED  BY <1>1, LaneInvariant, PTL

\* A call never gets the lock while the GPU works for another: the worker runs
\* the job of the holder, or a cancelled one while the engine refuses calls,
\* or the job of a call that was cancelled again, or first, in its clean-up.
THEOREM NobodyOvertakes == Spec => []HeadOfLine
<1>1. LaneInv => HeadOfLine
  BY DEF LaneInv
<1> QED  BY <1>1, LaneInvariant, PTL

\* check_admission counts every admitted call until its release, once, and
\* never more than the cap, until stop() resets the counter.
THEOREM AdmissionsAreExact == Spec => []AdmissionExact
<1>1. LaneInv => AdmissionExact
  BY DEF LaneInv
<1> QED  BY <1>1, LaneInvariant, PTL
=============================================================================
