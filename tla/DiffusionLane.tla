---------------------------- MODULE DiffusionLane ----------------------------
(***************************************************************************)
(* The text-diffusion engine (vllm_mlx/runtime/diffusion_lane.py, class    *)
(* DiffusionEngine).  One worker thread owns the GPU; every call is a      *)
(* coroutine on the asyncio thread that holds the generation lock from the *)
(* submission of its job until the worker has let go of it, or until a     *)
(* 30 s wait for that has expired, which marks the engine as stuck.        *)
(*                                                                         *)
(* A job and the call it belongs to are the same value here.  The queue    *)
(* between them is one FIFO: the pump thread relays it item by item.       *)
(***************************************************************************)
EXTENDS Integers, Sequences, FiniteSets

CONSTANTS
  Reqs,          \* the calls
  NoReq,         \* no job, no lock holder, and stop()'s sentinel in the queue
  Impatient,     \* the calls whose client may go away
  StopWords,     \* the calls with stop sequences
  Cap,           \* max_concurrent_requests
  MaxBlocks,     \* bound on the blocks of an answer
  MaxStops       \* bound on the calls of stop()

ASSUME DiffusionAssumption ==
  /\ NoReq \notin Reqs /\ Impatient \subseteq Reqs /\ StopWords \subseteq Reqs
  /\ Cap \in Nat \ {0} /\ MaxBlocks \in Nat /\ MaxStops \in Nat

VARIABLES
  life,          \* what the server has done to the engine: start(), stop()
  stopFlag,      \* _stop
  worker,        \* where the worker thread stands
  job,           \* the job it works on
  blocks,        \* the blocks it has made of it
  active,        \* _active_cancel: whose cancel_event is published
  loaded,        \* _loaded
  ready,         \* _ready is set
  loadError,     \* _load_error is set
  jobs,          \* _jobs
  stuck,         \* _worker_stuck
  cancel,        \* the calls whose cancel_event is set
  done,          \* the calls whose done_event is set
  queue,         \* a call's thread_q and aio_q
  phase,         \* where the coroutine of a call stands
  lock,          \* holder of _generation_lock
  reservations,  \* _admission_reservations
  holding,       \* the calls whose route has not released its reservation
  gone,          \* those of them whose client has left
  cut,           \* history: the calls cancelled while their clean-up waited for the worker
  stops          \* calls of stop() so far (bound)

lifeVars   == <<life, stopFlag, loaded, ready, loadError, stops>>
workerVars == <<worker, job, blocks, active>>
callVars   == <<phase, gone, cut, lock, reservations, holding>>
eventVars  == <<jobs, stuck, cancel, done, queue>>
vars == <<lifeVars, workerVars, callVars, eventVars>>

Init ==
  /\ life = "down" /\ stopFlag = FALSE /\ stops = 0
  /\ loaded = FALSE /\ ready = FALSE /\ loadError = FALSE
  /\ worker = "none" /\ job = NoReq /\ blocks = 0 /\ active = NoReq
  /\ jobs = <<>> /\ stuck = FALSE /\ cancel = {} /\ done = {}
  /\ queue = [r \in Reqs |-> <<>>]
  /\ phase = [r \in Reqs |-> "new"] /\ gone = {} /\ cut = {}
  /\ lock = NoReq /\ reservations = 0 /\ holding = {}

-----------------------------------------------------------------------------
(* start() and stop().                                                     *)

\* _start_worker_once: a worker that is dead is replaced, a live one is kept.
Start ==
  /\ life = "down" /\ life' = "starting"
  /\ IF worker \in {"none", "dead"}
     THEN /\ worker' = "loading"
          /\ ready' = FALSE /\ loadError' = FALSE /\ loaded' = FALSE
          /\ stopFlag' = FALSE
     ELSE UNCHANGED <<worker, ready, loadError, loaded, stopFlag>>
  /\ UNCHANGED <<stops, job, blocks, active, callVars, eventVars>>

\* _wait_until_ready returns, or raises the load's error.
Started ==
  /\ life = "starting" /\ ready
  /\ life' = IF loadError THEN "down" ELSE "up"
  /\ UNCHANGED <<stopFlag, loaded, ready, loadError, stops, workerVars, callVars, eventVars>>

\* stop() flags the worker, cancels the job whose event it finds published,
\* and sends the sentinel.
Stop ==
  /\ life = "up" /\ stops < MaxStops
  /\ life' = "stopping" /\ stopFlag' = TRUE /\ stops' = stops + 1
  /\ cancel' = cancel \cup ({active} \ {NoReq})
  /\ jobs' = Append(jobs, NoReq)
  /\ UNCHANGED <<loaded, ready, loadError, workerVars, callVars, stuck, done, queue>>

\* The worker has exited: the engine is reset, its job queue cleared.
StopJoined ==
  /\ life = "stopping" /\ worker = "dead"
  /\ life' = "down" /\ stopFlag' = FALSE
  /\ loaded' = FALSE /\ ready' = FALSE /\ loadError' = FALSE
  /\ worker' = "none" /\ active' = NoReq
  /\ stuck' = FALSE /\ jobs' = <<>> /\ reservations' = 0
  /\ UNCHANGED <<stops, job, blocks, cancel, done, queue, phase, gone, cut, lock, holding>>

\* The worker has not exited within 30 s: everything is left as it is.
StopGivesUp ==
  /\ life = "stopping" /\ worker # "dead"
  /\ life' = "down"
  /\ UNCHANGED <<stopFlag, loaded, ready, loadError, stops, workerVars, callVars, eventVars>>

-----------------------------------------------------------------------------
(* The worker thread: _worker_loop.                                        *)

\* The model is loaded, or not: an error after loading leaves _loaded set.
Load ==
  /\ worker = "loading"
  /\ ready' = TRUE
  /\ \/ worker' = "loop" /\ loaded' = TRUE /\ UNCHANGED loadError
     \/ worker' = "dead" /\ loaded' \in BOOLEAN /\ loadError' = TRUE
  /\ UNCHANGED <<life, stopFlag, stops, job, blocks, active, callVars, eventVars>>

LoopTest ==
  /\ worker = "loop"
  /\ worker' = IF stopFlag THEN "dead" ELSE "get"
  /\ UNCHANGED <<lifeVars, job, blocks, active, callVars, eventVars>>

GetJob ==
  /\ worker = "get" /\ jobs # <<>>
  /\ jobs' = Tail(jobs)
  /\ IF Head(jobs) = NoReq THEN worker' = "dead" /\ UNCHANGED job
                           ELSE worker' = "got" /\ job' = Head(jobs)
  /\ UNCHANGED <<lifeVars, blocks, active, callVars, stuck, cancel, done, queue>>

\* The cancel event is published; a job that is cancelled by then is skipped.
TakeUp ==
  /\ worker = "got"
  /\ active' = job
  /\ worker' = IF job \in cancel THEN "leaving" ELSE "running"
  /\ UNCHANGED <<lifeVars, job, blocks, callVars, eventVars>>

\* An item for the call; nobody reads the queue of a call that has left it.
Push(q, r, item) == IF phase[r] = "streaming" THEN [q EXCEPT ![r] = Append(@, item)] ELSE q

\* _run_generator: the diffusion yields a chunk, ends the answer, raises, or
\* comes back to find that the job has been cancelled.
Run ==
  /\ worker = "running"
  /\ \/ /\ job \notin cancel /\ blocks < MaxBlocks
        /\ queue' = Push(queue, job, "chunk")
        /\ blocks' = blocks + 1 /\ UNCHANGED worker
     \/ /\ job \notin cancel
        /\ queue' = Push(queue, job, "chunk")
        /\ worker' = "leaving" /\ UNCHANGED blocks
     \/ /\ queue' = Push(queue, job, "error")
        /\ worker' = "leaving" /\ UNCHANGED blocks
     \/ /\ job \in cancel
        /\ worker' = "leaving" /\ UNCHANGED <<queue, blocks>>
  /\ UNCHANGED <<lifeVars, job, active, callVars, jobs, stuck, cancel, done>>

\* Mutant: no end mark.
PutNothing ==
  /\ worker = "leaving" /\ worker' = "putDone"
  /\ active' = NoReq
  /\ UNCHANGED <<queue, lifeVars, job, blocks, callVars, jobs, stuck, cancel, done>>

\* The finally of a job: end mark, done_event, and the stuck flag is cleared.
PutDone ==
  /\ worker = "leaving" /\ worker' = "putDone"
  /\ active' = NoReq
  /\ queue' = Push(queue, job, "done")
  /\ UNCHANGED <<lifeVars, job, blocks, callVars, jobs, stuck, cancel, done>>

SetDone ==
  /\ worker = "putDone" /\ worker' = "heal"
  /\ done' = done \cup {job}
  /\ UNCHANGED <<lifeVars, job, blocks, active, callVars, jobs, stuck, cancel, queue>>

Heal ==
  /\ worker = "heal" /\ worker' = "loop"
  /\ stuck' = FALSE /\ job' = NoReq /\ blocks' = 0
  /\ UNCHANGED <<lifeVars, active, callVars, jobs, cancel, done, queue>>

Worker == Load \/ LoopTest \/ GetJob \/ TakeUp \/ Run \/ PutDone \/ SetDone \/ Heal

-----------------------------------------------------------------------------
(* A call: the route's admission, then _stream_prompt_raw.                 *)

Become(r, p) == phase' = [phase EXCEPT ![r] = p]

\* Mutant: off by one.
FullOneLate == reservations > Cap

Full == reservations >= Cap

\* check_admission.
Admit(r) ==
  /\ life = "up" /\ phase[r] = "new"
  /\ IF stuck \/ Full
     THEN Become(r, "over") /\ UNCHANGED <<reservations, holding>>
     ELSE /\ Become(r, "admitted")
          /\ reservations' = reservations + 1 /\ holding' = holding \cup {r}
  /\ UNCHANGED <<lifeVars, workerVars, gone, cut, lock, eventVars>>

\* _ensure_loaded, then the call waits for the generation lock.
Enter(r) ==
  /\ phase[r] = "admitted"
  /\ Become(r, IF loaded THEN "queued" ELSE "over")
  /\ UNCHANGED <<lifeVars, workerVars, gone, cut, lock, reservations, holding, eventVars>>

\* Mutant: no second look at the stuck flag.
AcquireUnchecked(r) ==
  /\ phase[r] = "queued" /\ lock = NoReq
  /\ Become(r, "streaming")
  /\ lock' = r /\ jobs' = Append(jobs, r)
  /\ UNCHANGED <<gone, cut, lifeVars, workerVars, reservations, holding, stuck, cancel, done, queue>>

\* It gets the lock, looks at the stuck flag again, and submits its job.
Acquire(r) ==
  /\ phase[r] = "queued" /\ lock = NoReq
  /\ IF stuck
     THEN Become(r, "over") /\ UNCHANGED <<lock, jobs>>
     ELSE Become(r, "streaming") /\ lock' = r /\ jobs' = Append(jobs, r)
  /\ UNCHANGED <<lifeVars, workerVars, gone, cut, reservations, holding, stuck, cancel, done, queue>>

\* Mutant: the job of a call that stops reading runs on.
AbandonQuietly(r) ==
  Become(r, "draining") /\ queue' = [queue EXCEPT ![r] = <<>>] /\ UNCHANGED cancel

\* The call stops reading: its job is cancelled unless it was read to the end.
Abandon(r) ==
  /\ Become(r, "draining")
  /\ cancel' = cancel \cup {r}
  /\ queue' = [queue EXCEPT ![r] = <<>>]

\* It reads an item: a chunk of text, which may complete a stop sequence, an
\* exception, or the end mark.
Read(r) ==
  /\ phase[r] = "streaming" /\ queue[r] # <<>>
  /\ \/ /\ Head(queue[r]) = "chunk"
        /\ queue' = [queue EXCEPT ![r] = Tail(@)]
        /\ UNCHANGED <<phase, cancel>>
     \/ Head(queue[r]) = "chunk" /\ r \in StopWords /\ Abandon(r)
     \/ Head(queue[r]) = "error" /\ Abandon(r)
     \/ /\ Head(queue[r]) = "done"
        /\ Become(r, "closing")
        /\ queue' = [queue EXCEPT ![r] = <<>>]
        /\ UNCHANGED cancel
  /\ UNCHANGED <<lifeVars, workerVars, gone, cut, lock, reservations, holding, jobs, stuck, done>>

Free(r) == lock' = NoReq /\ Become(r, "over")

\* The call is cancelled: where it waits for its turn, where it reads, or, the
\* first time or once more, where it waits for the worker in its clean-up.  A
\* CancelledError raised by that wait leaves the finally there: the lock goes,
\* and the engine is not marked as stuck.
Leave(r) ==
  /\ r \in Impatient
  /\ gone' = gone \cup ({r} \cap holding)
  /\ \/ /\ phase[r] \in {"admitted", "queued"} /\ Become(r, "over")
        /\ UNCHANGED <<cancel, queue, lock, cut>>
     \/ phase[r] = "streaming" /\ Abandon(r) /\ UNCHANGED <<lock, cut>>
     \/ /\ phase[r] \in {"draining", "closing", "expired", "closed"}
        /\ Free(r)
        /\ cut' = cut \cup ({r} \ done)
        /\ UNCHANGED <<cancel, queue>>
  /\ UNCHANGED <<lifeVars, workerVars, reservations, holding, jobs, stuck, done>>

\* The worker has let go of the job.
Drained(r) ==
  /\ phase[r] \in {"draining", "closing"} /\ r \in done
  /\ Free(r)
  /\ UNCHANGED <<lifeVars, workerVars, gone, cut, reservations, holding, eventVars>>

\* done_event.wait gives up in its thread: the coroutine hears of it later.
WaitExpires(r) ==
  /\ phase[r] \in {"draining", "closing"} /\ r \notin done
  /\ Become(r, IF phase[r] = "draining" THEN "expired" ELSE "closed")
  /\ UNCHANGED <<lifeVars, workerVars, gone, cut, lock, reservations, holding, eventVars>>

\* After an early exit that marks the engine as stuck.
Expired(r) ==
  /\ phase[r] \in {"expired", "closed"}
  /\ stuck' = (stuck \/ phase[r] = "expired")
  /\ Free(r)
  /\ UNCHANGED <<lifeVars, workerVars, gone, cut, reservations, holding, jobs, cancel, done, queue>>

\* Mutant: the counter goes below zero.
ReleaseBelowZero(r) ==
  /\ r \in holding /\ (phase[r] = "over" \/ r \in gone)
  /\ holding' = holding \ {r} /\ gone' = gone \ {r}
  /\ reservations' = reservations - 1
  /\ UNCHANGED <<lifeVars, workerVars, phase, cut, lock, eventVars>>

\* release_admission_reservation by the route or, where the client left, by the
\* disconnect guard, which need not wait for the generator to end.
Release(r) ==
  /\ r \in holding /\ (phase[r] = "over" \/ r \in gone)
  /\ holding' = holding \ {r} /\ gone' = gone \ {r}
  /\ reservations' = IF reservations > 0 THEN reservations - 1 ELSE 0
  /\ UNCHANGED <<lifeVars, workerVars, phase, cut, lock, eventVars>>

Resumes(r) ==
  Enter(r) \/ Acquire(r) \/ Read(r) \/ Drained(r) \/ WaitExpires(r) \/ Expired(r) \/ Release(r)

Server == Start \/ Started \/ Stop \/ StopJoined \/ StopGivesUp

Next == Worker \/ Server \/ \E r \in Reqs : Admit(r) \/ Resumes(r) \/ Leave(r)

Spec == Init /\ [][Next]_vars

\* The worker's calls return, and asyncio resumes a coroutine whose await is
\* over.  Nobody is obliged to come, to leave, to start or to stop.
FairSpec == Spec /\ WF_vars(Worker) /\ \A r \in Reqs : WF_vars(Resumes(r))

-----------------------------------------------------------------------------
(* Properties.                                                             *)

Phases == {"new", "admitted", "queued", "streaming", "draining", "closing",
           "expired", "closed", "over"}

\* The attributes and locals of the engine hold values of their kinds.
TypeOK ==
  /\ life \in {"down", "starting", "up", "stopping"}
  /\ worker \in {"none", "loading", "loop", "get", "got", "running", "leaving",
                 "putDone", "heal", "dead"}
  /\ job \in Reqs \cup {NoReq} /\ active \in Reqs \cup {NoReq} /\ lock \in Reqs \cup {NoReq}
  /\ blocks \in 0..MaxBlocks
  /\ stopFlag \in BOOLEAN /\ loaded \in BOOLEAN /\ ready \in BOOLEAN
  /\ loadError \in BOOLEAN /\ stuck \in BOOLEAN
  /\ jobs \in Seq(Reqs \cup {NoReq})
  /\ cancel \subseteq Reqs /\ done \subseteq Reqs /\ holding \subseteq Reqs
  /\ gone \subseteq Reqs /\ cut \subseteq Reqs
  /\ queue \in [Reqs -> Seq({"chunk", "error", "done"})]
  /\ phase \in [Reqs -> Phases]
  /\ reservations \in Nat /\ stops \in 0..MaxStops

\* "a queued sibling request can't acquire the lock while the worker is still
\* burning GPU on this job": the GPU works for the holder of the lock, or it
\* works off an abandoned job, which is cancelled; then nobody holds the lock
\* and the engine refuses calls.  The job of a call that was cancelled in its
\* clean-up is the exception: it lets its siblings overtake.
HeadOfLine ==
  worker = "running" /\ job \notin cut =>
    lock = job \/ (lock = NoReq /\ stuck /\ job \in cancel)

\* The job of the call waits for the worker.
Pending(r) == \E i \in DOMAIN jobs : jobs[i] = r

\* Calls that hold the lock, in any phase of their clean-up.
Locked == {r \in Reqs : phase[r] \in {"streaming", "draining", "closing", "expired", "closed"}}

\* The lock has the one holder that is past Acquire and not over, and a job
\* that nobody waits for any more is cancelled: it is skipped, not run.
LockedOnce ==
  /\ Locked = {lock} \ {NoReq}
  /\ \A r \in Reqs \ cancel : Pending(r) => r = lock

\* The cap counts every admitted call until its route releases it, once, as
\* long as stop() has not reset the counter under calls still in flight.
AdmissionExact ==
  stops = 0 => reservations = Cardinality(holding) /\ reservations <= Cap

\* Every admitted call ends, whatever the others do, unless stop() drops its job.
EveryCallEnds ==
  \A r \in Reqs : phase[r] = "admitted" ~> (phase[r] = "over" \/ stops > 0)
-----------------------------------------------------------------------------
(* An inductive invariant: the properties above, strengthened.             *)

Unsubmitted == {"new", "admitted", "queued"}
Working == worker \in {"got", "running", "leaving", "putDone", "heal"}

SubmittedOnce == \A i, j \in DOMAIN jobs : jobs[i] = jobs[j] /\ jobs[i] \in Reqs => i = j

\* The worker has made all it will ever make of the job of r.
Past(r) == ~Pending(r) /\ (job = r => worker \notin {"got", "running", "leaving"})

\* The end mark is on its way to r.
Marked(r) == \E k \in DOMAIN queue[r] : queue[r][k] = "done"

\* A job is submitted once, and is in the queue or with the worker.
JobInv ==
  /\ SubmittedOnce
  /\ IF Working THEN job \in Reqs /\ ~Pending(job) ELSE job = NoReq
  /\ \A r \in Reqs : phase[r] \in Unsubmitted =>
                       ~Pending(r) /\ job # r /\ r \notin done /\ queue[r] = <<>>

\* Whoever waits on a job, or has stopped waiting, knows how far it is.
WaitInv ==
  /\ \A r \in done : Past(r) /\ (job = r => worker # "putDone")
  /\ \A r \in Reqs : Marked(r) \/ phase[r] \in {"closing", "closed"} => Past(r)
  /\ \A r \in Reqs : phase[r] \in {"draining", "expired"} => r \in cancel
  /\ worker \in {"got", "running"} => lock = job \/ job \in cancel

AdmissionInv ==
  /\ IsFiniteSet(holding)
  /\ life = "stopping" => stops > 0
  /\ \A r \in Reqs : phase[r] = "new" => r \notin holding

LaneInv ==
  TypeOK /\ JobInv /\ WaitInv /\ LockedOnce /\ HeadOfLine /\ AdmissionInv /\ AdmissionExact
=============================================================================
