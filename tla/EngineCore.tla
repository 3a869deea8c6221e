----------------------------- MODULE EngineCore -----------------------------
(***************************************************************************)
(* The engine (vllm_mlx/engine_core.py, class EngineCore) around the       *)
(* scheduler: the asyncio thread runs the engine loop and one coroutine    *)
(* per client call, the single "mlx-step" worker runs the jobs it is       *)
(* handed, in order: scheduler.add_request and scheduler.step.             *)
(*                                                                         *)
(* A client call is generate() or stream_outputs() as the routes use them: *)
(* BatchedEngine.stream_generate under the disconnect guard for a stream.  *)
(* Each await of a coroutine is a point between two actions; what runs     *)
(* between two awaits on the asyncio thread is one action.                 *)
(***************************************************************************)
EXTENDS Scheduler

CONSTANTS
  Streams,       \* the requests served by stream_outputs; generate otherwise
  Impatient,     \* the clients that may go away before their answer is complete
  CancelRoute    \* the requests the cancel route may be called for

ASSUME EngineAssumption ==
  Streams \subseteq Reqs /\ Impatient \subseteq Reqs /\ CancelRoute \subseteq Reqs

VARIABLES
  client,        \* where the coroutine of a call stands
  jobs,          \* the worker's queue of jobs
  future,        \* state of the add job's concurrent future
  orphans,       \* add calls whose _on_executor_done callback is registered
  callbacks,     \* _cleanup_request_safe calls posted to the asyncio thread
  tracked,       \* keys of _output_collectors, _finished_events, _stream_states
  slot,          \* RequestOutputCollector.output, <<>> when None
  finishedEvent, \* the finished events that are set
  delivered,     \* the tokens a client has received
  verdict,       \* how its call ended: "none", or what it was told
  loop,          \* where _engine_loop stands
  idleEvent,     \* _idle_event is set
  failed         \* the calls the loop's except clause put an error for

engineVars == <<client, jobs, future, orphans, callbacks, tracked, slot,
                finishedEvent, delivered, verdict, loop, idleEvent, failed>>
vars == <<schedVars, engineVars>>

-----------------------------------------------------------------------------
Step == [kind |-> "step"]
Add(r) == [kind |-> "add", req |-> r]
WorkerFree ==
  /\ pc = "idle" /\ \A r \in Reqs : future[r] # "running"
  /\ \A r \in orphans : future[r] \notin {"done", "refused"}

\* A buffered output: the new tokens (new_token_ids), all tokens so far
\* (output_token_ids) and the status.
Fresh(o) == [new |-> IF o.tok = 0 THEN <<>> ELSE <<o.tok>>,
             all |-> [i \in 1..o.tok |-> i],
             fin |-> o.fin, reason |-> o.reason, err |-> o.err]
ErrorOutput == [new |-> <<>>, all |-> <<>>, fin |-> TRUE, reason |-> "length", err |-> TRUE]

\* _merge_outputs: new tokens are concatenated, the rest is the newer output's,
\* except error, which the merged output is built without.
MergeForgets(old, o) == o  \* Mutant: the tokens not yet taken are dropped.

Merge(old, o) == [o EXCEPT !.new = old.new \o o.new, !.err = FALSE]

PutIfEmpty(buf, o) == IF buf = <<>> THEN o ELSE buf  \* Mutant: a full slot keeps its output.

PutOutput(buf, o) == IF buf = <<>> THEN o ELSE Merge(buf, o)

Init ==
  /\ SchedInit
  /\ client = [r \in Reqs |-> "new"] /\ jobs = <<>>
  /\ future = [r \in Reqs |-> "none"] /\ orphans = {} /\ callbacks = {}
  /\ tracked = {} /\ slot = [r \in Reqs |-> <<>>] /\ finishedEvent = {}
  /\ delivered = [r \in Reqs |-> <<>>] /\ verdict = [r \in Reqs |-> "none"]
  /\ loop = "check" /\ idleEvent = FALSE /\ failed = {}

\* Mutant: the scheduler is not told.
CleanupEngineOnly(r) ==
  /\ tracked' = tracked \ {r}
  /\ slot' = IF r \in tracked THEN [slot EXCEPT ![r] = <<>>] ELSE slot
  /\ UNCHANGED queueVars

\* _cleanup_request: every per-request dict entry goes, the collector is
\* cleared, and the scheduler forgets the request.  An event somebody waits
\* for keeps its state.
Cleanup(r) ==
  /\ tracked' = tracked \ {r}
  /\ slot' = IF r \in tracked THEN [slot EXCEPT ![r] = <<>>] ELSE slot
  /\ RemoveFinished(r)

WakeNothing == UNCHANGED idleEvent  \* Mutant: the loop is not woken.

\* _idle_event.set()
Wake == idleEvent' = TRUE

-----------------------------------------------------------------------------
(* EngineCore.add_request.                                                 *)

\* Collector, stream state and event are allocated, then the job is submitted.
Submit(r) ==
  /\ client[r] = "new"
  /\ client' = [client EXCEPT ![r] = "adding"]
  /\ tracked' = tracked \cup {r}
  /\ jobs' = Append(jobs, Add(r))
  /\ future' = [future EXCEPT ![r] = "queued"]
  /\ UNCHANGED <<schedVars, orphans, callbacks, slot, finishedEvent, delivered,
                 verdict, loop, idleEvent, failed>>

\* The worker takes the job: from here on the future cannot be cancelled.
AddBegins(r) ==
  /\ WorkerFree /\ jobs # <<>> /\ Head(jobs) = Add(r)
  /\ jobs' = Tail(jobs)
  /\ future' = [future EXCEPT ![r] = "running"]
  /\ UNCHANGED <<schedVars, client, orphans, callbacks, tracked, slot,
                 finishedEvent, delivered, verdict, loop, idleEvent, failed>>

\* scheduler.add_request returns or raises BackpressureError.
AddEnds(r) ==
  /\ future[r] = "running"
  /\ \/ Admit(r) /\ future' = [future EXCEPT ![r] = "done"]
     \/ Refuse(r) /\ future' = [future EXCEPT ![r] = "refused"]
  /\ UNCHANGED <<client, jobs, orphans, callbacks, tracked, slot, finishedEvent,
                 delivered, verdict, loop, idleEvent, failed>>

\* add_request resumes: the loop is woken and the caller waits for its output.
AddReturns(r) ==
  /\ client[r] = "adding" /\ future[r] = "done"
  /\ client' = [client EXCEPT ![r] = "serving"]
  /\ Wake
  /\ UNCHANGED <<schedVars, jobs, future, orphans, callbacks, tracked, slot,
                 finishedEvent, delivered, verdict, loop, failed>>

\* The call fails, or is cancelled, inside add_request.  A queued job is
\* cancelled with it; a finished one runs _on_executor_done at once; else the
\* callback is registered with the future.
AddFails(r) ==
  /\ client[r] = "adding"
  /\ \/ future[r] = "refused" /\ verdict' = [verdict EXCEPT ![r] = "refused"]
     \/ r \in Impatient /\ verdict' = [verdict EXCEPT ![r] = "gone"]
  /\ client' = [client EXCEPT ![r] = "over"]
  /\ \/ /\ future[r] = "queued"
        /\ jobs' = RemoveFirst(jobs, Add(r))
        /\ future' = [future EXCEPT ![r] = "cancelled"]
        /\ callbacks' = callbacks \cup {r}
        /\ UNCHANGED <<orphans, abortVars>>
     \/ /\ future[r] = "running"
        /\ orphans' = orphans \cup {r}
        /\ UNCHANGED <<jobs, future, callbacks, abortVars>>
     \/ /\ future[r] \in {"done", "refused"}
        /\ AbortRequest(r)
        /\ callbacks' = callbacks \cup {r}
        /\ UNCHANGED <<jobs, future, orphans>>
  /\ UNCHANGED <<queueVars, genVars, stepVars, tracked, slot, finishedEvent,
                 delivered, loop, idleEvent, failed>>

\* _on_executor_done on the worker thread, after the job it is attached to.
OrphanDone(r) ==
  /\ r \in orphans /\ future[r] \in {"done", "refused"}
  /\ orphans' = orphans \ {r}
  /\ callbacks' = callbacks \cup {r}
  /\ AbortRequest(r)
  /\ UNCHANGED <<queueVars, genVars, stepVars, client, jobs, future, tracked, slot,
                 finishedEvent, delivered, verdict, loop, idleEvent, failed>>

\* _cleanup_request_safe on the asyncio thread.
CleanupSafe(r) ==
  /\ r \in callbacks
  /\ callbacks' = callbacks \ {r}
  /\ Cleanup(r)
  /\ Wake
  /\ UNCHANGED <<finishedEvent, genVars, abortVars, stepVars, client, jobs, future, orphans,
                 delivered, verdict, loop, failed>>

-----------------------------------------------------------------------------
(* _engine_loop.                                                           *)

LoopCheck ==
  /\ loop = "check"
  /\ IF HasRequests THEN loop' = "submitted" /\ jobs' = Append(jobs, Step)
                    ELSE loop' = "idle" /\ UNCHANGED jobs
  /\ UNCHANGED <<schedVars, client, future, orphans, callbacks, tracked, slot,
                 finishedEvent, delivered, verdict, idleEvent, failed>>

\* The wait ends by the event or by its timeout; either way it is cleared.
LoopWake ==
  /\ loop = "idle"
  /\ loop' = "check" /\ idleEvent' = FALSE
  /\ UNCHANGED <<schedVars, client, jobs, future, orphans, callbacks, tracked,
                 slot, finishedEvent, delivered, verdict, failed>>

\* The worker takes the step job.  Aborts are drained even where nothing is
\* left to run.
StepBegins ==
  /\ WorkerFree /\ jobs # <<>> /\ Head(jobs) = Step
  /\ jobs' = Tail(jobs)
  /\ pc' = "aborts" /\ attempt' = 0 /\ outputs' = {} /\ raised' = FALSE
  /\ loop' = "stepping"
  /\ UNCHANGED <<queueVars, genVars, abortVars, faults, client, future, orphans,
                 callbacks, tracked, slot, finishedEvent, delivered, verdict,
                 idleEvent, failed>>

Working == Work /\ UNCHANGED engineVars

\* asyncio runs what is ready in order: a coroutine whose add job or finished
\* event is done resumes before the loop resumes from a later step.  A stream is
\* not among these, its consumer may be held up by a slow client.
Ready(r) ==
  \/ client[r] = "adding" /\ future[r] \in {"done", "refused"}
  \/ client[r] = "serving" /\ r \notin Streams /\ r \in finishedEvent

StepReturned == loop = "stepping" /\ pc = "idle" /\ \A r \in Reqs : ~Ready(r)

\* The step returned: its outputs go to the collectors still tracked.
Distribute ==
  /\ StepReturned /\ ~raised
  /\ LET live == {o \in outputs : o.req \in tracked}
         For(r) == CHOOSE o \in live : o.req = r
     IN  /\ slot' = [r \in Reqs |-> IF \E o \in live : o.req = r
                                    THEN PutOutput(slot[r], Fresh(For(r)))
                                    ELSE slot[r]]
         /\ finishedEvent' = finishedEvent \cup {o.req : o \in {p \in live : p.fin}}
  /\ loop' = "check"
  /\ UNCHANGED <<schedVars, client, jobs, future, orphans, callbacks, tracked,
                 delivered, verdict, idleEvent, failed>>

\* The step raised: every tracked call gets an error output and is released.
FailAll ==
  /\ StepReturned /\ raised
  /\ slot' = [r \in Reqs |->
                IF r \in tracked
                THEN PutOutput(slot[r], ErrorOutput) ELSE slot[r]]
  /\ finishedEvent' = finishedEvent \cup tracked
  /\ failed' = failed \cup tracked
  /\ loop' = "check"
  /\ UNCHANGED <<schedVars, client, jobs, future, orphans, callbacks, tracked,
                 delivered, verdict, idleEvent>>

-----------------------------------------------------------------------------
(* The consumers.                                                          *)

Ended(o) == IF o.err THEN "error" ELSE o.reason

\* stream_outputs takes the buffered output.  An error is raised to the caller,
\* anything else is yielded; a final one is the last.
StreamTakes(r) ==
  /\ r \in Streams /\ client[r] = "serving" /\ slot[r] # <<>>
  /\ delivered' = IF slot[r].err THEN delivered
                  ELSE [delivered EXCEPT ![r] = @ \o slot[r].new]
  /\ IF slot[r].fin
     THEN /\ verdict' = [verdict EXCEPT ![r] = Ended(slot[r])]
          /\ client' = [client EXCEPT ![r] = IF slot[r].err THEN "closing" ELSE "ending"]
     ELSE UNCHANGED <<verdict, client>>
  /\ slot' = [slot EXCEPT ![r] = <<>>]
  /\ UNCHANGED <<schedVars, jobs, future, orphans, callbacks, tracked,
                 finishedEvent, loop, idleEvent, failed>>

\* A stream that finished normally is cleaned up without an abort of its own;
\* stream_generate's finally then asks for one and cleans up again.
StreamEnds(r) ==
  /\ client[r] = "ending"
  /\ client' = [client EXCEPT ![r] = "last"]
  /\ Cleanup(r)
  /\ UNCHANGED <<finishedEvent, genVars, abortVars, stepVars, jobs, future, orphans, callbacks,
                 delivered, verdict, loop, idleEvent, failed>>

\* The client disconnects: the guard aborts by force, then closes the stream.
Disconnect(r) ==
  /\ r \in Streams \cap Impatient /\ client[r] \in {"serving", "ending"}
  /\ client' = [client EXCEPT ![r] = "dropped"]
  /\ verdict' = [verdict EXCEPT ![r] = IF @ = "none" THEN "gone" ELSE @]
  /\ ForceAbort(r)
  /\ UNCHANGED <<queueVars, genVars, stepVars, jobs, future, orphans, callbacks,
                 tracked, slot, finishedEvent, delivered, loop, idleEvent, failed>>

\* stream_outputs' finally of a stream that did not finish: abort, clean up.
StreamCloses(r) ==
  /\ client[r] \in {"closing", "dropped"}
  /\ client' = [client EXCEPT ![r] = "unclean"]
  /\ AbortRequest(r)
  /\ Cleanup(r)
  /\ UNCHANGED <<finishedEvent, genVars, stepVars, jobs, future, orphans, callbacks, delivered,
                 verdict, loop, idleEvent, failed>>

\* The finally of stream_generate: abort and clean up once more.  The guard's
\* own finally aborts by force, unless the stream was exhausted or the route
\* turned the error into a last chunk.
StreamGone(r) ==
  /\ client[r] \in {"last", "unclean"}
  /\ client' = [client EXCEPT ![r] = "over"]
  /\ \/ AbortRequest(r) /\ (client[r] = "last" \/ verdict[r] = "error")
     \/ ForceAbort(r) /\ client[r] = "unclean"
  /\ Cleanup(r)
  /\ UNCHANGED <<finishedEvent, genVars, stepVars, jobs, future, orphans, callbacks,
                 delivered, verdict, loop, idleEvent, failed>>

\* generate() wakes on the event and drains the collector, which holds one
\* merged output.  Its finally cleans up; an error is raised without an abort.
GenerateEnds(r) ==
  /\ r \notin Streams /\ client[r] = "serving" /\ r \in finishedEvent
  /\ IF slot[r] = <<>>
     THEN verdict' = [verdict EXCEPT ![r] = "error"] /\ UNCHANGED delivered
     ELSE /\ verdict' = [verdict EXCEPT ![r] = Ended(slot[r])]
          /\ delivered' = IF slot[r].err THEN delivered
                          ELSE [delivered EXCEPT ![r] = slot[r].all]
  /\ client' = [client EXCEPT ![r] = "over"]
  /\ Cleanup(r)
  /\ UNCHANGED <<finishedEvent, genVars, abortVars, stepVars, jobs, future, orphans, callbacks,
                 loop, idleEvent, failed>>

\* generate() is cancelled (client gone or the route's timeout).
GenerateCancelled(r) ==
  /\ r \in Impatient \ Streams /\ client[r] = "serving"
  /\ client' = [client EXCEPT ![r] = "over"]
  /\ verdict' = [verdict EXCEPT ![r] = "gone"]
  /\ AbortRequest(r)
  /\ Cleanup(r)
  /\ UNCHANGED <<finishedEvent, genVars, stepVars, jobs, future, orphans, callbacks, delivered,
                 loop, idleEvent, failed>>

\* POST /v1/requests/{id}/cancel: EngineCore.abort_request from another call.
Cancel(r) ==
  /\ r \in CancelRoute /\ client[r] = "serving" /\ r \in tracked
  /\ AbortRequest(r)
  /\ Cleanup(r)
  /\ UNCHANGED <<finishedEvent, genVars, stepVars, client, jobs, future, orphans, callbacks,
                 delivered, verdict, loop, idleEvent, failed>>

-----------------------------------------------------------------------------
Call(r) ==
  \/ Submit(r) \/ AddReturns(r) \/ AddFails(r) \/ CleanupSafe(r)
  \/ StreamTakes(r) \/ StreamEnds(r) \/ Disconnect(r) \/ StreamCloses(r)
  \/ StreamGone(r) \/ GenerateEnds(r) \/ GenerateCancelled(r) \/ Cancel(r)

EngineLoop == LoopCheck \/ LoopWake \/ Distribute \/ FailAll

Worker ==
  \/ StepBegins \/ Working
  \/ \E r \in Reqs : AddBegins(r) \/ AddEnds(r) \/ OrphanDone(r)

Next == Worker \/ EngineLoop \/ \E r \in Reqs : Call(r)

Spec == Init /\ [][Next]_vars

\* The worker and the loop run on, and asyncio resumes a coroutine whose await
\* is over.  No client has to leave, and none has to call the cancel route.
Resumes(r) ==
  \/ AddReturns(r) \/ (AddFails(r) /\ future[r] = "refused") \/ CleanupSafe(r)
  \/ StreamTakes(r) \/ StreamEnds(r) \/ StreamCloses(r) \/ StreamGone(r)
  \/ GenerateEnds(r)

FairSpec ==
  /\ Spec /\ WF_vars(Worker) /\ WF_vars(EngineLoop)
  /\ \A r \in Reqs : WF_vars(Resumes(r))
-----------------------------------------------------------------------------
(* Properties.                                                             *)

EngineTypeOK ==
  /\ SchedTypeOK
  /\ client \in [Reqs -> {"new", "adding", "serving", "ending", "closing", "dropped",
                          "last", "unclean", "over"}]
  /\ future \in [Reqs -> {"none", "queued", "running", "done", "refused", "cancelled"}]
  /\ ToSet(jobs) \subseteq {Step} \cup {Add(r) : r \in Reqs}
  /\ orphans \subseteq Reqs /\ callbacks \subseteq Reqs /\ tracked \subseteq Reqs
  /\ finishedEvent \subseteq Reqs /\ failed \subseteq Reqs
  /\ verdict \in [Reqs -> {"none", "stop", "length", "error", "refused", "gone"}]
  /\ loop \in {"check", "submitted", "stepping", "idle"} /\ idleEvent \in BOOLEAN

\* A failed call that cleans up without an abort: a generate() always, a stream
\* where the error was merged into an output its client had not taken yet.
EndsUnaborted(r) == r \in failed /\ (r \notin Streams \/ verdict[r] = "length")

\* A call that is over leaves no request decoding for nobody: it is out of the
\* scheduler or its abort is queued, or the callback that will queue it is still
\* registered (the zombie of F-012).  The exception is a call the loop has failed
\* and that ends without an abort: its request decodes on.
NoZombie ==
  \A r \in Reqs :
    client[r] = "over" /\ ~EndsUnaborted(r) =>
      r \notin Waiting \cup running \/ r \in pending \cup orphans

\* Nothing stays behind a call that is over: neither an entry of the engine's
\* dicts nor the scheduler's, which would count against the in-flight cap.
NothingLeaks ==
  \A r \in Reqs : client[r] = "over" /\ r \notin orphans \cup callbacks =>
                    r \notin tracked \cup requests

\* While the loop waits on the idle event with work in the scheduler, the event
\* is set or a coroutine is about to set it: no wake-up is lost.
NoLostWakeup ==
  loop = "idle" /\ HasRequests =>
    \/ idleEvent \/ callbacks # {} \/ orphans # {}
    \/ \E r \in Reqs : client[r] = "adding" /\ future[r] = "done"

\* The client's view: every token once, in order, and a truthful end.
Contract == INSTANCE ClientContract WITH
              Reqs <- Reqs, MaxTokens <- MaxTokens, delivered <- delivered, verdict <- verdict
ContractHolds == Contract!Spec

\* Every call that was submitted ends.
EveryCallEnds == \A r \in Reqs : client[r] = "adding" ~> client[r] = "over"

\* A queued abort takes the request out of the batch: it does not decode on.
AbortTakesEffect ==
  \A r \in Reqs : r \in pending /\ r \in Waiting \cup running ~> r \notin Waiting \cup running
=============================================================================
