------------------------------ MODULE Scheduler ------------------------------
(***************************************************************************)
(* The continuous-batching scheduler (vllm_mlx/scheduler.py, class         *)
(* Scheduler).                                                             *)
(*                                                                         *)
(* Two threads call it.  The single "mlx-step" worker runs add_request and *)
(* step; the asyncio thread calls abort_request, record_disconnect_abort   *)
(* and remove_finished_request at any moment, also in the middle of a      *)
(* step.  A step is therefore several actions, ordered by the worker's     *)
(* program counter pc:                                                     *)
(*                                                                         *)
(*    idle -> aborts -> schedule -> generate -> idle                       *)
(*                          ^----------'  (recovery and retry)             *)
(*                                                                         *)
(* Request ids are fresh (EngineCore.add_request draws a uuid4), so a      *)
(* Request object and its id are the same value here.  The BatchGenerator  *)
(* is mlx-lm's: it is modelled by what the scheduler relies on.            *)
(***************************************************************************)
EXTENDS Integers, Sequences, FiniteSets, SequencesExt

CONSTANTS
  Reqs,          \* requests, each submitted at most once
  StopCfg,       \* [Reqs -> Cfgs]: (stop_token_ids, ignore_eos) of a request
  NoCfg,         \* no BatchGenerator is open
  StopStrings,   \* the requests that carry textual stop strings
  Prefill,       \* [Reqs -> Nat]: calls of next() a prompt takes to prefill
  MaxTokens,     \* sampling_params.max_tokens, the same for every request
  MaxNumSeqs,    \* config.max_num_seqs
  MaxConcurrent, \* config.max_concurrent_requests
  MaxRetries,    \* step(max_retries)
  InsertFaults,  \* what the generator's creation or insert() may raise
  NextFaults,    \* what BatchGenerator.next() may raise
  MaxFaults      \* bound on the faults of a behaviour

\* An Exception that is no TypeError, a TypeError that names the KV cache, and
\* any other TypeError: step tells these three apart.
FaultKinds == {"generation", "corruption", "typeerror"}

ASSUME SchedulerAssumption ==
  /\ NoCfg \notin {StopCfg[r] : r \in Reqs}
  /\ StopStrings \subseteq Reqs
  /\ Prefill \in [Reqs -> Nat]
  /\ {MaxTokens, MaxNumSeqs, MaxConcurrent} \subseteq Nat \ {0}
  /\ MaxRetries \in Nat /\ MaxFaults \in Nat
  /\ InsertFaults \subseteq FaultKinds /\ NextFaults \subseteq FaultKinds

VARIABLES
  requests,      \* dict requests: the ids it holds
  waiting,       \* deque waiting
  running,       \* dict running: the ids it holds
  status,        \* Request.status ("none": not yet submitted)
  out,           \* len(Request.output_token_ids)
  uidOf,         \* request_id_to_uid
  ridOf,         \* uid_to_request_id
  genCfg,        \* _current_sampler_params of the open generator, or NoCfg
  nextUid,       \* the generator's uid counter
  seqs,          \* the generator's sequences: uid -> [req, n, left]
  pending,       \* _pending_abort_ids
  cancelled,     \* _cancelled_request_ids
  disconnected,  \* _disconnect_abort_ids
  numCancelled,  \* num_requests_cancelled
  numDisconnect, \* num_requests_cancelled_via_disconnect
  pc,            \* where the worker is inside step()
  attempt,       \* the retry loop's variable
  outputs,       \* SchedulerOutput.outputs of the current or last step
  raised,        \* the last step ended with an exception
  faults         \* faults so far (bound)

queueVars  == <<requests, waiting, running, status, out>>
genVars    == <<uidOf, ridOf, genCfg, nextUid, seqs>>
abortVars  == <<pending, cancelled, disconnected, numCancelled, numDisconnect>>
stepVars   == <<pc, attempt, outputs, raised, faults>>
schedVars  == <<queueVars, genVars, abortVars, stepVars>>

-----------------------------------------------------------------------------
Statuses == {"none", "waiting", "running", "finished"}

Output == [req : Reqs, tok : Nat, fin : BOOLEAN,
           reason : {"none", "stop", "length"}, err : BOOLEAN]

Drop(f, D) == [x \in DOMAIN f \ D |-> f[x]]
Put(f, x, v) == [y \in DOMAIN f \cup {x} |-> IF y = x THEN v ELSE f[y]]
EmptyMap == <<>>

Waiting == ToSet(waiting)

\* Mutant: only the queue counts as work.
HasWaiting == waiting # <<>>

HasRequests == waiting # <<>> \/ running # {}

SchedInit ==
  /\ requests = {} /\ waiting = <<>> /\ running = {}
  /\ status = [r \in Reqs |-> "none"] /\ out = [r \in Reqs |-> 0]
  /\ uidOf = EmptyMap /\ ridOf = EmptyMap
  /\ genCfg = NoCfg /\ nextUid = 0 /\ seqs = EmptyMap
  /\ pending = {} /\ cancelled = {} /\ disconnected = {}
  /\ numCancelled = 0 /\ numDisconnect = 0
  /\ pc = "idle" /\ attempt = 0 /\ outputs = {} /\ raised = FALSE /\ faults = 0

-----------------------------------------------------------------------------
(* add_request, on the worker thread.                                      *)

\* The in-flight cap counts the requests dict only.
Full == Cardinality(requests) >= MaxConcurrent

Admit(r) ==
  /\ ~Full
  /\ requests' = requests \cup {r}
  /\ waiting' = Append(waiting, r)
  /\ status' = [status EXCEPT ![r] = "waiting"]
  /\ cancelled' = cancelled \ {r}
  /\ disconnected' = disconnected \ {r}
  /\ UNCHANGED <<running, out, genVars, pending, numCancelled, numDisconnect, stepVars>>

\* BackpressureError: nothing is recorded.
Refuse(r) == Full /\ UNCHANGED schedVars

-----------------------------------------------------------------------------
(* The three calls of the asyncio thread.                                  *)

Known(r) == r \in requests \/ r \in DOMAIN uidOf \/ r \in running \/ r \in pending

\* Mutant: every call counts.
Always(r, ledger) == 1

\* What a counter gains: its ledger lets every request count once.
Once(r, ledger) == IF r \in ledger THEN 0 ELSE 1

\* abort_request: queue the id and count it once.  Returns Known(r).
AbortRequest(r) ==
  /\ IF Known(r)
     THEN /\ pending' = pending \cup {r}
          /\ cancelled' = cancelled \cup {r}
          /\ numCancelled' = numCancelled + Once(r, cancelled)
     ELSE UNCHANGED <<pending, cancelled, numCancelled>>
  /\ UNCHANGED <<disconnected, numDisconnect>>

\* _force_abort_request: abort_request, and where that accepted the abort,
\* record_disconnect_abort, which attributes it to a disconnect once.
ForceAbort(r) ==
  IF Known(r)
  THEN /\ pending' = pending \cup {r}
       /\ cancelled' = cancelled \cup {r}
       /\ numCancelled' = numCancelled + Once(r, cancelled)
       /\ disconnected' = disconnected \cup {r}
       /\ numDisconnect' = numDisconnect + Once(r, disconnected)
  ELSE UNCHANGED abortVars

\* remove_finished_request: forget the request, keep both ledgers.
RemoveFinished(r) ==
  /\ requests' = requests \ {r}
  /\ UNCHANGED <<waiting, running, status, out>>

-----------------------------------------------------------------------------
(* step(): first the queued aborts, one at a time.                         *)

StepStart ==
  /\ pc = "idle" /\ HasRequests
  /\ pc' = "aborts" /\ attempt' = 0 /\ outputs' = {} /\ raised' = FALSE
  /\ UNCHANGED <<queueVars, genVars, abortVars, faults>>

\* Mutant: a request that was cleaned up first is not looked for in the queue.
UnqueuedIfKnown(r) ==
  IF r \in requests /\ status[r] = "waiting" THEN RemoveFirst(waiting, r) ELSE waiting

\* A request whose entry is already gone from requests is still looked for.
Unqueued(r) ==
  IF r \in requests /\ status[r] # "waiting" THEN waiting ELSE RemoveFirst(waiting, r)

\* _do_abort_request: out of the queue, the generator and the running map; no
\* output is produced.
DoAbort(r) ==
  /\ pc = "aborts" /\ r \in pending
  /\ pending' = pending \ {r}
  /\ waiting' = Unqueued(r)
  /\ LET uids == IF r \in DOMAIN uidOf THEN {uidOf[r]} ELSE {}
     IN  /\ seqs' = Drop(seqs, uids)
         /\ ridOf' = Drop(ridOf, uids)
         /\ uidOf' = Drop(uidOf, {r})
  /\ running' = running \ {r}
  /\ status' = IF r \in requests THEN [status EXCEPT ![r] = "finished"] ELSE status
  /\ UNCHANGED <<requests, out, genCfg, nextUid, cancelled, disconnected,
                 numCancelled, numDisconnect, stepVars>>

AbortsDone ==
  /\ pc = "aborts" /\ pending = {}
  /\ pc' = "schedule"
  /\ UNCHANGED <<queueVars, genVars, abortVars, attempt, outputs, raised, faults>>

-----------------------------------------------------------------------------
(* _schedule_waiting: one iteration of its loop per action.                *)

CanSchedule == pc = "schedule" /\ waiting # <<>> /\ Cardinality(running) < MaxNumSeqs

\* Mutant: the generator is replaced under the running requests.
NeverIncompatible(r) == FALSE

\* _ensure_batch_generator refuses while the open generator, with other stop
\* tokens, still has running requests.
Incompatible(r) == genCfg # NoCfg /\ genCfg # StopCfg[r] /\ running # {}

\* It opens a new generator, without sequences, when the stop tokens differ.
Reopened(r) == genCfg # StopCfg[r]

ScheduleHead ==
  /\ CanSchedule
  /\ LET r   == Head(waiting)
         old == IF Reopened(r) THEN EmptyMap ELSE seqs
         uid == IF Reopened(r) THEN 0 ELSE nextUid
     IN  /\ ~Incompatible(r)
         /\ waiting' = Tail(waiting)
         /\ genCfg' = StopCfg[r]
         /\ nextUid' = uid + 1
         /\ seqs' = Put(old, uid, [req |-> r, n |-> 0, left |-> Prefill[r]])
         /\ uidOf' = Put(uidOf, r, uid)
         /\ ridOf' = Put(ridOf, uid, r)
         /\ status' = [status EXCEPT ![r] = "running"]
         /\ running' = running \cup {r}
  /\ UNCHANGED <<requests, out, abortVars, stepVars>>

\* The loop ends: nothing waits, the batch is full, or the head was put back.
ScheduleEnd ==
  /\ pc = "schedule"
  /\ CanSchedule => Incompatible(Head(waiting))
  /\ pc' = "generate"
  /\ UNCHANGED <<queueVars, genVars, abortVars, attempt, outputs, raised, faults>>

-----------------------------------------------------------------------------
(* The exception handlers of step().                                       *)

\* Mutant: the uid maps outlive the generator.
CloseLeavesMaps ==
  genCfg' = NoCfg /\ nextUid' = 0 /\ seqs' = EmptyMap /\ UNCHANGED <<uidOf, ridOf>>

\* _close_batch_generator, and both uid maps cleared.
CloseGenerator ==
  /\ genCfg' = NoCfg /\ nextUid' = 0 /\ seqs' = EmptyMap
  /\ uidOf' = EmptyMap /\ ridOf' = EmptyMap

\* Mutant: a finish reason the clients do not know.
AbortedAsAbort(r) ==
  [req |-> r, tok |-> 0, fin |-> TRUE, reason |-> "abort", err |-> FALSE]

AbortedOutput(r) ==
  [req |-> r, tok |-> 0, fin |-> TRUE, reason |-> "length", err |-> FALSE]

\* _recover_from_generation_error: every running request is aborted and gets a
\* final output; queue is what the waiting queue is by then.
AbortRunning(queue) ==
  /\ CloseGenerator
  /\ waiting' = queue /\ running' = {}
  /\ status' = [r \in Reqs |-> IF r \in running THEN "finished" ELSE status[r]]
  /\ outputs' = {AbortedOutput(r) : r \in running}
  /\ pc' = "idle"
  /\ UNCHANGED <<attempt, raised>>

\* _recover_from_cache_error and _reschedule_running_requests: every running
\* request goes back to the front of the queue (reversed dict order there, any order here).
RequeuesAll(S) ==  \* Mutant: every known request is requeued, running or not.
  {s \in [1..Cardinality(requests) -> requests] : IsInjective(s) /\ ToSet(s) = requests}

InSomeOrder(S) ==
  {s \in [1..Cardinality(S) -> S] : IsInjective(s) /\ ToSet(s) = S}

\* Mutant: they go to the back of the queue.
RetryBehind(queue) ==
  /\ CloseGenerator
  /\ \E s \in InSomeOrder(running) : waiting' = queue \o s
  /\ running' = {}
  /\ status' = [r \in Reqs |-> IF r \in running THEN "waiting" ELSE status[r]]
  /\ pc' = "schedule" /\ attempt' = attempt + 1
  /\ UNCHANGED <<outputs, raised>>

RetryRunning(queue) ==
  /\ CloseGenerator
  /\ \E s \in InSomeOrder(running) : waiting' = s \o queue
  /\ running' = {}
  /\ status' = [r \in Reqs |-> IF r \in running THEN "waiting" ELSE status[r]]
  /\ pc' = "schedule" /\ attempt' = attempt + 1
  /\ UNCHANGED <<outputs, raised>>

\* step() lets the exception through to the engine loop.
Propagate(queue) ==
  /\ waiting' = queue
  /\ pc' = "idle" /\ raised' = TRUE /\ outputs' = {}
  /\ UNCHANGED <<running, status, attempt>>

Handle(kind, queue) ==
  \/ kind = "generation" /\ AbortRunning(queue)
  \/ kind = "corruption" /\ attempt < MaxRetries /\ RetryRunning(queue)

Fault ==
  /\ faults < MaxFaults
  /\ faults' = faults + 1
  /\ UNCHANGED <<requests, out, abortVars>>

\* Not handled: any other TypeError, and corruption on the last attempt.
Propagates(kind) ==
  kind = "typeerror" \/ (kind = "corruption" /\ attempt = MaxRetries)

\* The generator's creation or the insert of the head raises.  The head has
\* been taken off the queue by then and nothing puts it back.
InsertFails ==
  /\ CanSchedule /\ ~Incompatible(Head(waiting)) /\ Fault
  /\ \E kind \in InsertFaults :
       \/ Handle(kind, Tail(waiting))
       \/ /\ Propagates(kind)
          /\ Propagate(Tail(waiting))
          /\ UNCHANGED <<uidOf, ridOf>>
          /\ IF Reopened(Head(waiting))
             THEN /\ genCfg' \in {NoCfg, StopCfg[Head(waiting)]}
                  /\ seqs' = EmptyMap /\ nextUid' = 0
             ELSE UNCHANGED <<genCfg, nextUid, seqs>>

-----------------------------------------------------------------------------
(* One call of next() and _process_batch_responses, _cleanup_finished.     *)

CanGenerate == pc = "generate" /\ genCfg # NoCfg /\ running # {}

NextFails ==
  /\ CanGenerate /\ Fault
  /\ \E kind \in NextFaults :
       \/ Handle(kind, waiting)
       \/ Propagates(kind) /\ Propagate(waiting) /\ UNCHANGED genVars

\* Every sequence advances: a prompt by one prefill call, any other by one
\* token, which ends it at an end-of-sequence token or at max_tokens.
Ends(u, eos) == seqs[u].left = 0 /\ (u \in eos \/ seqs[u].n + 1 >= MaxTokens)

Advance(eos) ==
  [u \in {v \in DOMAIN seqs : ~Ends(v, eos)} |->
     IF seqs[u].left > 0 THEN [seqs[u] EXCEPT !.left = @ - 1]
                         ELSE [seqs[u] EXCEPT !.n = @ + 1]]

\* Mutant: a prompt that is still prefilled is answered too.
ResponsesToPrompts == {u \in DOMAIN seqs \cap DOMAIN ridOf : ridOf[u] \in running}

\* The responses the scheduler looks at: of sequences it still has a request for.
Responses == {u \in DOMAIN seqs \cap DOMAIN ridOf :
                seqs[u].left = 0 /\ ridOf[u] \in running}

\* match: the sequences whose text now contains a stop string.  The scheduler
\* finishes such a request itself; the generator keeps the sequence.
Generate ==
  /\ CanGenerate
  /\ \E eos \in SUBSET DOMAIN seqs :
     \E match \in SUBSET {u \in Responses : ridOf[u] \in StopStrings /\ ~Ends(u, eos)} :
       LET FinOf(u) == Ends(u, eos) \/ u \in match
           done == {ridOf[u] : u \in {v \in Responses : FinOf(v)}}
       IN  /\ \A u \in eos : seqs[u].left = 0
           /\ seqs' = Advance(eos)
           /\ outputs' = {[req |-> ridOf[u], tok |-> seqs[u].n + 1, fin |-> FinOf(u),
                           reason |-> IF ~FinOf(u) THEN "none"
                                      ELSE IF u \in eos \cup match THEN "stop" ELSE "length",
                           err |-> FALSE] : u \in Responses}
           /\ out' = [r \in Reqs |->
                        IF \E u \in Responses : ridOf[u] = r THEN out[r] + 1 ELSE out[r]]
           /\ status' = [r \in Reqs |-> IF r \in done THEN "finished" ELSE status[r]]
           /\ running' = running \ done
           /\ ridOf' = Drop(ridOf, {u \in DOMAIN ridOf : ridOf[u] \in done})
           /\ uidOf' = Drop(uidOf, done)
  /\ pc' = "idle"
  /\ UNCHANGED <<requests, waiting, genCfg, nextUid, abortVars, attempt, raised, faults>>

\* No generator, or nothing running: the step ends without output.
NothingToDo ==
  /\ pc = "generate" /\ ~CanGenerate
  /\ pc' = "idle"
  /\ UNCHANGED <<queueVars, genVars, abortVars, attempt, outputs, raised, faults>>

\* What the worker does inside a step.
Work ==
  \/ \E r \in Reqs : DoAbort(r)
  \/ AbortsDone \/ ScheduleHead \/ ScheduleEnd \/ InsertFails
  \/ NextFails \/ Generate \/ NothingToDo

-----------------------------------------------------------------------------
(* The scheduler under any client of its interface.                        *)

AddCall(r) == pc = "idle" /\ status[r] = "none" /\ Admit(r)
AbortCall(r) == AbortRequest(r) /\ UNCHANGED <<queueVars, genVars, stepVars>>
DisconnectCall(r) == ForceAbort(r) /\ UNCHANGED <<queueVars, genVars, stepVars>>
RemoveCall(r) == r \in requests /\ RemoveFinished(r) /\ UNCHANGED <<genVars, abortVars, stepVars>>

SchedNext ==
  \/ StepStart \/ Work
  \/ \E r \in Reqs : AddCall(r) \/ AbortCall(r) \/ DisconnectCall(r) \/ RemoveCall(r)

SchedSpec == SchedInit /\ [][SchedNext]_schedVars

-----------------------------------------------------------------------------
(* Properties.                                                             *)

SeqRecord == [req : Reqs, n : Nat, left : Nat]

\* Every variable holds what its dict, deque, set or counter can hold.
SchedTypeOK ==
  /\ requests \subseteq Reqs
  /\ waiting \in Seq(Reqs) /\ running \subseteq Reqs
  /\ status \in [Reqs -> Statuses] /\ out \in [Reqs -> Nat]
  /\ DOMAIN uidOf \subseteq Reqs /\ \A r \in DOMAIN uidOf : uidOf[r] \in Nat
  /\ DOMAIN ridOf \subseteq Nat /\ \A u \in DOMAIN ridOf : ridOf[u] \in Reqs
  /\ genCfg \in {StopCfg[r] : r \in Reqs} \cup {NoCfg} /\ nextUid \in Nat
  /\ DOMAIN seqs \subseteq Nat /\ \A u \in DOMAIN seqs : seqs[u] \in SeqRecord
  /\ pending \subseteq Reqs /\ cancelled \subseteq Reqs /\ disconnected \subseteq Reqs
  /\ numCancelled \in Nat /\ numDisconnect \in Nat
  /\ pc \in {"idle", "aborts", "schedule", "generate"}
  /\ attempt \in 0..MaxRetries /\ outputs \subseteq Output
  /\ raised \in BOOLEAN /\ faults \in 0..MaxFaults

\* A request has one place: at most once in the queue, at most once in the
\* running map, never in both, and its status says which (step, the recovery
\* paths and the aborts all move requests between the two).
OnePlace ==
  /\ IsInjective(waiting)
  /\ Waiting \cap running = {}
  /\ \A r \in Waiting : status[r] = "waiting"
  /\ \A r \in running : status[r] = "running"

\* The running map never grows past max_num_seqs, whatever is retried,
\* rescheduled or aborted.
BatchBound == Cardinality(running) <= MaxNumSeqs

\* The two uid maps are inverse to each other and cover exactly the running
\* requests: a response is never looked up under a stale or foreign uid.
UidMaps ==
  /\ DOMAIN uidOf = running
  /\ \A r \in DOMAIN uidOf : uidOf[r] \in DOMAIN ridOf /\ ridOf[uidOf[r]] = r
  /\ \A u \in DOMAIN ridOf : ridOf[u] \in DOMAIN uidOf /\ uidOf[ridOf[u]] = u

\* A mapped uid names a sequence of the open generator that was inserted for
\* the very request it is mapped to: no token reaches another request, also
\* after the generator was reopened and its uids restarted.
TokenOwner ==
  \A u \in DOMAIN ridOf : u \in DOMAIN seqs /\ seqs[u].req = ridOf[u]

\* Every running request decodes under a generator built for its own stop
\* tokens (_ensure_batch_generator refuses anything else).
OwnStopTokens == \A r \in running : genCfg = StopCfg[r]

\* The uid counter is ahead of every sequence of the (external) generator.
UidsFresh == \A u \in DOMAIN seqs : u < nextUid

SchedInv ==
  /\ SchedTypeOK /\ OnePlace /\ BatchBound /\ UidMaps
  /\ TokenOwner /\ OwnStopTokens /\ UidsFresh /\ IsFiniteSet(running)

\* A cancelled request is out of the queue and of the batch as soon as its abort is
\* no longer pending, also when it was cleaned up, rescheduled or put back meanwhile.
CancelledIsGone == \A r \in cancelled \ pending : r \notin Waiting \cup running

\* Once a submitted request has left both the queue and the running map it
\* never enters either again: an aborted or finished request is not revived by
\* a retry, a requeue or a reschedule.
GoneForGood ==
  [][\A r \in Reqs : status[r] # "none" /\ r \notin Waiting \cup running
                       => r \notin (Waiting \cup running)']_schedVars

\* r is in the batch, or before q in the queue.
Ahead(r, q) ==
  \/ r \in running
  \/ \E i, j \in DOMAIN waiting : i < j /\ waiting[i] = r /\ waiting[j] = q

\* "Waiting queue (FCFS)": while both are in the scheduler, a request that came
\* later is never let in front of an earlier one, whether that is put back as
\* the batch must drain, sent back by a recovery, or has others aborted before it.
FirstComeFirstServed ==
  [][\A r, q \in Reqs :
       q \in Waiting \ {r} /\ Ahead(r, q) /\ {r, q} \subseteq (Waiting \cup running)'
         => Ahead(r, q)']_schedVars

\* A request is counted as cancelled at most once, however many of the
\* disconnect guard's branches abort it and however they interleave with the
\* clean-up, and the disconnects never outnumber the cancellations.
Submitted == {r \in Reqs : status[r] # "none"}

CountedOnce ==
  /\ numCancelled <= Cardinality(Submitted)
  /\ numDisconnect <= numCancelled

\* Why: each counter is the size of its ledger, and the ledgers name submitted
\* requests only.
LedgerInv ==
  /\ IsFiniteSet(Submitted) /\ requests \cup pending \cup cancelled \subseteq Submitted
  /\ disconnected \subseteq cancelled
  /\ numCancelled = Cardinality(cancelled) /\ numDisconnect = Cardinality(disconnected)

\* A step's output for a request carries its next token: tokens are numbered
\* without a gap, and nothing follows the final output.
TokensInOrder ==
  [][\A o \in outputs' \ outputs :
       /\ status[o.req] = "running"
       /\ o.tok # 0 => o.tok = out[o.req] + 1
       /\ o.fin = (status'[o.req] = "finished")]_schedVars
=============================================================================
