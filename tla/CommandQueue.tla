---------------------------- MODULE CommandQueue ----------------------------
(***************************************************************************)
(* The runtime boundary of the engine (EngineRuntime): HTTP handler        *)
(* threads push commands on a bounded queue and wait on a future; one      *)
(* worker thread pops them, executes them on the engine state, sets the    *)
(* promise and republishes the views the GET endpoints read; the           *)
(* destructor stops the worker. GET /api/status shows counters that all of *)
(* them keep, in atomics of their own that change one after the other and  *)
(* are read without the queue's mutex.                                     *)
(*                                                                         *)
(* The engine state is abstracted to the sequence of commands it contains  *)
(* the effect of (applied): what a command does is the subject of BurnOps. *)
(***************************************************************************)
EXTENDS Naturals, Sequences, SequencesExt

CONSTANTS
  Requests,        \* the POST calls; each is made once, by a thread of its own
  MaxQueueDepth,   \* max_queue_depth_
  NoRequest        \* not a request

ASSUME QueueAssumption ==
  /\ MaxQueueDepth \in Nat \ {0}
  /\ NoRequest \notin Requests

VARIABLES
  call,         \* call[r]: where the handler thread of r is
  reply,        \* reply[r]: what the handler got back
  promise,      \* promise[r]: the shared state of r's std::promise
  queue,        \* command_queue_
  stopWorker,   \* stop_worker_
  worker,       \* where worker_loop is
  current,      \* the command the worker has popped
  destructor,   \* where ~EngineRuntime is
  applied,      \* the engine state: commands whose effect it contains
  view,         \* published_views_: the engine state as of the last publication
  metrics,      \* the queue_*_total_ and queue_depth_* counters
  mutex,        \* the handler that holds command_queue_mutex_ after a push
  accepted      \* history: every command ever pushed, oldest first

clientVars == <<call, reply>>
vars == <<call, reply, promise, queue, stopWorker, worker, current,
          destructor, applied, view, metrics, mutex, accepted>>

-----------------------------------------------------------------------------
Init ==
  /\ call = [r \in Requests |-> "new"]
  /\ reply = [r \in Requests |-> "none"]
  /\ promise = [r \in Requests |-> "unset"]
  /\ queue = << >>
  /\ stopWorker = FALSE
  /\ worker = "ready"
  /\ current = NoRequest
  /\ destructor = "idle"
  /\ applied = << >>
  /\ view = << >>
  /\ metrics = [enqueued |-> 0, completed |-> 0, rejected |-> 0,
                timedOut |-> 0, depth |-> 0, depthMax |-> 0]
  /\ mutex = NoRequest
  /\ accepted = << >>

Larger(a, b) == IF a < b THEN b ELSE a

\* command_queue_mutex_ is free: a critical section that takes several steps
\* is a handler's after its push or the worker's after its pop.
Unlocked == mutex = NoRequest /\ worker # "popped"

Finishes(r, result) ==
  /\ call' = [call EXCEPT ![r] = "done"]
  /\ reply' = [reply EXCEPT ![r] = result]

-----------------------------------------------------------------------------
(* A handler thread: ingest_telemetry, schedule_maneuver, simulate_step.   *)

Refuse(r, result) ==
  /\ Finishes(r, result)
  /\ metrics' = [metrics EXCEPT !.rejected = @ + 1]
  /\ UNCHANGED <<promise, queue, stopWorker, worker, current, destructor,
                 applied, view, mutex, accepted>>

RefuseStopped(r) ==
  /\ call[r] = "new"
  /\ destructor # "joined"
  /\ Unlocked
  /\ stopWorker
  /\ Refuse(r, "stopped")

RefuseBusy(r) ==
  /\ call[r] = "new"
  /\ Unlocked
  /\ ~stopWorker
  /\ Len(queue) >= MaxQueueDepth
  /\ Refuse(r, "busy")

MayPush(r) ==
  /\ call[r] = "new"
  /\ Unlocked
  /\ ~stopWorker
  /\ Len(queue) < MaxQueueDepth

\* Mutant: push_front.
EnqueueAtFront(r) ==
  /\ MayPush(r)
  /\ call' = [call EXCEPT ![r] = "pushed"]
  /\ queue' = <<r>> \o queue
  /\ accepted' = Append(accepted, r)
  /\ mutex' = r
  /\ UNCHANGED <<reply, promise, stopWorker, worker, current, destructor,
                 applied, view, metrics>>

\* The push, under the lock.
Enqueue(r) ==
  /\ MayPush(r)
  /\ call' = [call EXCEPT ![r] = "pushed"]
  /\ queue' = Append(queue, r)
  /\ accepted' = Append(accepted, r)
  /\ mutex' = r
  /\ UNCHANGED <<reply, promise, stopWorker, worker, current, destructor,
                 applied, view, metrics>>

\* The counters that the critical section feeds, one atomic at a time.
CallMoves(r, from, to) ==
  /\ call[r] = from
  /\ call' = [call EXCEPT ![r] = to]
  /\ UNCHANGED <<reply, promise, queue, stopWorker, worker, current,
                 destructor, applied, view, accepted>>

\* observe_queue_depth: the store ...
StoreDepth(r) ==
  /\ CallMoves(r, "pushed", "stored")
  /\ metrics' = [metrics EXCEPT !.depth = Len(queue)]
  /\ UNCHANGED mutex

\* Mutant: the lock is released before the command is counted.
RaiseMaxUnlocks(r) ==
  /\ CallMoves(r, "stored", "raised")
  /\ metrics' = [metrics EXCEPT !.depthMax = Larger(@, Len(queue))]
  /\ mutex' = NoRequest

\* ... and the compare-exchange loop, which nobody else runs meanwhile.
RaiseMax(r) ==
  /\ CallMoves(r, "stored", "raised")
  /\ metrics' = [metrics EXCEPT !.depthMax = Larger(@, Len(queue))]
  /\ UNCHANGED mutex

\* The last counter, and the unlock.
CountEnqueued(r) ==
  /\ CallMoves(r, "raised", "counted")
  /\ metrics' = [metrics EXCEPT !.enqueued = @ + 1]
  /\ mutex' = NoRequest

\* Mutant: nobody is notified.
NotifyForgotten(r) ==
  /\ call[r] = "counted"
  /\ call' = [call EXCEPT ![r] = "waiting"]
  /\ UNCHANGED <<reply, promise, queue, stopWorker, worker, current,
                 destructor, applied, view, metrics, mutex, accepted>>

\* command_queue_cv_.notify_one, after the lock was released.
Notify(r) ==
  /\ call[r] = "counted"
  /\ call' = [call EXCEPT ![r] = "waiting"]
  /\ worker' = IF worker = "asleep" THEN "ready" ELSE worker
  /\ UNCHANGED <<reply, promise, queue, stopWorker, current, destructor,
                 applied, view, metrics, mutex, accepted>>

\* done.get(): the value, or the exception as RUNTIME_QUEUE_FAILURE.
Collect(r) ==
  /\ call[r] = "waiting"
  /\ promise[r] # "unset"
  /\ Finishes(r, IF promise[r] = "value" THEN "answer" ELSE "failure")
  /\ UNCHANGED <<promise, queue, stopWorker, worker, current, destructor,
                 applied, view, metrics, mutex, accepted>>

\* Mutant: wait() instead of wait_for().
TimeOutNever(r) ==
  /\ call[r] = "waiting"
  /\ promise[r] = "unset"
  /\ UNCHANGED vars

\* wait_for(k_command_timeout) expired. The command stays where it is.
TimeOut(r) ==
  /\ call[r] = "waiting"
  /\ promise[r] = "unset"
  /\ Finishes(r, "timeout")
  /\ metrics' = [metrics EXCEPT !.timedOut = @ + 1]
  /\ UNCHANGED <<promise, queue, stopWorker, worker, current, destructor,
                 applied, view, mutex, accepted>>

-----------------------------------------------------------------------------
(* The worker thread: worker_loop.                                         *)

WorkerMoves(from, to) ==
  /\ worker = from
  /\ worker' = to

\* The wait's predicate is false, with the lock held: the thread sleeps.
Sleep ==
  /\ WorkerMoves("ready", "asleep")
  /\ Unlocked
  /\ ~stopWorker
  /\ queue = << >>
  /\ UNCHANGED <<clientVars, promise, queue, stopWorker, current, destructor,
                 applied, view, metrics, mutex, accepted>>

SpuriousWakeup ==
  /\ WorkerMoves("asleep", "ready")
  /\ UNCHANGED <<clientVars, promise, queue, stopWorker, current, destructor,
                 applied, view, metrics, mutex, accepted>>

\* Mutant: the worker leaves as soon as it is told to stop.
ExitAtOnce ==
  /\ WorkerMoves("ready", "exited")
  /\ Unlocked
  /\ stopWorker
  /\ UNCHANGED <<clientVars, promise, queue, stopWorker, current, destructor,
                 applied, view, metrics, mutex, accepted>>

Exit ==
  /\ WorkerMoves("ready", "exited")
  /\ Unlocked
  /\ stopWorker
  /\ queue = << >>
  /\ UNCHANGED <<clientVars, promise, queue, stopWorker, current, destructor,
                 applied, view, metrics, mutex, accepted>>

\* Mutant: back() and pop_back().
TakeNewest ==
  /\ WorkerMoves("ready", "popped")
  /\ Unlocked
  /\ queue # << >>
  /\ current' = Last(queue)
  /\ queue' = Front(queue)
  /\ UNCHANGED <<clientVars, promise, stopWorker, destructor, applied, view,
                 metrics, mutex, accepted>>

\* Mutant: the promise is set when the command is popped.
TakeAnswersFirst ==
  /\ WorkerMoves("ready", "popped")
  /\ Unlocked
  /\ queue # << >>
  /\ current' = Head(queue)
  /\ queue' = Tail(queue)
  /\ promise' = [promise EXCEPT ![Head(queue)] = "value"]
  /\ UNCHANGED <<clientVars, stopWorker, destructor, applied, view, metrics,
                 mutex, accepted>>

\* The pop, under the lock.
Take ==
  /\ WorkerMoves("ready", "popped")
  /\ Unlocked
  /\ queue # << >>
  /\ current' = Head(queue)
  /\ queue' = Tail(queue)
  /\ UNCHANGED <<clientVars, promise, stopWorker, destructor, applied, view,
                 metrics, mutex, accepted>>

\* observe_queue_depth and the unlock. A queue that has shrunk raises no
\* maximum: the loop ends at its first comparison.
ObserveDepth ==
  /\ WorkerMoves("popped", "executing")
  /\ metrics' = [metrics EXCEPT !.depth = Len(queue),
                                !.depthMax = Larger(@, Len(queue))]
  /\ UNCHANGED <<clientVars, promise, queue, stopWorker, current, destructor,
                 applied, view, mutex, accepted>>

\* execute_*, under the exclusive engine lock: the effect is one step for
\* every other thread. A command refused by its validation returns before the
\* lock, with an empty effect, even while a status reader holds it.
Execute ==
  /\ WorkerMoves("executing", "succeeded")
  /\ applied' = Append(applied, current)
  /\ UNCHANGED <<clientVars, promise, queue, stopWorker, current, destructor,
                 view, metrics, mutex, accepted>>

\* execute_* throws, before or after it changed the engine state.
ExecuteThrows ==
  /\ WorkerMoves("executing", "threw")
  /\ applied' \in {applied, Append(applied, current)}
  /\ UNCHANGED <<clientVars, promise, queue, stopWorker, current, destructor,
                 view, metrics, mutex, accepted>>

\* completion.set_value or set_exception: the handler may answer from here.
Settle ==
  /\ \/ /\ WorkerMoves("succeeded", "publishing")
        /\ promise' = [promise EXCEPT ![current] = "value"]
     \/ /\ WorkerMoves("threw", "publishing")
        /\ promise' = [promise EXCEPT ![current] = "exception"]
  /\ UNCHANGED <<clientVars, queue, stopWorker, current, destructor, applied,
                 view, metrics, mutex, accepted>>

\* Mutant: views are only rebuilt when the queue has drained.
PublishWhenIdle ==
  /\ WorkerMoves("publishing", "counting")
  /\ view' = IF queue = << >> THEN applied ELSE view
  /\ UNCHANGED <<clientVars, promise, queue, stopWorker, current, destructor,
                 applied, metrics, mutex, accepted>>

\* publish_read_views.
Publish ==
  /\ WorkerMoves("publishing", "counting")
  /\ view' = applied
  /\ UNCHANGED <<clientVars, promise, queue, stopWorker, current, destructor,
                 applied, metrics, mutex, accepted>>

\* Mutant: the popped command outlives its iteration.
CountKeepsCurrent ==
  /\ WorkerMoves("counting", "ready")
  /\ metrics' = [metrics EXCEPT !.completed = @ + 1]
  /\ UNCHANGED <<clientVars, promise, queue, stopWorker, current, destructor,
                 applied, view, mutex, accepted>>

\* queue_completed_total_, and the end of the iteration.
Count ==
  /\ WorkerMoves("counting", "ready")
  /\ metrics' = [metrics EXCEPT !.completed = @ + 1]
  /\ current' = NoRequest
  /\ UNCHANGED <<clientVars, promise, queue, stopWorker, destructor, applied,
                 view, mutex, accepted>>

-----------------------------------------------------------------------------
(* The destructor: flag under the lock, notify_all, join.                  *)

DestructorMoves(from, to) ==
  /\ destructor = from
  /\ destructor' = to

Stop ==
  /\ DestructorMoves("idle", "notifying")
  /\ Unlocked
  /\ stopWorker' = TRUE
  /\ UNCHANGED <<clientVars, promise, queue, worker, current, applied, view,
                 metrics, mutex, accepted>>

\* Mutant: join without notify_all.
NotifyAllForgotten ==
  /\ DestructorMoves("notifying", "joining")
  /\ UNCHANGED <<clientVars, promise, queue, stopWorker, worker, current,
                 applied, view, metrics, mutex, accepted>>

NotifyAll ==
  /\ DestructorMoves("notifying", "joining")
  /\ worker' = IF worker = "asleep" THEN "ready" ELSE worker
  /\ UNCHANGED <<clientVars, promise, queue, stopWorker, current, applied,
                 view, metrics, mutex, accepted>>

Join ==
  /\ DestructorMoves("joining", "joined")
  /\ worker = "exited"
  /\ UNCHANGED <<clientVars, promise, queue, stopWorker, worker, current,
                 applied, view, metrics, mutex, accepted>>

-----------------------------------------------------------------------------
Submit(r) == StoreDepth(r) \/ RaiseMax(r) \/ CountEnqueued(r) \/ Notify(r)

ClientNext(r) ==
  \/ RefuseStopped(r) \/ RefuseBusy(r) \/ Enqueue(r)
  \/ Submit(r) \/ Collect(r) \/ TimeOut(r)

WorkerNext ==
  \/ Sleep \/ Exit \/ Take \/ ObserveDepth \/ Execute \/ ExecuteThrows
  \/ Settle \/ Publish \/ Count

Next ==
  \/ \E r \in Requests : ClientNext(r)
  \/ WorkerNext
  \/ SpuriousWakeup
  \/ Stop \/ NotifyAll \/ Join

Spec == Init /\ [][Next]_vars

\* A handler that has pushed notifies, and its wait is bounded: it ends with
\* the future or with the timeout. Nobody is obliged to call or to stop.
HandlerFairness ==
  \A r \in Requests : WF_vars(Submit(r)) /\ WF_vars(Collect(r) \/ TimeOut(r))

\* Every execute_* terminates, and the destructor's thread runs.
WorkerFairness == WF_vars(WorkerNext) /\ WF_vars(NotifyAll) /\ WF_vars(Join)

\* The worker may hang: a property that needs it says so.
HungWorkerSpec == Spec /\ HandlerFairness

-----------------------------------------------------------------------------
(* Properties.                                                             *)

\* After its push a handler holds the lock until it has counted; after that it
\* still has to notify.
Pushing == {"pushed", "stored", "raised"}
Calls == {"new", "counted", "waiting", "done"} \cup Pushing
Replies == {"none", "answer", "failure", "busy", "stopped", "timeout"}
Promises == {"unset", "value", "exception"}
Unexecuted == {"popped", "executing"}
BusyWorker == {"succeeded", "threw", "publishing", "counting"} \cup Unexecuted
Workers == {"ready", "asleep", "exited"} \cup BusyWorker
Metrics == [enqueued : Nat, completed : Nat, rejected : Nat, timedOut : Nat,
            depth : Nat, depthMax : Nat]

\* Every variable has its type; the worker holds a command when it is busy.
TypeOK ==
  /\ call \in [Requests -> Calls]
  /\ reply \in [Requests -> Replies]
  /\ promise \in [Requests -> Promises]
  /\ queue \in Seq(Requests)
  /\ stopWorker \in BOOLEAN
  /\ worker \in Workers
  /\ current \in Requests \cup {NoRequest}
  /\ worker \in BusyWorker <=> current # NoRequest
  /\ destructor \in {"idle", "notifying", "joining", "joined"}
  /\ applied \in Seq(Requests)
  /\ view \in Seq(Requests)
  /\ metrics \in Metrics
  /\ mutex \in Requests \cup {NoRequest}
  /\ accepted \in Seq(Requests)

\* How many commands the worker has popped.
Taken == Len(accepted) - Len(queue)

\* The queue holds the newest accepted commands, in order and each once: a
\* command is neither lost nor duplicated between push and pop.
QueueIsBacklog ==
  /\ Len(queue) <= Len(accepted)
  /\ \A i \in DOMAIN queue : queue[i] = accepted[Taken + i]
  /\ \A i, j \in DOMAIN accepted : accepted[i] = accepted[j] => i = j

\* Effects come in the order of acceptance, each at most once, even when
\* callers have timed out and others were refused in between.
AppliedInOrder ==
  \A i, j \in DOMAIN applied : i < j =>
    \E k, l \in DOMAIN accepted :
      k < l /\ accepted[k] = applied[i] /\ accepted[l] = applied[j]

\* An answer means the effect happened; RUNTIME_BUSY and RUNTIME_STOPPED from
\* the two early returns mean it never will. (A timeout means neither.)
RepliesAreTruthful ==
  \A r \in Requests :
    /\ reply[r] = "answer" => Contains(applied, r)
    /\ reply[r] \in {"busy", "stopped"} =>
         ~Contains(accepted, r) /\ ~Contains(applied, r)

\* The command in the worker's hands, as a number.
InHand == IF current = NoRequest THEN 0 ELSE 1

\* The published views are an earlier state of the engine, at most the one
\* command behind that the worker has not published yet.
ViewLagsByOne ==
  /\ IsPrefix(view, applied)
  /\ Len(applied) <= Len(view) + InHand

\* While nobody is inside a critical section of the queue, the counters agree
\* with it: what was enqueued is completed, waiting or in the worker's hands.
CountersAgree ==
  /\ metrics.depth = Len(queue)
  /\ metrics.depth <= metrics.depthMax
  /\ metrics.enqueued = metrics.completed + metrics.depth + InHand

\* What the counters may show at any other moment, and so to a status_json
\* that loads them without the mutex. In the middle of a push the depth may be
\* one ahead of its maximum and of enqueued; but the backlog never looks larger
\* than queue and worker can hold, and the engine state, read under its lock,
\* holds no effect of a command not counted as enqueued, nor of two that are
\* not counted as completed. (More completed than enqueued is possible: a load
\* of enqueued may be old when completed is loaded.)
CountersBounded ==
  /\ metrics.depth <= MaxQueueDepth
  /\ metrics.depthMax <= MaxQueueDepth
  /\ metrics.depth <= metrics.depthMax + 1
  /\ metrics.depth <= metrics.enqueued + 1
  /\ metrics.enqueued <= metrics.completed + MaxQueueDepth + 1
  /\ Len(applied) <= metrics.enqueued
  /\ Len(applied) <= metrics.completed + 1

\* The counters of /api/status agree with the queue when its mutex is free, and
\* are within these bounds when it is not.
CountersBalance == (Unlocked => CountersAgree) /\ CountersBounded

\* The worker sleeps on a non-empty queue, or on the stop flag, only while
\* the thread that must wake it is on its way to its notify.
NoLostWakeup ==
  worker = "asleep" =>
    /\ queue # << >> => call[Last(queue)] \in Pushing \cup {"counted"}
    /\ stopWorker => destructor = "notifying"

\* When the worker has gone, every accepted command was executed and every
\* promise kept: nobody waits on a dead queue.
ShutdownDrains ==
  worker = "exited" =>
    /\ queue = << >>
    /\ \A i \in DOMAIN accepted : promise[accepted[i]] # "unset"

\* A call that was accepted returns, even when the worker never comes back.
EveryCallReturns ==
  \A r \in Requests : (call[r] = "pushed") ~> (call[r] = "done")

\* When the worker is scheduled an accepted command is executed, whether or not
\* its caller still waits.
AcceptedIsServed ==
  WorkerFairness =>
    \A r \in Requests : Contains(accepted, r) ~> (promise[r] # "unset")

\* When the worker is scheduled stopping ends: the destructor joins it.
StopCompletes == WorkerFairness => (stopWorker ~> (destructor = "joined"))

-----------------------------------------------------------------------------
(* Refinement: the boundary implements CommandService.                     *)

PhaseOf(r) ==
  CASE call[r] = "new" -> "new"
    [] call[r] \in Pushing \cup {"counted", "waiting"} -> "pending"
    [] OTHER -> CASE reply[r] = "answer" -> "answered"
                  [] reply[r] = "failure" -> "failed"
                  [] reply[r] = "timeout" -> "abandoned"
                  [] OTHER -> "refused"

Service == INSTANCE CommandService WITH
  phase <- [r \in Requests |-> PhaseOf(r)],
  backlog <- (IF worker \in Unexecuted THEN <<current>> ELSE << >>) \o queue,
  log <- applied,
  seen <- view

\* The queue, the worker and the future behave as the serial service does.
ImplementsService == Service!Spec
=============================================================================
