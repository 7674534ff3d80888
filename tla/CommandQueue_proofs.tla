------------------------ MODULE CommandQueue_proofs -------------------------
(***************************************************************************)
(* Proofs about CommandQueue, for any set of requests and any queue depth. *)
(***************************************************************************)
EXTENDS CommandQueue, TLAPS, SequenceTheorems

-----------------------------------------------------------------------------
(* Type correctness.                                                       *)

\* Initially every variable of the boundary has its type.
LEMMA InitType == Init => TypeOK
<1> SUFFICES ASSUME Init PROVE TypeOK
  OBVIOUS
<1>1. /\ call \in [Requests -> Calls]
      /\ reply \in [Requests -> Replies]
      /\ promise \in [Requests -> Promises]
  BY DEF Init, Calls, Replies, Promises
<1>2. /\ queue \in Seq(Requests) /\ accepted \in Seq(Requests)
      /\ applied \in Seq(Requests) /\ view \in Seq(Requests)
  BY DEF Init
<1>3. /\ stopWorker \in BOOLEAN
      /\ destructor \in {"idle", "notifying", "joining", "joined"}
      /\ mutex \in Requests \cup {NoRequest}
  BY DEF Init
<1>4. /\ worker \in Workers
      /\ current \in Requests \cup {NoRequest}
      /\ worker \in BusyWorker <=> current # NoRequest
  BY DEF Init, Workers, BusyWorker, Unexecuted
<1>5. metrics \in Metrics
  BY DEF Init, Metrics
<1> QED
  BY <1>1, <1>2, <1>3, <1>4, <1>5 DEF TypeOK

\* The steps of a critical section of a handler after its push.
Counting(r) == StoreDepth(r) \/ RaiseMax(r) \/ CountEnqueued(r)

\* They move one caller and the counters.
LEMMA CountingFacts ==
  ASSUME NEW r \in Requests, Counting(r)
  PROVE  /\ UNCHANGED <<reply, promise, queue, stopWorker, worker, current,
                         destructor, applied, view, accepted>>
         /\ call[r] \in Pushing
         /\ \E to \in {"stored", "raised", "counted"} :
              call' = [call EXCEPT ![r] = to]
<1>1. CASE StoreDepth(r)
  BY <1>1 DEF StoreDepth, CallMoves, Pushing
<1>2. CASE RaiseMax(r)
  BY <1>2 DEF RaiseMax, CallMoves, Pushing
<1>3. CASE CountEnqueued(r)
  BY <1>3 DEF CountEnqueued, CallMoves, Pushing
<1> QED
  BY <1>1, <1>2, <1>3 DEF Counting

\* The larger of two numbers.
LEMMA LargerIs ==
  ASSUME NEW a \in Nat, NEW b \in Nat
  PROVE  /\ Larger(a, b) \in Nat /\ a <= Larger(a, b) /\ b <= Larger(a, b)
         /\ Larger(a, b) = a \/ Larger(a, b) = b
  BY DEF Larger

\* What observe_queue_depth stores.
LEMMA DepthFacts ==
  ASSUME NEW m \in Metrics, NEW d \in Nat
  PROVE  /\ [m EXCEPT !.depth = d] \in Metrics
         /\ [m EXCEPT !.depthMax = Larger(@, d)] \in Metrics
         /\ [m EXCEPT !.depth = d, !.depthMax = Larger(@, d)] \in Metrics
<1>1. m.depthMax \in Nat
  BY DEF Metrics
<1>2. Larger(m.depthMax, d) \in Nat
  BY <1>1, LargerIs
<1> QED
  BY <1>2 DEF Metrics

\* One counter goes up, the others stay.
LEMMA CounterFacts ==
  ASSUME NEW m \in Metrics
  PROVE  /\ [m EXCEPT !.enqueued = @ + 1] \in Metrics
         /\ [m EXCEPT !.completed = @ + 1] \in Metrics
         /\ [m EXCEPT !.rejected = @ + 1] \in Metrics
         /\ [m EXCEPT !.timedOut = @ + 1] \in Metrics
  BY DEF Metrics

\* A step of a handler thread keeps the types.
LEMMA ClientType ==
  ASSUME TypeOK, NEW r \in Requests, ClientNext(r)
  PROVE  TypeOK'
<1> USE DEF TypeOK
<1>1. CASE RefuseStopped(r) \/ RefuseBusy(r)
  <2>1. metrics' \in Metrics
    <3>1. metrics' = [metrics EXCEPT !.rejected = @ + 1]
      BY <1>1 DEF RefuseStopped, RefuseBusy, Refuse
    <3> QED
      BY <3>1, CounterFacts
  <2>2. call' \in [Requests -> Calls] /\ reply' \in [Requests -> Replies]
    BY <1>1 DEF RefuseStopped, RefuseBusy, Refuse, Finishes, Calls, Replies
  <2> QED
    BY <1>1, <2>1, <2>2 DEF RefuseStopped, RefuseBusy, Refuse
<1>2. CASE Enqueue(r)
  <2>1. queue' \in Seq(Requests) /\ accepted' \in Seq(Requests)
    BY <1>2 DEF Enqueue
  <2>2. call' \in [Requests -> Calls]
    BY <1>2 DEF Enqueue, Calls, Pushing
  <2> QED
    BY <1>2, <2>1, <2>2 DEF Enqueue
<1>3. CASE Notify(r)
  <2>1. call' \in [Requests -> Calls]
    BY <1>3 DEF Notify, Calls
  <2>2. worker' \in Workers /\ (worker' \in BusyWorker <=> worker \in BusyWorker)
    BY <1>3 DEF Notify, Workers, BusyWorker, Unexecuted
  <2> QED
    BY <1>3, <2>1, <2>2 DEF Notify
<1>4. CASE Collect(r)
  <2>1. call' \in [Requests -> Calls] /\ reply' \in [Requests -> Replies]
    BY <1>4 DEF Collect, Finishes, Calls, Replies
  <2> QED
    BY <1>4, <2>1 DEF Collect
<1>5. CASE TimeOut(r)
  <2>1. metrics' \in Metrics
    <3>1. metrics' = [metrics EXCEPT !.timedOut = @ + 1]
      BY <1>5 DEF TimeOut
    <3> QED
      BY <3>1, CounterFacts
  <2>2. call' \in [Requests -> Calls] /\ reply' \in [Requests -> Replies]
    BY <1>5 DEF TimeOut, Finishes, Calls, Replies
  <2> QED
    BY <1>5, <2>1, <2>2 DEF TimeOut
<1>6. CASE Counting(r)
  <2>1. /\ call' \in [Requests -> Calls]
        /\ UNCHANGED <<reply, promise, queue, stopWorker, worker, current,
                        destructor, applied, view, accepted>>
    BY <1>6, CountingFacts DEF Calls, Pushing
  <2>2. metrics' \in Metrics /\ mutex' \in Requests \cup {NoRequest}
    <3>1. Len(queue) \in Nat
      OBVIOUS
    <3>2. CASE StoreDepth(r)
      BY <3>1, <3>2, DepthFacts DEF StoreDepth
    <3>3. CASE RaiseMax(r)
      BY <3>1, <3>3, DepthFacts DEF RaiseMax
    <3>4. CASE CountEnqueued(r)
      BY <3>4, CounterFacts DEF CountEnqueued
    <3> QED
      BY <1>6, <3>2, <3>3, <3>4 DEF Counting
  <2> QED
    BY <2>1, <2>2
<1> QED
  BY <1>1, <1>2, <1>3, <1>4, <1>5, <1>6 DEF ClientNext, Submit, Counting

\* A step of the worker thread keeps the types.
LEMMA WorkerType ==
  ASSUME TypeOK, WorkerNext \/ SpuriousWakeup
  PROVE  TypeOK'
<1> USE DEF TypeOK, WorkerMoves, clientVars
<1>1. CASE Sleep \/ Exit \/ SpuriousWakeup
  BY <1>1 DEF Sleep, Exit, SpuriousWakeup, Workers, BusyWorker, Unexecuted
<1>2. CASE Take
  <2>1. queue' \in Seq(Requests) /\ current' \in Requests
    BY <1>2 DEF Take
  <2>2. worker' \in Workers /\ worker' \in BusyWorker
    BY <1>2 DEF Take, Workers, BusyWorker, Unexecuted
  <2> QED
    BY <1>2, <2>1, <2>2, QueueAssumption DEF Take
<1>3. CASE Execute \/ ExecuteThrows
  <2>1. current \in Requests
    BY <1>3 DEF Execute, ExecuteThrows, BusyWorker, Unexecuted
  <2>2. applied' \in Seq(Requests)
    <3>1. Append(applied, current) \in Seq(Requests)
      BY <2>1
    <3> QED
      BY <1>3, <3>1 DEF Execute, ExecuteThrows
  <2>3. worker' \in Workers /\ worker' \in BusyWorker /\ worker \in BusyWorker
    BY <1>3 DEF Execute, ExecuteThrows, Workers, BusyWorker, Unexecuted
  <2> QED
    BY <1>3, <2>2, <2>3 DEF Execute, ExecuteThrows
<1>4. CASE Settle
  <2>1. promise' \in [Requests -> Promises]
    BY <1>4 DEF Settle, Promises
  <2>2. worker' \in Workers /\ worker' \in BusyWorker /\ worker \in BusyWorker
    BY <1>4 DEF Settle, Workers, BusyWorker, Unexecuted
  <2> QED
    BY <1>4, <2>1, <2>2 DEF Settle
<1>5. CASE Publish
  BY <1>5 DEF Publish, Workers, BusyWorker, Unexecuted
<1>6. CASE Count
  <2>1. metrics' \in Metrics
    <3>1. metrics' = [metrics EXCEPT !.completed = @ + 1]
      BY <1>6 DEF Count
    <3> QED
      BY <3>1, CounterFacts
  <2>2. worker' \in Workers /\ worker' \notin BusyWorker
    BY <1>6 DEF Count, Workers, BusyWorker, Unexecuted
  <2> QED
    BY <1>6, <2>1, <2>2 DEF Count
<1>7. CASE ObserveDepth
  <2>1. metrics' \in Metrics
    <3>1. Len(queue) \in Nat
      OBVIOUS
    <3> QED
      BY <1>7, <3>1, DepthFacts DEF ObserveDepth
  <2>2. worker' \in Workers /\ worker' \in BusyWorker /\ worker \in BusyWorker
    BY <1>7 DEF ObserveDepth, Workers, BusyWorker, Unexecuted
  <2> QED
    BY <1>7, <2>1, <2>2 DEF ObserveDepth
<1> QED
  BY <1>1, <1>2, <1>3, <1>4, <1>5, <1>6, <1>7 DEF WorkerNext

\* A step of the destructor keeps the types.
LEMMA DestructorType ==
  ASSUME TypeOK, Stop \/ NotifyAll \/ Join
  PROVE  TypeOK'
<1>1. worker' \in Workers /\ (worker' \in BusyWorker <=> worker \in BusyWorker)
  BY DEF TypeOK, Stop, NotifyAll, Join, Workers, BusyWorker, Unexecuted
<1> QED
  BY <1>1 DEF TypeOK, Stop, NotifyAll, Join, DestructorMoves, clientVars

\* The type invariant is inductive as it stands.
LEMMA StepType == TypeOK /\ [Next]_vars => TypeOK'
<1> SUFFICES ASSUME TypeOK, [Next]_vars PROVE TypeOK'
  OBVIOUS
<1>1. CASE UNCHANGED vars
  BY <1>1 DEF TypeOK, vars
<1>2. CASE \E r \in Requests : ClientNext(r)
  BY <1>2, ClientType
<1>3. CASE WorkerNext \/ SpuriousWakeup
  BY <1>3, WorkerType
<1>4. CASE Stop \/ NotifyAll \/ Join
  BY <1>4, DestructorType
<1> QED
  BY <1>1, <1>2, <1>3, <1>4 DEF Next

\* Every variable keeps its type: the worker holds a command exactly while it
\* is busy with one.
THEOREM TypeCorrect == Spec => []TypeOK
  BY InitType, StepType, PTL DEF Spec

-----------------------------------------------------------------------------
(* Between push and pop.                                                   *)

\* A call that was pushed is not new any more: it cannot be pushed again.
AcceptedOnce == \A i \in DOMAIN accepted : call[accepted[i]] # "new"

\* Only a push and a pop touch the queue.
LEMMA QueueFootprint ==
  ASSUME [Next]_vars
  PROVE  \/ \E r \in Requests : Enqueue(r)
         \/ Take
         \/ UNCHANGED <<queue, accepted>>
  BY DEF Next, vars, ClientNext, WorkerNext, RefuseStopped, RefuseBusy, Refuse,
         Notify, Collect, TimeOut, Sleep, Exit, Execute, ExecuteThrows, Settle,
         Publish, Count, SpuriousWakeup, Stop, NotifyAll, Join, Submit,
         StoreDepth, RaiseMax, CountEnqueued, CallMoves, ObserveDepth

\* No step makes a call new.
LEMMA NewFootprint ==
  ASSUME TypeOK, [Next]_vars, NEW r \in Requests, call'[r] = "new"
  PROVE  call[r] = "new"
  BY DEF TypeOK, Next, vars, ClientNext, WorkerNext, clientVars, RefuseStopped,
         RefuseBusy, Refuse, Finishes, Enqueue, Notify, Collect, TimeOut, Sleep,
         Exit, Take, Execute, ExecuteThrows, Settle, Publish, Count,
         SpuriousWakeup, Stop, NotifyAll, Join, Submit, StoreDepth, RaiseMax,
         CountEnqueued, CallMoves, ObserveDepth

\* A push extends the history and the queue alike, a pop moves the backlog by
\* one: no step loses, duplicates or reorders a command.
LEMMA BacklogStep ==
  TypeOK /\ QueueIsBacklog /\ AcceptedOnce /\ [Next]_vars
    => QueueIsBacklog' /\ AcceptedOnce'
<1> SUFFICES ASSUME TypeOK, QueueIsBacklog, AcceptedOnce, [Next]_vars
             PROVE  QueueIsBacklog' /\ AcceptedOnce'
  OBVIOUS
<1> USE DEF QueueIsBacklog, AcceptedOnce, Taken
<1>0. queue \in Seq(Requests) /\ accepted \in Seq(Requests)
  BY DEF TypeOK
<1>1. ASSUME NEW r \in Requests, Enqueue(r)
      PROVE  QueueIsBacklog' /\ AcceptedOnce'
  <2>1. /\ queue' = Append(queue, r) /\ accepted' = Append(accepted, r)
        /\ call[r] = "new" /\ call' = [call EXCEPT ![r] = "pushed"]
    BY <1>1 DEF Enqueue, MayPush
  <2>2. /\ Len(queue') = Len(queue) + 1 /\ Len(accepted') = Len(accepted) + 1
        /\ \A i \in DOMAIN queue : queue'[i] = queue[i]
        /\ \A i \in DOMAIN accepted : accepted'[i] = accepted[i]
        /\ queue'[Len(queue')] = r /\ accepted'[Len(accepted')] = r
        /\ DOMAIN queue' = 1..Len(queue') /\ DOMAIN accepted' = 1..Len(accepted')
    BY <1>0, <2>1
  <2>3. \A i \in DOMAIN queue' : queue'[i] = accepted'[Taken' + i]
    BY <1>0, <2>2
  <2>4. \A i \in DOMAIN accepted : accepted[i] # r
    BY <2>1
  <2>5. \A i, j \in DOMAIN accepted' : accepted'[i] = accepted'[j] => i = j
    BY <1>0, <2>2, <2>4
  <2>6. \A i \in DOMAIN accepted' : call'[accepted'[i]] # "new"
    BY <1>0, <2>1, <2>2 DEF TypeOK
  <2> QED
    BY <1>0, <2>2, <2>3, <2>5, <2>6
<1>2. CASE Take
  <2>1. queue # << >> /\ queue' = Tail(queue) /\ accepted' = accepted
    BY <1>2 DEF Take
  <2>2. /\ Len(queue') = Len(queue) - 1
        /\ DOMAIN queue' = 1..Len(queue')
        /\ \A i \in DOMAIN queue' : queue'[i] = queue[i + 1]
    BY <1>0, <2>1
  <2>3. \A i \in DOMAIN queue' : queue'[i] = accepted'[Taken' + i]
    BY <1>0, <2>1, <2>2
  <2>4. AcceptedOnce'
    BY <1>2 DEF Take, clientVars
  <2> QED
    BY <1>0, <2>1, <2>2, <2>3, <2>4
<1>3. CASE UNCHANGED <<queue, accepted>>
  <2>1. AcceptedOnce'
    BY <1>0, <1>3, NewFootprint
  <2> QED
    BY <1>3, <2>1
<1> QED
  BY <1>1, <1>2, <1>3, QueueFootprint

\* Nothing is accepted yet, and nothing is queued.
LEMMA BacklogInit == Init => QueueIsBacklog /\ AcceptedOnce
  BY DEF Init, QueueIsBacklog, AcceptedOnce, Taken

\* The queue holds the newest accepted commands, in order and each once, for
\* any number of handler threads.
THEOREM BacklogCorrect == Spec => []QueueIsBacklog
<1>1. TypeOK /\ QueueIsBacklog /\ AcceptedOnce /\ [Next]_vars
        => (QueueIsBacklog /\ AcceptedOnce)'
  BY BacklogStep
<1> QED
  BY <1>1, TypeCorrect, BacklogInit, PTL DEF Spec

-----------------------------------------------------------------------------
(* Sleeping and waking.                                                    *)

\* The wakeup invariant is inductive as it stands, given the types.
LEMMA WakeupStep == TypeOK /\ NoLostWakeup /\ [Next]_vars => NoLostWakeup'
<1> SUFFICES ASSUME TypeOK, NoLostWakeup, [Next]_vars PROVE NoLostWakeup'
  OBVIOUS
<1> USE DEF NoLostWakeup
<1>0. queue \in Seq(Requests) /\ call \in [Requests -> Calls]
  BY DEF TypeOK
<1>1. ASSUME queue # << >> PROVE Last(queue) \in Requests
  BY <1>0, <1>1 DEF Last
<1>2. ASSUME NEW r \in Requests, RefuseStopped(r) \/ RefuseBusy(r)
                                \/ Collect(r) \/ TimeOut(r)
      PROVE  NoLostWakeup'
  <2>1. /\ UNCHANGED <<queue, worker, stopWorker, destructor>>
        /\ call[r] \in {"new", "waiting"} /\ call' = [call EXCEPT ![r] = "done"]
    BY <1>2 DEF RefuseStopped, RefuseBusy, Refuse, Finishes, Collect, TimeOut
  <2>2. \A q \in Requests : call[q] \in Pushing \cup {"counted"} =>
          call'[q] = call[q]
    BY <1>0, <2>1 DEF Pushing
  <2> QED
    BY <1>1, <2>1, <2>2
<1>3. ASSUME NEW r \in Requests, Enqueue(r) PROVE NoLostWakeup'
  <2>1. /\ queue' = Append(queue, r) /\ call' = [call EXCEPT ![r] = "pushed"]
        /\ UNCHANGED <<worker, stopWorker, destructor>>
    BY <1>3 DEF Enqueue
  <2>2. Last(queue') = r
    BY <1>0, <2>1 DEF Last
  <2> QED
    BY <1>0, <2>1, <2>2 DEF Pushing
<1>4. ASSUME NEW r \in Requests, Notify(r) PROVE NoLostWakeup'
  BY <1>4 DEF Notify
<1>5. CASE Sleep
  BY <1>5 DEF Sleep, WorkerMoves
<1>6. CASE \/ Exit \/ Take \/ ObserveDepth \/ Execute \/ ExecuteThrows
           \/ Settle \/ Publish \/ Count \/ SpuriousWakeup \/ NotifyAll
  <2>1. worker' # "asleep"
    <3>1. CASE \/ Exit \/ Take \/ ObserveDepth \/ Execute \/ ExecuteThrows
               \/ Publish \/ Count \/ SpuriousWakeup
      BY <3>1 DEF Exit, Take, ObserveDepth, Execute, ExecuteThrows, Publish,
                  Count, SpuriousWakeup, WorkerMoves
    <3>2. CASE Settle
      BY <3>2 DEF Settle, WorkerMoves
    <3>3. CASE NotifyAll
      BY <3>3 DEF NotifyAll
    <3> QED
      BY <1>6, <3>1, <3>2, <3>3
  <2> QED
    BY <2>1
<1>7. CASE Stop
  BY <1>7 DEF Stop, DestructorMoves, clientVars
<1>8. CASE Join
  BY <1>8 DEF Join, DestructorMoves, clientVars
<1>9. CASE UNCHANGED vars
  BY <1>9 DEF vars
<1>10. ASSUME NEW r \in Requests, Counting(r) PROVE NoLostWakeup'
  <2>1. \A q \in Requests : call[q] \in Pushing \cup {"counted"} =>
          call'[q] \in Pushing \cup {"counted"}
    BY <1>0, <1>10, CountingFacts DEF Pushing
  <2> QED
    BY <1>1, <1>10, <2>1, CountingFacts
<1> QED
  BY <1>2, <1>3, <1>4, <1>5, <1>6, <1>7, <1>8, <1>9, <1>10
     DEF Next, ClientNext, WorkerNext, Submit, Counting

\* The worker starts awake.
LEMMA WakeupInit == Init => NoLostWakeup
  BY DEF Init, NoLostWakeup

\* The worker never sleeps through a push or a stop whose notify is past.
THEOREM WakeupCorrect == Spec => []NoLostWakeup
  BY TypeCorrect, WakeupInit, WakeupStep, PTL DEF Spec

-----------------------------------------------------------------------------
(* Service and shutdown.                                                   *)

\* Every popped command has its promise kept or is the worker's current one,
\* the last that was popped; the promise is kept before the views are
\* published; the worker only leaves a stopped and empty queue.
ServiceInv ==
  /\ current # NoRequest => Taken > 0 /\ accepted[Taken] = current
  /\ \A i \in 1..Taken : promise[accepted[i]] # "unset" \/ accepted[i] = current
  /\ worker \in {"publishing", "counting"} => promise[current] # "unset"
  /\ worker = "exited" => stopWorker /\ queue = << >>

\* A promise is kept once: it never goes back to unset.
LEMMA PromiseFootprint ==
  ASSUME TypeOK, [Next]_vars
  PROVE  \A r \in Requests : promise[r] # "unset" => promise'[r] # "unset"
<1>1. CASE Settle
  BY <1>1 DEF Settle, TypeOK
<1>2. CASE UNCHANGED promise
  BY <1>2
<1> QED
  BY <1>1, <1>2 DEF Next, vars, ClientNext, WorkerNext, RefuseStopped,
     RefuseBusy, Refuse, Enqueue, Notify, Collect, TimeOut, Sleep, Exit, Take,
     Execute, ExecuteThrows, Publish, Count, SpuriousWakeup, Stop, NotifyAll,
     Join, Submit, StoreDepth, RaiseMax, CountEnqueued, CallMoves, ObserveDepth

\* Only Take, Settle, Count and Exit move the worker in the invariant's sense.
LEMMA ServiceStep ==
  TypeOK /\ QueueIsBacklog /\ ServiceInv /\ [Next]_vars => ServiceInv'
<1> SUFFICES ASSUME TypeOK, QueueIsBacklog, ServiceInv, [Next]_vars
             PROVE  ServiceInv'
  OBVIOUS
<1>0. /\ queue \in Seq(Requests) /\ accepted \in Seq(Requests)
      /\ promise \in [Requests -> Promises]
      /\ \A i \in 1..Taken : i \in DOMAIN accepted /\ accepted[i] \in Requests
      /\ Taken \in Nat
  BY DEF TypeOK, QueueIsBacklog, Taken
<1>1. ASSUME NEW r \in Requests, Enqueue(r) PROVE ServiceInv'
  <2>1. /\ queue' = Append(queue, r) /\ accepted' = Append(accepted, r)
        /\ UNCHANGED <<promise, stopWorker, worker, current>> /\ ~stopWorker
    BY <1>1 DEF Enqueue, MayPush
  <2>2. /\ Taken' = Taken
        /\ \A i \in 1..Taken : accepted'[i] = accepted[i]
    BY <1>0, <2>1 DEF Taken
  <2> QED
    BY <1>0, <2>1, <2>2 DEF ServiceInv
<1>2. ASSUME NEW r \in Requests,
             RefuseStopped(r) \/ RefuseBusy(r) \/ Collect(r) \/ TimeOut(r)
      PROVE  ServiceInv'
  BY <1>2 DEF ServiceInv, Taken, RefuseStopped, RefuseBusy, Refuse, Collect,
              TimeOut
<1>3. ASSUME NEW r \in Requests, Notify(r) PROVE ServiceInv'
  BY <1>3 DEF ServiceInv, Taken, Notify
<1>4. CASE Take
  <2>1. /\ queue # << >> /\ queue' = Tail(queue) /\ current' = Head(queue)
        /\ worker = "ready" /\ worker' = "popped"
        /\ UNCHANGED <<promise, accepted>>
    BY <1>4 DEF Take, WorkerMoves
  <2>2. Taken' = Taken + 1 /\ current' = queue[1] /\ queue[1] = accepted[Taken + 1]
    BY <1>0, <2>1 DEF Taken, QueueIsBacklog
  <2>3. current = NoRequest
    BY <2>1 DEF TypeOK, BusyWorker, Unexecuted
  <2>4. \A i \in 1..Taken : promise[accepted[i]] # "unset"
    BY <1>0, <2>3, QueueAssumption DEF ServiceInv
  <2>5. \A i \in 1..Taken' :
          promise'[accepted'[i]] # "unset" \/ accepted'[i] = current'
    BY <1>0, <2>1, <2>2, <2>4
  <2>6. Taken' > 0 /\ accepted'[Taken'] = current'
    BY <1>0, <2>1, <2>2
  <2> QED
    BY <2>1, <2>5, <2>6 DEF ServiceInv
<1>5. CASE Settle
  <2>1. /\ worker' = "publishing" /\ worker \in BusyWorker
        /\ UNCHANGED <<queue, accepted, current>>
    BY <1>5 DEF Settle, WorkerMoves, BusyWorker
  <2>2. current \in Requests
    BY <2>1 DEF TypeOK
  <2>3. promise'[current] # "unset"
    BY <1>0, <1>5, <2>2 DEF Settle
  <2>4. \A i \in 1..Taken :
          promise'[accepted[i]] # "unset" \/ accepted[i] = current
    BY <1>0, PromiseFootprint DEF ServiceInv
  <2> QED
    BY <2>1, <2>3, <2>4 DEF ServiceInv, Taken
<1>6. CASE Count
  <2>1. /\ worker = "counting" /\ worker' = "ready" /\ current' = NoRequest
        /\ UNCHANGED <<queue, accepted, promise>>
    BY <1>6 DEF Count, WorkerMoves
  <2> QED
    BY <1>0, <2>1 DEF ServiceInv, Taken
<1>7. CASE \/ ObserveDepth \/ Execute \/ ExecuteThrows \/ Publish \/ Sleep
           \/ SpuriousWakeup
  <2>1. /\ UNCHANGED <<queue, accepted, promise, current>>
        /\ worker' \notin {"exited", "publishing"}
        /\ worker' = "counting" => worker = "publishing"
    BY <1>7 DEF ObserveDepth, Execute, ExecuteThrows, Publish, Sleep,
                SpuriousWakeup, WorkerMoves
  <2> QED
    BY <2>1 DEF ServiceInv, Taken
<1>8. CASE Exit
  BY <1>8 DEF Exit, WorkerMoves, ServiceInv, Taken
<1>9. CASE Stop
  BY <1>9 DEF Stop, ServiceInv, Taken
<1>10. CASE NotifyAll \/ Join
  BY <1>10 DEF NotifyAll, Join, ServiceInv, Taken
<1>11. CASE UNCHANGED vars
  BY <1>11 DEF vars, ServiceInv, Taken
<1>12. ASSUME NEW r \in Requests, Counting(r) PROVE ServiceInv'
  BY <1>12, CountingFacts DEF ServiceInv, Taken
<1> QED
  BY <1>1, <1>2, <1>3, <1>4, <1>5, <1>6, <1>7, <1>8, <1>9, <1>10, <1>11, <1>12
     DEF Next, ClientNext, WorkerNext, Submit, Counting

\* No command has been popped yet.
LEMMA ServiceInit == Init => ServiceInv
  BY DEF Init, ServiceInv, Taken

\* In every reachable state the commands popped before the current one have
\* had their promises kept.
LEMMA ServiceInvariant == Spec => [](TypeOK /\ QueueIsBacklog /\ ServiceInv)
  BY TypeCorrect, BacklogCorrect, ServiceInit, ServiceStep, PTL DEF Spec

\* After a stop the worker leaves no accepted command without its answer, and
\* no caller waits for a promise nobody will keep.
THEOREM ShutdownCorrect == Spec => []ShutdownDrains
<1>1. TypeOK /\ QueueIsBacklog /\ ServiceInv => ShutdownDrains
  <2> SUFFICES ASSUME TypeOK, QueueIsBacklog, ServiceInv, worker = "exited"
               PROVE  /\ queue = << >>
                      /\ \A i \in DOMAIN accepted : promise[accepted[i]] # "unset"
    BY DEF ShutdownDrains
  <2>1. queue = << >> /\ current = NoRequest
    BY DEF ServiceInv, TypeOK, BusyWorker, Unexecuted
  <2>2. \A i \in DOMAIN accepted : i \in 1..Taken /\ accepted[i] \in Requests
    BY <2>1 DEF Taken, TypeOK
  <2> QED
    BY <2>1, <2>2, QueueAssumption DEF ServiceInv
<1> QED
  BY <1>1, ServiceInvariant, PTL

-----------------------------------------------------------------------------
(* The counters.                                                           *)

\* command_queue_mutex_ excludes: one handler at a time is past its push and
\* not through with counting it, and then the worker is not past its pop.
LockInv ==
  /\ \A r \in Requests : call[r] \in Pushing <=> mutex = r
  /\ mutex # NoRequest => worker # "popped" /\ queue # << >>

\* Only a push takes the lock from the free state, and nobody pops meanwhile.
LEMMA LockStep == TypeOK /\ LockInv /\ [Next]_vars => LockInv'
<1> SUFFICES ASSUME TypeOK, LockInv, [Next]_vars PROVE LockInv'
  OBVIOUS
<1> USE DEF LockInv
<1>0. /\ call \in [Requests -> Calls] /\ queue \in Seq(Requests)
      /\ NoRequest \notin Requests
  BY QueueAssumption DEF TypeOK
<1>1. ASSUME NEW r \in Requests, RefuseStopped(r) \/ RefuseBusy(r)
                                \/ Collect(r) \/ TimeOut(r) \/ Notify(r)
      PROVE  LockInv'
  <2>1. /\ call[r] \in {"new", "counted", "waiting"}
        /\ \E to \in {"waiting", "done"} : call' = [call EXCEPT ![r] = to]
        /\ UNCHANGED <<mutex, queue>>
        /\ worker' = worker \/ worker' = "ready"
    BY <1>1 DEF RefuseStopped, RefuseBusy, Refuse, Finishes, Collect, TimeOut,
                Notify
  <2>2. \A q \in Requests : call'[q] \in Pushing <=> call[q] \in Pushing
    BY <1>0, <2>1 DEF Pushing
  <2> QED
    BY <2>1, <2>2
<1>2. ASSUME NEW r \in Requests, Enqueue(r) PROVE LockInv'
  <2>1. /\ mutex = NoRequest /\ mutex' = r /\ worker' = worker
        /\ worker # "popped" /\ queue' = Append(queue, r)
        /\ call' = [call EXCEPT ![r] = "pushed"]
    BY <1>2 DEF Enqueue, MayPush, Unlocked
  <2>2. \A q \in Requests : call'[q] \in Pushing <=> q = r
    BY <1>0, <2>1 DEF Pushing
  <2>3. queue' # << >>
    BY <1>0, <2>1
  <2> QED
    BY <2>1, <2>2, <2>3
<1>3. ASSUME NEW r \in Requests, StoreDepth(r) \/ RaiseMax(r) PROVE LockInv'
  <2>1. /\ call[r] \in Pushing /\ UNCHANGED <<mutex, worker, queue>>
        /\ \E to \in {"stored", "raised"} : call' = [call EXCEPT ![r] = to]
    BY <1>3 DEF StoreDepth, RaiseMax, CallMoves, Pushing
  <2>2. \A q \in Requests : call'[q] \in Pushing <=> call[q] \in Pushing
    BY <1>0, <2>1 DEF Pushing
  <2> QED
    BY <2>1, <2>2
<1>4. ASSUME NEW r \in Requests, CountEnqueued(r) PROVE LockInv'
  <2>1. /\ call[r] = "raised" /\ call' = [call EXCEPT ![r] = "counted"]
        /\ mutex' = NoRequest
    BY <1>4 DEF CountEnqueued, CallMoves
  <2>2. mutex = r
    BY <2>1 DEF Pushing
  <2>3. \A q \in Requests : call'[q] \notin Pushing
    BY <1>0, <2>1, <2>2 DEF Pushing
  <2> QED
    BY <1>0, <2>1, <2>3
<1>5. CASE Take
  <2>1. mutex = NoRequest /\ UNCHANGED <<mutex, call>>
    BY <1>5 DEF Take, Unlocked, clientVars
  <2> QED
    BY <2>1
<1>6. CASE \/ ObserveDepth \/ Sleep \/ Exit \/ Execute \/ ExecuteThrows
           \/ Publish \/ Count \/ SpuriousWakeup \/ Stop \/ Join
           \/ UNCHANGED vars
  <2>1. /\ UNCHANGED <<mutex, call, queue>>
        /\ worker' = "popped" => worker = "popped"
    BY <1>6 DEF ObserveDepth, Sleep, Exit, Execute, ExecuteThrows, Publish,
                Count, SpuriousWakeup, Stop, Join, WorkerMoves, clientVars, vars
  <2> QED
    BY <2>1
<1>7. CASE Settle
  <2>1. UNCHANGED <<mutex, call, queue>> /\ worker' # "popped"
    BY <1>7 DEF Settle, WorkerMoves, clientVars
  <2> QED
    BY <2>1
<1>8. CASE NotifyAll
  <2>1. /\ UNCHANGED <<mutex, call, queue>>
        /\ worker' = "popped" => worker = "popped"
    BY <1>8 DEF NotifyAll, clientVars
  <2> QED
    BY <2>1
<1> QED
  BY <1>1, <1>2, <1>3, <1>4, <1>5, <1>6, <1>7, <1>8
     DEF Next, ClientNext, WorkerNext, Submit

\* Nobody holds the lock at first.
LEMMA LockInit == Init => LockInv
  BY QueueAssumption DEF Init, LockInv, Pushing

\* What the steps of the critical sections have not stored yet: the pop of the
\* worker in the depth, and of the handler that holds the lock its push in the
\* depth, in the maximum and in the count.
Unseen == IF worker = "popped" THEN 1 ELSE 0
InSection(phase) == IF mutex # NoRequest /\ call[mutex] = phase THEN 1 ELSE 0
Uncounted == IF mutex = NoRequest THEN 0 ELSE 1

\* The command in hand, once it may have changed the engine.
Ran == IF worker \in BusyWorker \ Unexecuted THEN 1 ELSE 0

\* The counters, corrected by what is not stored yet, agree with the queue.
DepthInv ==
  /\ Len(queue) <= MaxQueueDepth
  /\ metrics.depth + InSection("pushed") = Len(queue) + Unseen
  /\ metrics.depth <= MaxQueueDepth
  /\ metrics.depth <= metrics.depthMax + InSection("stored")
  /\ metrics.depthMax <= MaxQueueDepth
TotalsInv ==
  /\ metrics.enqueued + Uncounted = metrics.completed + Len(queue) + InHand
  /\ Len(applied) <= metrics.completed + Ran

\* How many commands are queued is a number, and so are the corrections.
LEMMA CountersAreNumbers ==
  ASSUME TypeOK
  PROVE  /\ Len(queue) \in Nat /\ MaxQueueDepth \in Nat /\ Len(applied) \in Nat
         /\ metrics.depth \in Nat /\ metrics.depthMax \in Nat
         /\ metrics.enqueued \in Nat /\ metrics.completed \in Nat
         /\ Unseen \in 0..1 /\ Uncounted \in 0..1 /\ Ran \in 0..1
         /\ InHand \in 0..1
         /\ \A phase : InSection(phase) \in 0..1
<1>1. /\ queue \in Seq(Requests) /\ applied \in Seq(Requests)
      /\ metrics \in Metrics
  BY DEF TypeOK
<1>2. /\ metrics.depth \in Nat /\ metrics.depthMax \in Nat
      /\ metrics.enqueued \in Nat /\ metrics.completed \in Nat
  BY <1>1 DEF Metrics
<1> QED
  BY <1>1, <1>2, QueueAssumption DEF Unseen, Uncounted, Ran, InHand, InSection

\* A step that leaves the queue, its lock and its counters alone.
LEMMA CountersQuiet ==
  ASSUME DepthInv, TotalsInv, TypeOK,
         UNCHANGED <<queue, mutex, applied, current>>,
         /\ metrics'.depth = metrics.depth
         /\ metrics'.depthMax = metrics.depthMax
         /\ metrics'.enqueued = metrics.enqueued
         /\ metrics'.completed = metrics.completed,
         mutex # NoRequest => call'[mutex] = call[mutex],
         worker' = "popped" <=> worker = "popped",
         Ran' = Ran
  PROVE  DepthInv' /\ TotalsInv'
<1>1. /\ InSection("pushed")' = InSection("pushed")
      /\ InSection("stored")' = InSection("stored")
  BY DEF InSection
<1>2. Unseen' = Unseen /\ Uncounted' = Uncounted /\ InHand' = InHand
  BY DEF Unseen, Uncounted, InHand
<1> QED
  BY <1>1, <1>2 DEF DepthInv, TotalsInv

\* A push, and the three stores that follow it under the lock.
LEMMA PushCounts ==
  ASSUME TypeOK, LockInv, DepthInv, TotalsInv, NEW r \in Requests,
         Enqueue(r) \/ Counting(r)
  PROVE  DepthInv' /\ TotalsInv'
<1>0. /\ call \in [Requests -> Calls] /\ queue \in Seq(Requests)
      /\ metrics \in Metrics /\ r # NoRequest
  BY QueueAssumption DEF TypeOK
<1>1. UNCHANGED <<worker, current, applied>>
  BY CountingFacts DEF Enqueue
<1>2. Unseen' = Unseen /\ InHand' = InHand /\ Ran' = Ran
  BY <1>1 DEF Unseen, InHand, Ran
<1>3. CASE Enqueue(r)
  <2>1. /\ mutex = NoRequest /\ mutex' = r /\ worker # "popped"
        /\ Len(queue) < MaxQueueDepth /\ queue' = Append(queue, r)
        /\ call' = [call EXCEPT ![r] = "pushed"] /\ metrics' = metrics
    BY <1>3 DEF Enqueue, MayPush, Unlocked
  <2>2. Len(queue') = Len(queue) + 1
    BY <1>0, <2>1
  <2>3. /\ InSection("pushed") = 0 /\ InSection("pushed")' = 1
        /\ InSection("stored") = 0 /\ InSection("stored")' = 0
        /\ Uncounted = 0 /\ Uncounted' = 1
    BY <1>0, <2>1 DEF InSection, Uncounted
  <2> QED
    <3>1. DepthInv'
      BY <1>2, <2>1, <2>2, <2>3, CountersAreNumbers DEF DepthInv
    <3>2. TotalsInv'
      <4>1. /\ metrics'.enqueued = metrics.enqueued
            /\ metrics'.completed = metrics.completed
            /\ Len(applied') = Len(applied) /\ Ran' = Ran /\ InHand' = InHand
        BY <1>1, <1>2, <2>1
      <4>2. /\ metrics.enqueued \in Nat /\ metrics.completed \in Nat
            /\ Len(queue) \in Nat /\ InHand \in Nat
        BY CountersAreNumbers
      <4>3. metrics.enqueued + 0 = metrics.completed + Len(queue) + InHand
        BY <2>3 DEF TotalsInv
      <4> QED
        BY <2>2, <2>3, <4>1, <4>2, <4>3 DEF TotalsInv
    <3> QED
      BY <3>1, <3>2
<1>4. CASE StoreDepth(r)
  <2>1. /\ call[r] = "pushed" /\ call' = [call EXCEPT ![r] = "stored"]
        /\ UNCHANGED <<mutex, queue>>
        /\ metrics' = [metrics EXCEPT !.depth = Len(queue)]
    BY <1>4 DEF StoreDepth, CallMoves
  <2>2. mutex = r /\ worker # "popped"
    BY <1>0, <2>1 DEF LockInv, Pushing
  <2>3. /\ metrics'.depth = Len(queue) /\ metrics'.depthMax = metrics.depthMax
        /\ metrics'.enqueued = metrics.enqueued
        /\ metrics'.completed = metrics.completed
    BY <1>0, <2>1 DEF Metrics
  <2>4. /\ InSection("pushed") = 1 /\ InSection("pushed")' = 0
        /\ InSection("stored") = 0 /\ InSection("stored")' = 1
        /\ Uncounted' = Uncounted /\ Unseen = 0
    BY <1>0, <2>1, <2>2 DEF InSection, Uncounted, Unseen
  <2> QED
    BY <1>1, <1>2, <2>1, <2>3, <2>4, CountersAreNumbers DEF DepthInv, TotalsInv
<1>5. CASE RaiseMax(r)
  <2>1. /\ call[r] = "stored" /\ call' = [call EXCEPT ![r] = "raised"]
        /\ UNCHANGED <<mutex, queue>>
        /\ metrics' = [metrics EXCEPT !.depthMax = Larger(@, Len(queue))]
    BY <1>5 DEF RaiseMax, CallMoves
  <2>2. mutex = r /\ worker # "popped"
    BY <1>0, <2>1 DEF LockInv, Pushing
  <2>3. /\ metrics'.depth = metrics.depth
        /\ metrics'.depthMax = Larger(metrics.depthMax, Len(queue))
        /\ metrics'.enqueued = metrics.enqueued
        /\ metrics'.completed = metrics.completed
    BY <1>0, <2>1 DEF Metrics
  <2>4. /\ InSection("pushed") = 0 /\ InSection("pushed")' = 0
        /\ InSection("stored")' = 0
        /\ Uncounted' = Uncounted /\ Unseen = 0
    BY <1>0, <2>1, <2>2 DEF InSection, Uncounted, Unseen
  <2>5. /\ metrics'.depthMax \in Nat /\ Len(queue) <= metrics'.depthMax
        /\ metrics'.depthMax = metrics.depthMax \/ metrics'.depthMax = Len(queue)
    BY <2>3, CountersAreNumbers, LargerIs
  <2>6. DepthInv'
    BY <1>2, <2>1, <2>3, <2>4, <2>5, CountersAreNumbers DEF DepthInv
  <2>7. TotalsInv'
    BY <1>1, <1>2, <2>1, <2>3, <2>4, CountersAreNumbers DEF TotalsInv
  <2> QED
    BY <2>6, <2>7
<1>6. CASE CountEnqueued(r)
  <2>1. /\ call[r] = "raised" /\ call' = [call EXCEPT ![r] = "counted"]
        /\ mutex' = NoRequest /\ UNCHANGED queue
        /\ metrics' = [metrics EXCEPT !.enqueued = @ + 1]
    BY <1>6 DEF CountEnqueued, CallMoves
  <2>2. mutex = r
    BY <1>0, <2>1 DEF LockInv, Pushing
  <2>3. /\ metrics'.depth = metrics.depth /\ metrics'.depthMax = metrics.depthMax
        /\ metrics'.enqueued = metrics.enqueued + 1
        /\ metrics'.completed = metrics.completed
    BY <1>0, <2>1 DEF Metrics
  <2>4. /\ InSection("pushed") = 0 /\ InSection("pushed")' = 0
        /\ InSection("stored") = 0 /\ InSection("stored")' = 0
        /\ Uncounted = 1 /\ Uncounted' = 0
    BY <1>0, <2>1, <2>2 DEF InSection, Uncounted
  <2> QED
    BY <1>1, <1>2, <2>1, <2>3, <2>4, CountersAreNumbers DEF DepthInv, TotalsInv
<1> QED
  BY <1>3, <1>4, <1>5, <1>6 DEF Counting

\* A pop, the store that follows it, an effect, and the end of an iteration.
LEMMA PopCounts ==
  ASSUME TypeOK, LockInv, DepthInv, TotalsInv,
         Take \/ ObserveDepth \/ Execute \/ ExecuteThrows \/ Count
  PROVE  DepthInv' /\ TotalsInv'
<1>0. /\ queue \in Seq(Requests) /\ applied \in Seq(Requests)
      /\ metrics \in Metrics /\ NoRequest \notin Requests
      /\ worker \in BusyWorker <=> current # NoRequest
      /\ current \in Requests \cup {NoRequest}
  BY QueueAssumption DEF TypeOK
<1>1. UNCHANGED <<call, mutex>>
  BY DEF Take, ObserveDepth, Execute, ExecuteThrows, Count, clientVars
<1>2. /\ InSection("pushed")' = InSection("pushed")
      /\ InSection("stored")' = InSection("stored")
      /\ Uncounted' = Uncounted
  BY <1>1 DEF InSection, Uncounted
<1>3. CASE Take
  <2>1. /\ queue # << >> /\ queue' = Tail(queue) /\ current' = Head(queue)
        /\ worker = "ready" /\ worker' = "popped" /\ mutex = NoRequest
        /\ UNCHANGED <<applied, metrics>>
    BY <1>3 DEF Take, WorkerMoves, Unlocked
  <2>2. Len(queue') = Len(queue) - 1 /\ current' \in Requests
    BY <1>0, <2>1
  <2>3. current = NoRequest
    BY <1>0, <2>1 DEF BusyWorker, Unexecuted
  <2>4. /\ Unseen = 0 /\ Unseen' = 1 /\ InHand = 0 /\ InHand' = 1
        /\ Ran = 0 /\ Ran' = 0
    BY <1>0, <2>1, <2>2, <2>3 DEF Unseen, InHand, Ran, BusyWorker, Unexecuted
  <2> QED
    BY <1>2, <2>1, <2>2, <2>4, CountersAreNumbers DEF DepthInv, TotalsInv
<1>4. CASE ObserveDepth
  <2>1. /\ worker = "popped" /\ worker' = "executing"
        /\ metrics' = [metrics EXCEPT !.depth = Len(queue),
                                      !.depthMax = Larger(@, Len(queue))]
        /\ UNCHANGED <<queue, current, applied>>
    BY <1>4 DEF ObserveDepth, WorkerMoves
  <2>2. mutex = NoRequest
    BY <2>1 DEF LockInv
  <2>3. /\ metrics'.depth = Len(queue)
        /\ metrics'.depthMax = Larger(metrics.depthMax, Len(queue))
        /\ metrics'.enqueued = metrics.enqueued
        /\ metrics'.completed = metrics.completed
    BY <1>0, <2>1 DEF Metrics
  <2>4. /\ Unseen = 1 /\ Unseen' = 0 /\ InHand' = InHand
        /\ Ran = 0 /\ Ran' = 0
        /\ InSection("pushed") = 0 /\ InSection("stored") = 0
    BY <2>1, <2>2 DEF Unseen, InHand, Ran, BusyWorker, Unexecuted, InSection
  <2>5. /\ metrics'.depthMax \in Nat /\ Len(queue) <= metrics'.depthMax
        /\ metrics'.depthMax = metrics.depthMax \/ metrics'.depthMax = Len(queue)
    BY <2>3, CountersAreNumbers, LargerIs
  <2>6. DepthInv'
    BY <1>2, <2>1, <2>3, <2>4, <2>5, CountersAreNumbers DEF DepthInv
  <2>7. TotalsInv'
    BY <1>2, <2>1, <2>3, <2>4, CountersAreNumbers DEF TotalsInv
  <2> QED
    BY <2>6, <2>7
<1>5. CASE Execute \/ ExecuteThrows
  <2>1. /\ worker = "executing" /\ worker' \in {"succeeded", "threw"}
        /\ applied' \in {applied, Append(applied, current)}
        /\ UNCHANGED <<queue, current, metrics>>
    BY <1>5 DEF Execute, ExecuteThrows, WorkerMoves
  <2>2. /\ Len(applied') \in Nat
        /\ Len(applied') <= Len(applied) + 1
    BY <1>0, <2>1 DEF BusyWorker, Unexecuted
  <2>3. /\ Unseen = 0 /\ Unseen' = 0 /\ InHand' = InHand
        /\ Ran = 0 /\ Ran' = 1
    BY <2>1 DEF Unseen, InHand, Ran, BusyWorker, Unexecuted
  <2> QED
    BY <1>2, <2>1, <2>2, <2>3, CountersAreNumbers DEF DepthInv, TotalsInv
<1>6. CASE Count
  <2>1. /\ worker = "counting" /\ worker' = "ready" /\ current' = NoRequest
        /\ metrics' = [metrics EXCEPT !.completed = @ + 1]
        /\ UNCHANGED <<queue, applied>>
    BY <1>6 DEF Count, WorkerMoves
  <2>2. current # NoRequest
    BY <1>0, <2>1 DEF BusyWorker
  <2>3. /\ metrics'.depth = metrics.depth /\ metrics'.depthMax = metrics.depthMax
        /\ metrics'.enqueued = metrics.enqueued
        /\ metrics'.completed = metrics.completed + 1
    BY <1>0, <2>1 DEF Metrics
  <2>4. /\ Unseen = 0 /\ Unseen' = 0 /\ InHand = 1 /\ InHand' = 0
        /\ Ran = 1 /\ Ran' = 0
    BY <2>1, <2>2 DEF Unseen, InHand, Ran, BusyWorker, Unexecuted
  <2> QED
    BY <1>2, <2>1, <2>3, <2>4, CountersAreNumbers DEF DepthInv, TotalsInv
<1> QED
  BY <1>3, <1>4, <1>5, <1>6

\* No step lets the counters drift from what they count.
LEMMA CountersStep ==
  TypeOK /\ LockInv /\ DepthInv /\ TotalsInv /\ [Next]_vars
    => DepthInv' /\ TotalsInv'
<1> SUFFICES ASSUME TypeOK, LockInv, DepthInv, TotalsInv, [Next]_vars
             PROVE  DepthInv' /\ TotalsInv'
  OBVIOUS
<1>0. metrics \in Metrics /\ call \in [Requests -> Calls]
  BY DEF TypeOK
<1>1. ASSUME NEW r \in Requests, RefuseStopped(r) \/ RefuseBusy(r) \/ Notify(r)
                                \/ Collect(r) \/ TimeOut(r)
      PROVE  DepthInv' /\ TotalsInv'
  <2>1. /\ UNCHANGED <<queue, mutex, applied, current>>
        /\ worker' = worker \/ (worker = "asleep" /\ worker' = "ready")
        /\ call[r] \in {"new", "counted", "waiting"}
        /\ \E to \in {"waiting", "done"} : call' = [call EXCEPT ![r] = to]
    BY <1>1 DEF RefuseStopped, RefuseBusy, Refuse, Finishes, Notify, Collect,
                TimeOut
  <2>2. metrics' \in {metrics, [metrics EXCEPT !.rejected = @ + 1],
                      [metrics EXCEPT !.timedOut = @ + 1]}
    BY <1>1 DEF RefuseStopped, RefuseBusy, Refuse, Notify, Collect, TimeOut
  <2>3. /\ metrics'.depth = metrics.depth /\ metrics'.depthMax = metrics.depthMax
        /\ metrics'.enqueued = metrics.enqueued
        /\ metrics'.completed = metrics.completed
    BY <1>0, <2>2 DEF Metrics
  <2>4. mutex # NoRequest => call'[mutex] = call[mutex]
    <3>1. SUFFICES ASSUME mutex # NoRequest PROVE call'[mutex] = call[mutex]
      OBVIOUS
    <3>2. mutex \in Requests /\ call[mutex] \in Pushing
      BY <3>1 DEF LockInv, TypeOK
    <3> QED
      BY <1>0, <2>1, <3>2 DEF Pushing
  <2>5. Ran' = Ran /\ (worker' = "popped" <=> worker = "popped")
    BY <2>1 DEF Ran, BusyWorker, Unexecuted
  <2> QED
    BY <2>1, <2>3, <2>4, <2>5, CountersQuiet
<1>2. ASSUME NEW r \in Requests, Enqueue(r) \/ Counting(r)
      PROVE  DepthInv' /\ TotalsInv'
  BY <1>2, PushCounts
<1>3. CASE Take \/ ObserveDepth \/ Execute \/ ExecuteThrows \/ Count
  BY <1>3, PopCounts
<1>4. CASE \/ Sleep \/ Exit \/ Settle \/ Publish \/ SpuriousWakeup
           \/ Stop \/ NotifyAll \/ Join \/ UNCHANGED vars
  <2>1. UNCHANGED <<queue, mutex, applied, current, metrics, call>>
    BY <1>4 DEF Sleep, Exit, Settle, Publish, SpuriousWakeup, Stop, NotifyAll,
                Join, clientVars, vars
  <2>2. \/ worker' = worker
        \/ worker \in {"ready", "asleep"} /\ worker' \in {"ready", "asleep", "exited"}
        \/ worker \in {"succeeded", "threw", "publishing"}
           /\ worker' \in {"publishing", "counting"}
    BY <1>4 DEF Sleep, Exit, Settle, Publish, SpuriousWakeup, Stop, NotifyAll,
                Join, WorkerMoves, vars
  <2>3. Ran' = Ran /\ (worker' = "popped" <=> worker = "popped")
    BY <2>2 DEF Ran, BusyWorker, Unexecuted
  <2> QED
    BY <2>1, <2>3, CountersQuiet
<1> QED
  BY <1>1, <1>2, <1>3, <1>4 DEF Next, ClientNext, WorkerNext, Submit, Counting

\* All counters start at zero on an empty queue.
LEMMA CountersInit == Init => DepthInv /\ TotalsInv
  BY QueueAssumption DEF Init, DepthInv, TotalsInv, InSection, Unseen,
     Uncounted, InHand, Ran, BusyWorker, Unexecuted

\* With the mutex free nothing is left to store, and the counters agree with
\* the queue; at any other moment they are off by what is left to store.
LEMMA CountersFollow ==
  ASSUME TypeOK, LockInv, DepthInv, TotalsInv
  PROVE  CountersBalance
<1>1. Unlocked => CountersAgree
  <2>1. SUFFICES ASSUME Unlocked PROVE CountersAgree
    OBVIOUS
  <2>2. /\ InSection("pushed") = 0 /\ InSection("stored") = 0
        /\ Unseen = 0 /\ Uncounted = 0
    BY <2>1 DEF Unlocked, InSection, Unseen, Uncounted
  <2> QED
    BY <2>2, CountersAreNumbers DEF DepthInv, TotalsInv, CountersAgree
<1>2. Unseen <= InHand /\ Ran <= InHand
  BY DEF TypeOK, Unseen, Ran, InHand, BusyWorker, Unexecuted
<1>3. Uncounted <= Len(queue)
  BY DEF LockInv, TypeOK, Uncounted
<1>4. CountersBounded
  <2>1. InSection("pushed") \in 0..1 /\ InSection("stored") \in 0..1
    BY CountersAreNumbers
  <2>2. metrics.depth <= Len(queue) + InHand
    BY <1>2, <2>1, CountersAreNumbers DEF DepthInv
  <2>3. /\ metrics.depth <= MaxQueueDepth /\ metrics.depthMax <= MaxQueueDepth
        /\ metrics.depth <= metrics.depthMax + 1
    BY <2>1, CountersAreNumbers DEF DepthInv
  <2>4. metrics.depth <= metrics.enqueued + 1
    BY <2>2, CountersAreNumbers DEF TotalsInv
  <2>5. metrics.enqueued <= metrics.completed + MaxQueueDepth + 1
    BY CountersAreNumbers DEF DepthInv, TotalsInv
  <2>6. /\ Len(applied) <= metrics.enqueued
        /\ Len(applied) <= metrics.completed + 1
    BY <1>2, <1>3, CountersAreNumbers DEF TotalsInv
  <2> QED
    BY <2>3, <2>4, <2>5, <2>6 DEF CountersBounded
<1> QED
  BY <1>1, <1>4 DEF CountersBalance

\* The counters of the status endpoint agree with the queue whenever its mutex
\* is free and stay within their bounds while somebody holds it.
THEOREM CountersCorrect == Spec => []CountersBalance
<1>1. TypeOK /\ LockInv /\ DepthInv /\ TotalsInv => CountersBalance
  BY CountersFollow
<1>2. Spec => [](TypeOK /\ LockInv)
  BY TypeCorrect, LockInit, LockStep, PTL DEF Spec
<1> QED
  BY <1>1, <1>2, CountersInit, CountersStep, PTL DEF Spec

\* The bounds of CountersBounded survive the time between two loads, if the
\* left side is loaded first: the counters on the right never fall.
CountersGrow ==
  /\ metrics.depthMax <= metrics'.depthMax
  /\ metrics.enqueued <= metrics'.enqueued
  /\ metrics.completed <= metrics'.completed

\* No step, of a handler or of the worker, lowers depthMax, enqueued or
\* completed.
THEOREM CountersOnlyGrow == Spec => [][CountersGrow]_vars
<1>1. ASSUME TypeOK, [Next]_vars PROVE CountersGrow
  <2>0. /\ metrics \in Metrics /\ Len(queue) \in Nat
        /\ metrics.depthMax \in Nat /\ metrics.enqueued \in Nat
        /\ metrics.completed \in Nat
    BY <1>1, CountersAreNumbers DEF TypeOK
  <2>1. ASSUME NEW r \in Requests, ClientNext(r) PROVE CountersGrow
    <3>1. \/ metrics' = metrics
          \/ metrics' = [metrics EXCEPT !.rejected = @ + 1]
          \/ metrics' = [metrics EXCEPT !.timedOut = @ + 1]
          \/ metrics' = [metrics EXCEPT !.depth = Len(queue)]
          \/ metrics' = [metrics EXCEPT !.depthMax = Larger(@, Len(queue))]
          \/ metrics' = [metrics EXCEPT !.enqueued = @ + 1]
      BY <2>1 DEF ClientNext, RefuseStopped, RefuseBusy, Refuse, Enqueue,
                  Submit, StoreDepth, RaiseMax, CountEnqueued, Notify, Collect,
                  TimeOut
    <3>2. metrics.depthMax <= Larger(metrics.depthMax, Len(queue))
      BY <2>0, LargerIs
    <3>3. /\ metrics'.depthMax \in {metrics.depthMax,
                                    Larger(metrics.depthMax, Len(queue))}
          /\ metrics'.enqueued \in {metrics.enqueued, metrics.enqueued + 1}
          /\ metrics'.completed = metrics.completed
      BY <2>0, <3>1 DEF Metrics
    <3> QED
      BY <2>0, <3>2, <3>3 DEF CountersGrow
  <2>2. CASE WorkerNext \/ SpuriousWakeup
    <3>1. \/ metrics' = metrics
          \/ metrics' = [metrics EXCEPT !.depth = Len(queue),
                                        !.depthMax = Larger(@, Len(queue))]
          \/ metrics' = [metrics EXCEPT !.completed = @ + 1]
      BY <2>2 DEF WorkerNext, SpuriousWakeup, Sleep, Exit, Take, ObserveDepth,
                  Execute, ExecuteThrows, Settle, Publish, Count
    <3>2. metrics.depthMax <= Larger(metrics.depthMax, Len(queue))
      BY <2>0, LargerIs
    <3>3. /\ metrics'.depthMax \in {metrics.depthMax,
                                    Larger(metrics.depthMax, Len(queue))}
          /\ metrics'.enqueued = metrics.enqueued
          /\ metrics'.completed \in {metrics.completed, metrics.completed + 1}
      BY <2>0, <3>1 DEF Metrics
    <3> QED
      BY <2>0, <3>2, <3>3 DEF CountersGrow
  <2>3. CASE Stop \/ NotifyAll \/ Join \/ UNCHANGED vars
    <3>1. metrics' = metrics
      BY <2>3 DEF Stop, NotifyAll, Join, vars
    <3> QED
      BY <2>0, <3>1 DEF CountersGrow
  <2> QED
    BY <1>1, <2>1, <2>2, <2>3 DEF Next
<1> QED
  BY <1>1, TypeCorrect, PTL DEF Spec

-----------------------------------------------------------------------------
(* The published views.                                                    *)

\* Between publications the engine state runs at most one effect ahead, and
\* only while the worker is between executing and publishing.
ViewInv ==
  /\ worker \in {"ready", "asleep", "exited", "counting"} \cup Unexecuted =>
       view = applied
  /\ \/ applied = view
     \/ applied = Append(view, current)

\* Only the worker changes the engine, and it publishes before it pops again.
LEMMA ViewStep == TypeOK /\ ViewInv /\ [Next]_vars => ViewInv'
<1> SUFFICES ASSUME TypeOK, ViewInv, [Next]_vars PROVE ViewInv'
  OBVIOUS
<1> USE DEF ViewInv, WorkerMoves, Unexecuted
<1>1. CASE Execute \/ ExecuteThrows
  BY <1>1 DEF Execute, ExecuteThrows
<1>2. CASE Settle
  BY <1>2 DEF Settle
<1>3. CASE Publish
  BY <1>3 DEF Publish
<1>4. CASE Take \/ ObserveDepth \/ Count
  BY <1>4 DEF Take, ObserveDepth, Count
<1>5. CASE Sleep \/ Exit \/ SpuriousWakeup
  BY <1>5 DEF Sleep, Exit, SpuriousWakeup
<1>6. CASE (\E r \in Requests : Notify(r)) \/ NotifyAll
  BY <1>6 DEF Notify, NotifyAll
<1>7. CASE Stop \/ Join
  BY <1>7 DEF Stop, Join
<1>8. ASSUME NEW r \in Requests, RefuseStopped(r) \/ RefuseBusy(r) \/ Enqueue(r)
                                \/ Collect(r) \/ TimeOut(r)
      PROVE  ViewInv'
  BY <1>8 DEF RefuseStopped, RefuseBusy, Refuse, Enqueue, Collect, TimeOut
<1>9. CASE UNCHANGED vars
  BY <1>9 DEF vars
<1>10. ASSUME NEW r \in Requests, Counting(r) PROVE ViewInv'
  BY <1>10, CountingFacts
<1> QED
  BY <1>1, <1>2, <1>3, <1>4, <1>5, <1>6, <1>7, <1>8, <1>9, <1>10
     DEF Next, ClientNext, WorkerNext, Submit, Counting

\* The first views show the initial engine.
LEMMA ViewInit == Init => ViewInv
  BY DEF Init, ViewInv

\* Readers see the engine as it was before at most one command.
THEOREM ViewCorrect == Spec => []ViewLagsByOne
<1>1. TypeOK /\ ViewInv => ViewLagsByOne
  <2> SUFFICES ASSUME TypeOK, ViewInv PROVE ViewLagsByOne
    OBVIOUS
  <2>0. view \in Seq(Requests) /\ applied \in Seq(Requests)
    BY DEF TypeOK
  <2>1. CASE applied = view
    BY <2>0, <2>1 DEF ViewLagsByOne, IsPrefix, InHand
  <2>2. CASE applied # view
    <3>1. applied = Append(view, current) /\ current # NoRequest
      BY <2>2 DEF ViewInv, TypeOK, Workers, BusyWorker, Unexecuted
    <3>2. /\ Len(applied) = Len(view) + 1
          /\ \A i \in 1..Len(view) : applied[i] = view[i]
          /\ InHand = 1
      BY <2>0, <3>1 DEF InHand
    <3>3. SubSeq(view, 1, Len(view)) = SubSeq(applied, 1, Len(view))
      BY <2>0, <3>2
    <3> QED
      BY <2>0, <3>1, <3>2, <3>3 DEF ViewLagsByOne, IsPrefix
  <2> QED
    BY <2>1, <2>2
<1> QED
  BY <1>1, TypeCorrect, ViewInit, ViewStep, PTL DEF Spec

-----------------------------------------------------------------------------
(* Order of effects.                                                       *)

\* How many accepted commands the worker has finished executing.
Executed == Taken - (IF worker \in Unexecuted THEN 1 ELSE 0)

\* Effects stem from executed commands, in order of acceptance. The second
\* conjunct alone is not inductive: the next effect must come after all others.
OrderInv ==
  /\ \A i \in DOMAIN applied : \E l \in 1..Executed : accepted[l] = applied[i]
  /\ AppliedInOrder

\* What the order of effects depends on is only changed by four actions.
LEMMA OrderFootprint ==
  ASSUME [Next]_vars
  PROVE  \/ \E r \in Requests : Enqueue(r)
         \/ Take
         \/ Execute \/ ExecuteThrows
         \/ /\ UNCHANGED <<accepted, queue, applied>>
            /\ worker' \in Unexecuted <=> worker \in Unexecuted
<1>1. ASSUME NEW r \in Requests, RefuseStopped(r) \/ RefuseBusy(r)
                                \/ Notify(r) \/ Collect(r) \/ TimeOut(r)
      PROVE  /\ UNCHANGED <<accepted, queue, applied>>
             /\ worker' \in Unexecuted <=> worker \in Unexecuted
  BY <1>1 DEF RefuseStopped, RefuseBusy, Refuse, Notify, Collect, TimeOut,
              Unexecuted
<1>2. ASSUME \/ ObserveDepth \/ Sleep \/ Exit \/ Settle \/ Publish \/ Count
             \/ SpuriousWakeup \/ Stop \/ NotifyAll \/ Join \/ UNCHANGED vars
      PROVE  /\ UNCHANGED <<accepted, queue, applied>>
             /\ worker' \in Unexecuted <=> worker \in Unexecuted
  BY <1>2 DEF ObserveDepth, Sleep, Exit, Settle, Publish, Count,
              SpuriousWakeup, Stop, NotifyAll, Join, WorkerMoves, vars, Unexecuted
<1>3. ASSUME NEW r \in Requests, Counting(r)
      PROVE  /\ UNCHANGED <<accepted, queue, applied>>
             /\ worker' \in Unexecuted <=> worker \in Unexecuted
  BY <1>3, CountingFacts
<1> QED
  BY <1>1, <1>2, <1>3 DEF Next, ClientNext, WorkerNext, Submit, Counting

\* The engine gains effects in the order of popping, which is the order of
\* acceptance.
LEMMA OrderStep ==
  TypeOK /\ QueueIsBacklog /\ ServiceInv /\ OrderInv /\ [Next]_vars => OrderInv'
<1> SUFFICES ASSUME TypeOK, QueueIsBacklog, ServiceInv, OrderInv, [Next]_vars
             PROVE  OrderInv'
  OBVIOUS
<1>0. /\ queue \in Seq(Requests) /\ accepted \in Seq(Requests)
      /\ applied \in Seq(Requests)
      /\ Taken \in Nat /\ Taken <= Len(accepted)
  BY DEF TypeOK, QueueIsBacklog, Taken
<1>1. ASSUME NEW r \in Requests, Enqueue(r) PROVE OrderInv'
  <2>1. /\ queue' = Append(queue, r) /\ accepted' = Append(accepted, r)
        /\ UNCHANGED <<applied, worker>>
    BY <1>1 DEF Enqueue
  <2>2. /\ Taken' = Taken /\ Executed' = Executed
        /\ \A i \in DOMAIN accepted : i \in DOMAIN accepted'
                                     /\ accepted'[i] = accepted[i]
    BY <1>0, <2>1 DEF Taken, Executed
  <2>3. Executed \in Int /\ Executed <= Len(accepted)
    BY <1>0 DEF Executed
  <2>4. AppliedInOrder'
    BY <1>0, <2>1, <2>2 DEF OrderInv, AppliedInOrder
  <2>5. \A i \in DOMAIN applied' :
          \E l \in 1..Executed' : accepted'[l] = applied'[i]
    BY <1>0, <2>1, <2>2, <2>3 DEF OrderInv
  <2> QED
    BY <2>4, <2>5 DEF OrderInv
<1>2. CASE Take
  <2>1. /\ queue # << >> /\ queue' = Tail(queue)
        /\ worker = "ready" /\ worker' = "popped"
        /\ UNCHANGED <<accepted, applied>>
    BY <1>2 DEF Take, WorkerMoves
  <2>2. Executed' = Executed
    BY <1>0, <2>1 DEF Executed, Taken, Unexecuted
  <2> QED
    BY <2>1, <2>2 DEF OrderInv, AppliedInOrder
<1>3. CASE Execute \/ ExecuteThrows
  <2>1. /\ worker = "executing" /\ worker' \in {"succeeded", "threw"}
        /\ applied' \in {applied, Append(applied, current)}
        /\ UNCHANGED <<queue, accepted>>
    BY <1>3 DEF Execute, ExecuteThrows, WorkerMoves
  <2>2. /\ Executed' = Taken /\ Executed = Taken - 1 /\ Taken > 0
        /\ accepted[Taken] = current /\ current \in Requests
    BY <1>0, <2>1 DEF Executed, Taken, ServiceInv, TypeOK, BusyWorker,
                         Unexecuted
  <2>3. CASE applied' = applied
    BY <1>0, <2>1, <2>2, <2>3 DEF OrderInv, AppliedInOrder
  <2>4. CASE applied' = Append(applied, current)
    <3>1. /\ DOMAIN applied' = 1..(Len(applied) + 1)
          /\ \A i \in 1..Len(applied) : applied'[i] = applied[i]
          /\ applied'[Len(applied) + 1] = current
      BY <1>0, <2>2, <2>4
    <3>2. \A i \in DOMAIN applied' :
            \E l \in 1..Executed' : accepted'[l] = applied'[i]
      <4>1. SUFFICES ASSUME NEW i \in DOMAIN applied'
                     PROVE  \E l \in 1..Executed' : accepted'[l] = applied'[i]
        OBVIOUS
      <4>2. CASE i \in 1..Len(applied)
        <5>1. i \in DOMAIN applied /\ applied'[i] = applied[i]
          BY <1>0, <3>1, <4>2
        <5>2. PICK l \in 1..Executed : accepted[l] = applied[i]
          BY <5>1 DEF OrderInv
        <5>3. l \in 1..Executed'
          BY <1>0, <2>2, <5>2
        <5> QED
          BY <2>1, <5>1, <5>2, <5>3
      <4>3. CASE i = Len(applied) + 1
        <5>1. Taken \in 1..Executed'
          BY <1>0, <2>2
        <5> QED
          BY <2>1, <2>2, <3>1, <4>3, <5>1
      <4> QED
        BY <1>0, <3>1, <4>1, <4>2, <4>3
    <3>3. ASSUME NEW i \in DOMAIN applied', NEW j \in DOMAIN applied', i < j
          PROVE  \E k, l \in DOMAIN accepted' :
                   k < l /\ accepted'[k] = applied'[i] /\ accepted'[l] = applied'[j]
      <4>1. CASE j \in DOMAIN applied
        BY <1>0, <2>1, <3>1, <3>3, <4>1 DEF OrderInv, AppliedInOrder
      <4>2. CASE j = Len(applied) + 1
        <5>1. PICK k \in 1..Executed : accepted[k] = applied[i]
          BY <1>0, <3>1, <3>3, <4>2 DEF OrderInv
        <5>2. k \in DOMAIN accepted /\ Taken \in DOMAIN accepted /\ k < Taken
          BY <1>0, <2>2, <5>1
        <5>3. applied'[i] = applied[i] /\ applied'[j] = current
          BY <1>0, <3>1, <3>3, <4>2
        <5> QED
          BY <2>1, <2>2, <5>1, <5>2, <5>3
      <4> QED
        BY <1>0, <3>1, <4>1, <4>2
    <3> QED
      BY <3>2, <3>3 DEF OrderInv, AppliedInOrder
  <2> QED
    BY <2>1, <2>3, <2>4
<1>4. CASE /\ UNCHANGED <<accepted, queue, applied>>
           /\ worker' \in Unexecuted <=> worker \in Unexecuted
  <2>1. Executed' = Executed
    BY <1>4 DEF Executed, Taken
  <2> QED
    BY <1>4, <2>1 DEF OrderInv, AppliedInOrder
<1> QED
  BY <1>1, <1>2, <1>3, <1>4, OrderFootprint

\* No effect, no order to keep.
LEMMA OrderInit == Init => OrderInv
  BY DEF Init, OrderInv, AppliedInOrder, Executed, Taken

\* In every reachable state the effects stand in the order of acceptance.
LEMMA OrderInvariant == Spec => []OrderInv
  BY ServiceInvariant, OrderInit, OrderStep, PTL DEF Spec

\* Commands take effect in the order in which they were accepted, whatever
\* timeouts, refusals and failures fall in between.
THEOREM OrderCorrect == Spec => []AppliedInOrder
<1>1. OrderInv => AppliedInOrder
  BY DEF OrderInv
<1> QED
  BY <1>1, OrderInvariant, PTL

-----------------------------------------------------------------------------
(* What the callers are told.                                              *)

\* The worker holds a command it has executed but not answered yet.
Unanswered == {"succeeded", "threw"}

\* How many accepted commands have been answered.
Answered ==
  Taken - (IF worker \in Unexecuted \cup Unanswered THEN 1 ELSE 0)

\* Promises are kept for executed commands only, as values once the effect is
\* there; refused calls end without being accepted.
ReplyInv ==
  /\ \A r \in Requests : promise[r] # "unset" =>
       \E l \in 1..Answered : accepted[l] = r
  /\ \A r \in Requests : promise[r] = "value" => Contains(applied, r)
  /\ worker = "succeeded" => Contains(applied, current)
  /\ \A r \in Requests : reply[r] = "answer" => promise[r] = "value"
  /\ \A r \in Requests : reply[r] \in {"busy", "stopped"} =>
       call[r] = "done" /\ \A i \in DOMAIN accepted : accepted[i] # r

\* An effect is never undone.
LEMMA AppliedFootprint ==
  ASSUME TypeOK, [Next]_vars, NEW r \in Requests, Contains(applied, r)
  PROVE  Contains(applied', r)
<1>1. CASE Execute \/ ExecuteThrows
  <2>1. current \in Requests /\ applied \in Seq(Requests)
    BY <1>1 DEF Execute, ExecuteThrows, WorkerMoves, TypeOK, BusyWorker,
                Unexecuted
  <2>2. applied' \in {applied, Append(applied, current)}
    BY <1>1 DEF Execute, ExecuteThrows
  <2> QED
    BY <2>1, <2>2 DEF Contains
<1>2. CASE UNCHANGED applied
  BY <1>2
<1> QED
  BY <1>1, <1>2, OrderFootprint DEF Enqueue, Take

\* A reply is given only after what it claims has happened, and nothing that
\* happens later takes it back.
LEMMA ReplyStep ==
  TypeOK /\ QueueIsBacklog /\ AcceptedOnce /\ ServiceInv /\ ReplyInv /\ [Next]_vars
    => ReplyInv'
<1> SUFFICES ASSUME TypeOK, QueueIsBacklog, AcceptedOnce, ServiceInv, ReplyInv,
                    [Next]_vars
             PROVE  ReplyInv'
  OBVIOUS
<1>0. /\ queue \in Seq(Requests) /\ accepted \in Seq(Requests)
      /\ call \in [Requests -> Calls] /\ reply \in [Requests -> Replies]
      /\ promise \in [Requests -> Promises]
      /\ Taken \in Nat /\ Taken <= Len(accepted)
      /\ Answered \in Int /\ Answered <= Taken
  BY DEF TypeOK, QueueIsBacklog, Taken, Answered
<1>1. ASSUME NEW r \in Requests, RefuseStopped(r) \/ RefuseBusy(r)
      PROVE  ReplyInv'
  <2>1. /\ UNCHANGED <<promise, accepted, applied, worker, current, queue>>
        /\ call[r] = "new" /\ call' = [call EXCEPT ![r] = "done"]
        /\ reply' \in {[reply EXCEPT ![r] = "busy"], [reply EXCEPT ![r] = "stopped"]}
    BY <1>1 DEF RefuseStopped, RefuseBusy, Refuse, Finishes
  <2>2. Answered' = Answered
    BY <2>1 DEF Answered, Taken
  <2>3. \A i \in DOMAIN accepted : accepted[i] # r
    BY <2>1 DEF AcceptedOnce
  <2>4. \A q \in Requests : reply'[q] = "answer" => promise'[q] = "value"
    BY <1>0, <2>1 DEF ReplyInv
  <2>5. \A q \in Requests : reply'[q] \in {"busy", "stopped"} =>
          call'[q] = "done" /\ \A i \in DOMAIN accepted' : accepted'[i] # q
    BY <1>0, <2>1, <2>3 DEF ReplyInv
  <2> QED
    BY <2>1, <2>2, <2>4, <2>5 DEF ReplyInv
<1>2. ASSUME NEW r \in Requests, Enqueue(r) PROVE ReplyInv'
  <2>1. /\ queue' = Append(queue, r) /\ accepted' = Append(accepted, r)
        /\ call[r] = "new" /\ call' = [call EXCEPT ![r] = "pushed"]
        /\ UNCHANGED <<reply, promise, applied, worker, current>>
    BY <1>2 DEF Enqueue, MayPush
  <2>2. /\ Answered' = Answered
        /\ \A i \in DOMAIN accepted : accepted'[i] = accepted[i]
        /\ \A i \in DOMAIN accepted' : i \in DOMAIN accepted \/ accepted'[i] = r
    BY <1>0, <2>1 DEF Answered, Taken
  <2>3. \A q \in Requests : promise'[q] # "unset" =>
          \E l \in 1..Answered' : accepted'[l] = q
    BY <1>0, <2>1, <2>2 DEF ReplyInv
  <2>4. \A q \in Requests : reply'[q] \in {"busy", "stopped"} =>
          call'[q] = "done" /\ \A i \in DOMAIN accepted' : accepted'[i] # q
    BY <1>0, <2>1, <2>2 DEF ReplyInv
  <2> QED
    BY <2>1, <2>3, <2>4 DEF ReplyInv
<1>3. ASSUME NEW r \in Requests, Notify(r) PROVE ReplyInv'
  <2>1. /\ UNCHANGED <<reply, promise, applied, accepted, queue, current>>
        /\ call[r] = "counted" /\ call' = [call EXCEPT ![r] = "waiting"]
        /\ worker' = worker \/ (worker = "asleep" /\ worker' = "ready")
    BY <1>3 DEF Notify
  <2>2. Answered' = Answered
    BY <2>1 DEF Answered, Taken, Unanswered, Unexecuted
  <2>3. \A q \in Requests : reply'[q] \in {"busy", "stopped"} =>
          call'[q] = "done" /\ \A i \in DOMAIN accepted' : accepted'[i] # q
    BY <1>0, <2>1 DEF ReplyInv
  <2> QED
    BY <2>1, <2>2, <2>3 DEF ReplyInv
<1>4. ASSUME NEW r \in Requests, Collect(r) \/ TimeOut(r) PROVE ReplyInv'
  <2>1. /\ UNCHANGED <<promise, accepted, applied, worker, current, queue>>
        /\ call' = [call EXCEPT ![r] = "done"]
        /\ \/ reply' = [reply EXCEPT ![r] = "answer"] /\ promise[r] = "value"
           \/ reply' = [reply EXCEPT ![r] = "failure"]
           \/ reply' = [reply EXCEPT ![r] = "timeout"]
    BY <1>4 DEF Collect, TimeOut, Finishes
  <2>2. Answered' = Answered
    BY <2>1 DEF Answered, Taken
  <2>3. \A q \in Requests : reply'[q] = "answer" => promise'[q] = "value"
    BY <1>0, <2>1 DEF ReplyInv
  <2>4. \A q \in Requests : reply'[q] \in {"busy", "stopped"} =>
          call'[q] = "done" /\ \A i \in DOMAIN accepted' : accepted'[i] # q
    BY <1>0, <2>1 DEF ReplyInv
  <2> QED
    BY <2>1, <2>2, <2>3, <2>4 DEF ReplyInv
<1>5. CASE Take
  <2>1. /\ queue # << >> /\ queue' = Tail(queue)
        /\ worker = "ready" /\ worker' = "popped"
        /\ UNCHANGED <<accepted, applied, call, reply, promise>>
    BY <1>5 DEF Take, WorkerMoves, clientVars
  <2>2. Answered' = Answered
    BY <1>0, <2>1 DEF Answered, Taken, Unanswered, Unexecuted
  <2> QED
    BY <2>1, <2>2 DEF ReplyInv
<1>6. CASE Execute \/ ExecuteThrows
  <2>1. /\ worker = "executing" /\ worker' \in Unanswered
        /\ UNCHANGED <<accepted, queue, call, reply, promise, current>>
        /\ worker' = "succeeded" => applied' = Append(applied, current)
    BY <1>6 DEF Execute, ExecuteThrows, WorkerMoves, clientVars, Unanswered
  <2>2. Answered' = Answered
    BY <2>1 DEF Answered, Taken, Unexecuted
  <2>3. applied \in Seq(Requests) /\ current \in Requests
    BY <2>1 DEF TypeOK, BusyWorker, Unexecuted
  <2>4. worker' = "succeeded" => Contains(applied', current)
    BY <2>1, <2>3 DEF Contains
  <2>5. \A r \in Requests : promise'[r] = "value" => Contains(applied', r)
    BY <2>1, AppliedFootprint DEF ReplyInv
  <2> QED
    BY <2>1, <2>2, <2>4, <2>5 DEF ReplyInv
<1>7. CASE Settle
  <2>1. /\ worker \in Unanswered /\ worker' = "publishing"
        /\ UNCHANGED <<accepted, queue, applied, call, reply, current>>
        /\ \/ worker = "succeeded" /\ promise' = [promise EXCEPT ![current] = "value"]
           \/ worker = "threw" /\ promise' = [promise EXCEPT ![current] = "exception"]
    BY <1>7 DEF Settle, WorkerMoves, clientVars, Unanswered
  <2>2. current \in Requests /\ current # NoRequest
    BY <2>1, QueueAssumption DEF TypeOK, BusyWorker, Unanswered
  <2>3. /\ Taken > 0 /\ accepted[Taken] = current
        /\ Answered' = Taken /\ Answered = Taken - 1
    BY <2>1, <2>2 DEF ServiceInv, Answered, Taken, Unanswered, Unexecuted
  <2>4. \A r \in Requests : promise'[r] # "unset" =>
          \E l \in 1..Answered' : accepted'[l] = r
    BY <1>0, <2>1, <2>2, <2>3 DEF ReplyInv
  <2>5. \A r \in Requests : promise'[r] = "value" => Contains(applied', r)
    BY <1>0, <2>1, <2>2 DEF ReplyInv
  <2>6. promise[current] = "unset"
    <3>1. SUFFICES ASSUME NEW l \in 1..Answered, accepted[l] = current PROVE FALSE
      BY <2>2 DEF ReplyInv
    <3> QED
      BY <1>0, <2>3, <3>1 DEF QueueIsBacklog
  <2>7. \A r \in Requests : reply'[r] = "answer" => promise'[r] = "value"
    BY <1>0, <2>1, <2>2, <2>6 DEF ReplyInv
  <2> QED
    BY <2>1, <2>4, <2>5, <2>7 DEF ReplyInv
<1>8. CASE Sleep \/ Exit \/ Publish \/ Count \/ SpuriousWakeup
  <2>1. /\ UNCHANGED <<accepted, queue, applied, call, reply, promise>>
        /\ worker \notin Unexecuted \cup Unanswered
        /\ worker' \notin Unexecuted \cup Unanswered
    BY <1>8 DEF Sleep, Exit, Publish, Count, SpuriousWakeup, WorkerMoves,
                clientVars, Unexecuted, Unanswered
  <2>2. Answered' = Answered
    BY <2>1 DEF Answered, Taken, Unanswered, Unexecuted
  <2> QED
    BY <2>1, <2>2 DEF ReplyInv, Unanswered
<1>9. CASE Stop \/ NotifyAll \/ Join \/ UNCHANGED vars
  <2>1. /\ UNCHANGED <<accepted, queue, applied, call, reply, promise, current>>
        /\ worker' = worker \/ (worker = "asleep" /\ worker' = "ready")
    BY <1>9 DEF Stop, NotifyAll, Join, clientVars, vars
  <2>2. Answered' = Answered
    BY <2>1 DEF Answered, Taken, Unanswered, Unexecuted
  <2> QED
    BY <2>1, <2>2 DEF ReplyInv
<1>10. ASSUME NEW r \in Requests, Counting(r) PROVE ReplyInv'
  <2>1. /\ UNCHANGED <<reply, promise, applied, accepted, queue, current, worker>>
        /\ call[r] \in Pushing
        /\ \E to \in {"stored", "raised", "counted"} :
             call' = [call EXCEPT ![r] = to]
    BY <1>10, CountingFacts
  <2>2. Answered' = Answered
    BY <2>1 DEF Answered, Taken
  <2>3. \A q \in Requests : reply'[q] \in {"busy", "stopped"} =>
          call'[q] = "done" /\ \A i \in DOMAIN accepted' : accepted'[i] # q
    <3>1. \A q \in Requests : call[q] = "done" => call'[q] = "done"
      BY <1>0, <2>1 DEF Pushing
    <3> QED
      BY <2>1, <3>1 DEF ReplyInv
  <2> QED
    BY <2>1, <2>2, <2>3 DEF ReplyInv
<1>11. CASE ObserveDepth
  <2>1. /\ UNCHANGED <<reply, promise, applied, accepted, queue, current, call>>
        /\ worker = "popped" /\ worker' = "executing"
    BY <1>11 DEF ObserveDepth, WorkerMoves, clientVars
  <2>2. Answered' = Answered
    BY <2>1 DEF Answered, Taken, Unexecuted
  <2> QED
    BY <2>1, <2>2 DEF ReplyInv
<1> QED
  BY <1>1, <1>2, <1>3, <1>4, <1>5, <1>6, <1>7, <1>8, <1>9, <1>10, <1>11
     DEF Next, ClientNext, WorkerNext, Submit, Counting

\* Nobody has been answered yet.
LEMMA ReplyInit == Init => ReplyInv
  BY DEF Init, ReplyInv

\* The invariants of the boundary hold together in every reachable state.
LEMMA QueueInvariant ==
  Spec => [](TypeOK /\ QueueIsBacklog /\ AcceptedOnce /\ ServiceInv /\ OrderInv
             /\ ReplyInv)
<1>1. TypeOK /\ QueueIsBacklog /\ AcceptedOnce /\ [Next]_vars
        => (QueueIsBacklog /\ AcceptedOnce)'
  BY BacklogStep
<1>2. Spec => []AcceptedOnce
  BY <1>1, TypeCorrect, BacklogInit, PTL DEF Spec
<1> QED
  BY <1>2, ServiceInvariant, OrderInvariant, ReplyInit, ReplyStep, PTL DEF Spec

\* An answer means that the command took effect, a refusal that it never does.
THEOREM RepliesCorrect == Spec => []RepliesAreTruthful
<1>1. TypeOK /\ QueueIsBacklog /\ OrderInv /\ ReplyInv => RepliesAreTruthful
  <2> SUFFICES ASSUME TypeOK, QueueIsBacklog, OrderInv, ReplyInv,
                      NEW r \in Requests
               PROVE  /\ reply[r] = "answer" => Contains(applied, r)
                      /\ reply[r] \in {"busy", "stopped"} =>
                           ~Contains(accepted, r) /\ ~Contains(applied, r)
    BY DEF RepliesAreTruthful
  <2>0. /\ accepted \in Seq(Requests) /\ applied \in Seq(Requests)
        /\ Executed \in Int /\ Executed <= Len(accepted)
    BY DEF TypeOK, QueueIsBacklog, Executed, Taken
  <2>1. reply[r] = "answer" => Contains(applied, r)
    BY DEF ReplyInv
  <2>2. Contains(applied, r) => Contains(accepted, r)
    BY <2>0 DEF OrderInv, Contains
  <2>3. reply[r] \in {"busy", "stopped"} => ~Contains(accepted, r)
    BY <2>0 DEF ReplyInv, Contains
  <2> QED
    BY <2>1, <2>2, <2>3
<1> QED
  BY <1>1, QueueInvariant, PTL

-----------------------------------------------------------------------------
(* Refinement of CommandService.                                           *)

\* The backlog of the service: the queue, and the popped command until it has
\* been executed.
BacklogMap == (IF worker \in Unexecuted THEN <<current>> ELSE << >>) \o queue

PhaseMap == [r \in Requests |-> PhaseOf(r)]

\* The boundary starts where the serial service starts.
LEMMA RefinementInit == Init => Service!Init
<1> SUFFICES ASSUME Init PROVE Service!Init
  OBVIOUS
<1>1. \A r \in Requests : PhaseOf(r) = "new"
  BY DEF Init, PhaseOf, Pushing
<1>2. << >> \o << >> = << >>
  OBVIOUS
<1> QED
  BY <1>1, <1>2 DEF Init, Service!Init, Unexecuted

\* A step that moves one caller moves its phase and no other.
LEMMA PhaseStep ==
  ASSUME TypeOK, NEW r \in Requests,
         \A q \in Requests \ {r} : call'[q] = call[q] /\ reply'[q] = reply[q]
  PROVE  PhaseMap' = [PhaseMap EXCEPT ![r] = PhaseOf(r)']
<1>1. \A q \in Requests \ {r} : PhaseOf(q)' = PhaseOf(q)
  BY DEF PhaseOf
<1> QED
  BY <1>1 DEF PhaseMap

\* The two early returns of a handler are the refusal of the service.
LEMMA RefuseRefines ==
  ASSUME TypeOK, NEW r \in Requests, RefuseStopped(r) \/ RefuseBusy(r)
  PROVE  Service!Refuse(r)
<1>1. /\ call[r] = "new" /\ call' = [call EXCEPT ![r] = "done"]
      /\ reply' \in {[reply EXCEPT ![r] = "busy"], [reply EXCEPT ![r] = "stopped"]}
      /\ UNCHANGED <<queue, worker, current, applied, view>>
  BY DEF RefuseStopped, RefuseBusy, Refuse, Finishes
<1>2. call'[r] = "done" /\ reply'[r] \in {"busy", "stopped"}
  BY <1>1 DEF TypeOK
<1>3. PhaseOf(r) = "new" /\ PhaseOf(r)' = "refused"
  BY <1>1, <1>2 DEF PhaseOf, Pushing
<1>4. PhaseMap' = [PhaseMap EXCEPT ![r] = PhaseOf(r)']
  BY <1>1, PhaseStep DEF TypeOK
<1>5. PhaseMap[r] = "new"
  BY <1>3 DEF PhaseMap
<1>6. UNCHANGED <<BacklogMap, applied, view>>
  BY <1>1 DEF BacklogMap
<1> QED
  BY <1>3, <1>4, <1>5, <1>6
     DEF Service!Refuse, Service!Moves, PhaseMap, BacklogMap

\* A push under the lock is the acceptance of the service.
LEMMA EnqueueRefines ==
  ASSUME TypeOK, NEW r \in Requests, Enqueue(r)
  PROVE  Service!Accept(r)
<1>0. queue \in Seq(Requests)
  BY DEF TypeOK
<1>1. /\ call[r] = "new" /\ call' = [call EXCEPT ![r] = "pushed"]
      /\ queue' = Append(queue, r)
      /\ UNCHANGED <<reply, worker, current, applied, view>>
  BY DEF Enqueue, MayPush
<1>2. PhaseOf(r) = "new" /\ PhaseOf(r)' = "pending"
  BY <1>1 DEF PhaseOf, TypeOK, Pushing
<1>3. PhaseMap' = [PhaseMap EXCEPT ![r] = PhaseOf(r)'] /\ PhaseMap[r] = "new"
  BY <1>1, <1>2, PhaseStep DEF TypeOK, PhaseMap
<1>4. BacklogMap' = Append(BacklogMap, r)
  <2>1. CASE worker \in Unexecuted
    <3>1. current \in Requests
      BY <2>1 DEF TypeOK, BusyWorker, Unexecuted
    <3> QED
      BY <1>0, <1>1, <2>1, <3>1 DEF BacklogMap
  <2>2. CASE worker \notin Unexecuted
    BY <1>0, <1>1, <2>2 DEF BacklogMap
  <2> QED
    BY <2>1, <2>2
<1> QED
  BY <1>1, <1>2, <1>3, <1>4
     DEF Service!Accept, Service!Moves, PhaseMap, BacklogMap

\* Handlers' steps that leave the worker alone.
LEMMA CollectRefines ==
  ASSUME TypeOK, QueueIsBacklog, ServiceInv, ReplyInv, NEW r \in Requests,
         Collect(r)
  PROVE  Service!Answer(r) \/ Service!Fail(r)
<1>0. queue \in Seq(Requests) /\ accepted \in Seq(Requests)
  BY DEF TypeOK
<1>1. /\ call[r] = "waiting" /\ call' = [call EXCEPT ![r] = "done"]
      /\ promise[r] \in {"value", "exception"}
      /\ reply' = [reply EXCEPT ![r] =
                     IF promise[r] = "value" THEN "answer" ELSE "failure"]
      /\ UNCHANGED <<queue, worker, current, applied, view>>
  BY DEF Collect, Finishes, TypeOK, Promises
<1>2. /\ PhaseOf(r) = "pending"
      /\ PhaseOf(r)' = IF promise[r] = "value" THEN "answered" ELSE "failed"
  BY <1>1 DEF PhaseOf, TypeOK, Pushing
<1>3. PhaseMap' = [PhaseMap EXCEPT ![r] = PhaseOf(r)'] /\ PhaseMap[r] = "pending"
  BY <1>1, <1>2, PhaseStep DEF TypeOK, PhaseMap
<1>4. UNCHANGED <<BacklogMap, applied, view>>
  BY <1>1 DEF BacklogMap
<1>5. CASE promise[r] = "value"
  <2>1. Contains(applied, r)
    BY <1>5 DEF ReplyInv
  <2>2. PhaseMap' = [PhaseMap EXCEPT ![r] = "answered"]
    BY <1>2, <1>3, <1>5
  <2>3. Service!Answer(r)
    BY <1>3, <1>4, <2>1, <2>2
       DEF Service!Answer, Service!Moves, Service!Contains, Contains, PhaseMap,
           BacklogMap
  <2> QED
    BY <2>3
<1>6. CASE promise[r] = "exception"
  <2>1. PICK l \in 1..Answered : accepted[l] = r
    BY <1>6 DEF ReplyInv
  <2>2. Answered \in Int /\ Answered <= Taken /\ Taken <= Len(accepted) /\ Taken \in Nat
    BY <1>0 DEF Answered, Taken, QueueIsBacklog
  <2>3. \A i \in DOMAIN queue : queue[i] # r
    <3>1. SUFFICES ASSUME NEW i \in DOMAIN queue, queue[i] = r PROVE FALSE
      OBVIOUS
    <3>2. /\ accepted[Taken + i] = r
          /\ Taken + i \in DOMAIN accepted /\ l \in DOMAIN accepted
          /\ Taken + i # l
      BY <1>0, <2>1, <2>2, <3>1 DEF QueueIsBacklog, Taken
    <3> QED
      BY <2>1, <3>2 DEF QueueIsBacklog
  <2>4. worker \in Unexecuted => current # r
    <3>1. SUFFICES ASSUME worker \in Unexecuted, current = r PROVE FALSE
      OBVIOUS
    <3>2. Taken > 0 /\ accepted[Taken] = r /\ Answered = Taken - 1
      BY <2>2, <3>1 DEF ServiceInv, Answered, TypeOK, BusyWorker
    <3>3. Taken \in DOMAIN accepted /\ l \in DOMAIN accepted /\ Taken # l
      BY <1>0, <2>1, <2>2, <3>2
    <3> QED
      BY <2>1, <3>2, <3>3 DEF QueueIsBacklog
  <2>5. ~Contains(BacklogMap, r)
    <3>1. CASE worker \in Unexecuted
      <4>1. current \in Requests
        BY <3>1 DEF TypeOK, BusyWorker, Unexecuted
      <4> QED
        BY <1>0, <2>3, <2>4, <3>1, <4>1 DEF BacklogMap, Contains
    <3>2. CASE worker \notin Unexecuted
      BY <1>0, <2>3, <3>2 DEF BacklogMap, Contains
    <3> QED
      BY <3>1, <3>2
  <2>6. PhaseMap' = [PhaseMap EXCEPT ![r] = "failed"]
    BY <1>2, <1>3, <1>6
  <2>7. Service!Fail(r)
    BY <1>3, <1>4, <2>5, <2>6
       DEF Service!Fail, Service!Moves, Service!Contains, Contains, PhaseMap,
           BacklogMap
  <2> QED
    BY <2>7
<1> QED
  BY <1>1, <1>5, <1>6

\* A caller that gives up is the abandonment of the service.
LEMMA TimeOutRefines ==
  ASSUME TypeOK, NEW r \in Requests, TimeOut(r)
  PROVE  Service!Abandon(r)
<1>1. /\ call[r] = "waiting" /\ call' = [call EXCEPT ![r] = "done"]
      /\ reply' = [reply EXCEPT ![r] = "timeout"]
      /\ UNCHANGED <<queue, worker, current, applied, view>>
  BY DEF TimeOut, Finishes
<1>2. PhaseOf(r) = "pending" /\ PhaseOf(r)' = "abandoned"
  BY <1>1 DEF PhaseOf, TypeOK, Pushing
<1>3. PhaseMap' = [PhaseMap EXCEPT ![r] = PhaseOf(r)'] /\ PhaseMap[r] = "pending"
  BY <1>1, <1>2, PhaseStep DEF TypeOK, PhaseMap
<1>4. UNCHANGED <<BacklogMap, applied, view>>
  BY <1>1 DEF BacklogMap
<1> QED
  BY <1>2, <1>3, <1>4 DEF Service!Abandon, Service!Moves, PhaseMap, BacklogMap

\* Popping a command is invisible: it stays at the head of the backlog.
LEMMA TakeRefines ==
  ASSUME TypeOK, Take
  PROVE  UNCHANGED <<PhaseMap, BacklogMap, applied, view>>
<1>1. /\ queue # << >> /\ queue' = Tail(queue) /\ current' = Head(queue)
      /\ worker = "ready" /\ worker' = "popped"
      /\ UNCHANGED <<call, reply, applied, view>>
  BY DEF Take, WorkerMoves, clientVars
<1>2. queue \in Seq(Requests)
  BY DEF TypeOK
<1>3. <<Head(queue)>> \o Tail(queue) = << >> \o queue
  BY <1>1, <1>2
<1>4. BacklogMap' = BacklogMap
  BY <1>1, <1>3 DEF BacklogMap, Unexecuted
<1>5. PhaseMap' = PhaseMap
  BY <1>1 DEF PhaseMap, PhaseOf
<1> QED
  BY <1>1, <1>4, <1>5

\* The end of an execution, by return or by throw, is where the service
\* applies or skips the command.
LEMMA ExecuteRefines ==
  ASSUME TypeOK, Execute \/ ExecuteThrows
  PROVE  Service!Apply \/ Service!Skip
<1>1. /\ worker = "executing" /\ worker' \in {"succeeded", "threw"}
      /\ applied' \in {applied, Append(applied, current)}
      /\ UNCHANGED <<call, reply, queue, current, view>>
  BY DEF Execute, ExecuteThrows, WorkerMoves, clientVars
<1>2. queue \in Seq(Requests) /\ current \in Requests
  BY <1>1 DEF TypeOK, BusyWorker, Unexecuted
<1>3. /\ BacklogMap = <<current>> \o queue
      /\ BacklogMap' = << >> \o queue
  BY <1>1 DEF BacklogMap, Unexecuted
<1>4. /\ BacklogMap # << >>
      /\ Head(BacklogMap) = current
      /\ BacklogMap' = Tail(BacklogMap)
  BY <1>2, <1>3
<1>5. PhaseMap' = PhaseMap
  BY <1>1 DEF PhaseMap, PhaseOf
<1> QED
  BY <1>1, <1>4, <1>5 DEF Service!Apply, Service!Skip, PhaseMap, BacklogMap

\* What the service sees of the remaining steps: nothing, or a publication.
LEMMA QuietSteps ==
  ASSUME TypeOK,
         \/ \E r \in Requests : Submit(r)
         \/ ObserveDepth \/ Sleep \/ Exit \/ Settle \/ Count
         \/ SpuriousWakeup \/ Stop \/ NotifyAll \/ Join
         \/ UNCHANGED vars
  PROVE  UNCHANGED <<PhaseMap, BacklogMap, applied, view>>
<1>1. CASE \E r \in Requests : Submit(r)
  <2>1. PICK r \in Requests : Submit(r)
    BY <1>1
  <2>2. /\ call[r] \in Pushing \cup {"counted"}
        /\ \E to \in {"stored", "raised", "counted", "waiting"} :
             call' = [call EXCEPT ![r] = to]
        /\ UNCHANGED <<reply, queue, current, applied, view>>
        /\ worker' \in Unexecuted <=> worker \in Unexecuted
    <3>1. CASE Counting(r)
      BY <3>1, CountingFacts
    <3>2. CASE Notify(r)
      BY <3>2 DEF Notify, Unexecuted
    <3> QED
      BY <2>1, <3>1, <3>2 DEF Submit, Counting
  <2>3. PhaseOf(r) = "pending" /\ PhaseOf(r)' = "pending"
    BY <2>2 DEF PhaseOf, TypeOK, Pushing
  <2>4. PhaseMap' = [PhaseMap EXCEPT ![r] = PhaseOf(r)'] /\ PhaseMap[r] = "pending"
    BY <2>2, <2>3, PhaseStep DEF TypeOK, PhaseMap
  <2>5. PhaseMap' = PhaseMap
    BY <2>3, <2>4 DEF PhaseMap
  <2>6. BacklogMap' = BacklogMap
    BY <2>2 DEF BacklogMap
  <2> QED
    BY <2>2, <2>5, <2>6
<1>2. CASE \/ ObserveDepth \/ Sleep \/ Exit \/ Settle \/ Count
           \/ SpuriousWakeup \/ Stop \/ NotifyAll \/ Join
           \/ UNCHANGED vars
  <2>1. /\ UNCHANGED <<call, reply, queue, applied, view>>
        /\ worker' \in Unexecuted <=> worker \in Unexecuted
        /\ worker \in Unexecuted => UNCHANGED current
    BY <1>2 DEF ObserveDepth, Sleep, Exit, Settle, Count, SpuriousWakeup, Stop,
                NotifyAll, Join, WorkerMoves, clientVars, vars, Unexecuted
  <2>2. PhaseMap' = PhaseMap
    BY <2>1 DEF PhaseMap, PhaseOf
  <2>3. BacklogMap' = BacklogMap
    BY <2>1 DEF BacklogMap
  <2> QED
    BY <2>1, <2>2, <2>3
<1> QED
  BY <1>1, <1>2

\* The publication of the views is the service showing its log.
LEMMA PublishRefines ==
  ASSUME Publish
  PROVE  Service!Show
<1>1. /\ worker = "publishing" /\ worker' = "counting" /\ view' = applied
      /\ UNCHANGED <<call, reply, queue, current, applied>>
  BY DEF Publish, WorkerMoves, clientVars
<1>2. PhaseMap' = PhaseMap
  BY <1>1 DEF PhaseMap, PhaseOf
<1>3. BacklogMap' = BacklogMap
  BY <1>1 DEF BacklogMap, Unexecuted
<1> QED
  BY <1>1, <1>2, <1>3 DEF Service!Show, PhaseMap, BacklogMap

\* Every step of the boundary is a step of the service or a stutter.
LEMMA RefinementStep ==
  TypeOK /\ QueueIsBacklog /\ ServiceInv /\ ReplyInv /\ [Next]_vars
    => [Service!Next]_Service!vars
<1> SUFFICES ASSUME TypeOK, QueueIsBacklog, ServiceInv, ReplyInv, [Next]_vars
             PROVE  [Service!Next]_Service!vars
  OBVIOUS
<1>1. ASSUME NEW r \in Requests,
             \/ RefuseStopped(r) \/ RefuseBusy(r) \/ Enqueue(r)
             \/ Collect(r) \/ TimeOut(r)
      PROVE  Service!Next
  <2>1. \/ Service!Accept(r) \/ Service!Refuse(r) \/ Service!Answer(r)
        \/ Service!Fail(r) \/ Service!Abandon(r)
    BY <1>1, RefuseRefines, EnqueueRefines, CollectRefines, TimeOutRefines
  <2> QED
    BY <2>1 DEF Service!Next
<1>2. CASE Execute \/ ExecuteThrows
  BY <1>2, ExecuteRefines DEF Service!Next
<1>3. CASE Publish
  BY <1>3, PublishRefines DEF Service!Next
<1>4. ASSUME \/ Take \/ (\E r \in Requests : Submit(r))
             \/ ObserveDepth \/ Sleep \/ Exit \/ Settle \/ Count
             \/ SpuriousWakeup \/ Stop \/ NotifyAll \/ Join
             \/ UNCHANGED vars
      PROVE  UNCHANGED Service!vars
  <2>1. UNCHANGED <<PhaseMap, BacklogMap, applied, view>>
    BY <1>4, TakeRefines, QuietSteps
  <2> QED
    BY <2>1 DEF Service!vars, PhaseMap, BacklogMap
<1> QED
  BY <1>1, <1>2, <1>3, <1>4 DEF Next, ClientNext, WorkerNext

\* The queue, the worker thread, the promises and the published views behave
\* as the serial CommandService, for any requests and any queue depth.
THEOREM Refinement == Spec => ImplementsService
<1>1. Spec => [](TypeOK /\ QueueIsBacklog /\ ServiceInv /\ ReplyInv)
  BY QueueInvariant, PTL
<1> QED
  BY <1>1, RefinementInit, RefinementStep, PTL
     DEF Spec, ImplementsService, Service!Spec
=============================================================================
