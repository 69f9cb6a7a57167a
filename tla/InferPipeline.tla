--------------------------- MODULE InferPipeline ---------------------------
(***************************************************************************)
(* ConfiguredInferModelImpl and the asynchronous pipeline under it         *)
(* (net_flow/pipeline/): an entry queue with a thread for every input, the *)
(* hardware element where the inputs of a frame meet, a pool of user       *)
(* buffers for every output, and the network group that runs the frames.   *)
(*                                                                         *)
(* A buffer is <<job, edge>>.  It is destroyed by whichever thread holds   *)
(* it last, and the thread that destroys the last buffer of a job runs the *)
(* callback of the job, under all the locks it holds at that moment: the   *)
(* module follows every buffer and every mutex.                            *)
(***************************************************************************)
EXTENDS Integers, Sequences, FiniteSets

CONSTANTS
    Jobs,               \* calls of run_async, each made by a thread of its own
    BadJobs,            \* those whose bindings may hold an unsupported pix buffer
    Inputs, Outputs,    \* edges of the model; an input is also its entry thread
    User, Dev,          \* the thread that calls shutdown; the one of the device
    None,
    PoolSize,           \* buffer_pool_size_edges
    MaxOngoing,         \* infer_queue_size() of the network group
    MaxFaults           \* bound on the failures of the network group

ASSUME InferPipelineAssumptions ==
    /\ BadJobs \subseteq Jobs
    /\ PoolSize \in Nat /\ MaxOngoing \in Nat \ {0} /\ MaxFaults \in Nat

VARIABLES
    ok,         \* pipeline_status is HAILO_SUCCESS
    event,      \* the shutdown event is signaled
    queue,      \* m_queue of the entry element of every input
    pool,       \* m_pool of the last element of every output
    hw,         \* AsyncHwElement: m_input_buffers, barrier and termination flags
    terminated, \* entry elements with m_is_terminated
    cng,        \* the network group: requests on the device, shutdown
    mutex,      \* owner of the four mutexes a callback may meet
    job,        \* AsyncInferJobImpl and the result its callback was given
    ongoing,    \* m_ongoing_parallel_transfers
    pc, frame,  \* place of every thread, and the buffers among its locals
    called,     \* job whose callback the thread is running
    sd,         \* progress of AsyncPipeline::shutdown in every thread
    faults      \* failures so far

vars == <<ok, event, queue, pool, hw, terminated, cng, mutex, job, ongoing,
          pc, frame, called, sd, faults>>

Edges == Inputs \cup Outputs
Threads == Jobs \cup Inputs \cup {User, Dev}
Shutters == Inputs \cup {User}
Buffers == Jobs \X Edges
\* The elements are visited in the fixed order of their map.
First(S) == CHOOSE x \in S : TRUE
NoShutdown == [pc |-> "none", todo |-> {}, at |-> None]

Init ==
    /\ ok = TRUE /\ event = FALSE
    /\ queue = [i \in Inputs |-> <<>>] /\ pool = [o \in Outputs |-> <<>>]
    /\ hw = [inputs |-> {}, active |-> TRUE, arrived |-> {},
             terminated |-> FALSE, terminating |-> FALSE]
    /\ terminated = {}
    /\ cng = [device |-> <<>>, done |-> {}, partial |-> {}, shutdown |-> FALSE, late |-> FALSE]
    /\ mutex = [m \in {"model", "runner", "hw", "cng"} |-> None]
    /\ job = [left |-> [j \in Jobs |-> Cardinality(Edges)],
              clean |-> [j \in Jobs |-> TRUE],
              cb |-> [j \in Jobs |-> "none"],
              result |-> [j \in Jobs |-> "none"]]
    /\ ongoing = 0
    /\ pc = [t \in Threads |-> IF t \in Inputs THEN "loop" ELSE "idle"]
    /\ frame = [t \in Threads |-> {}]
    /\ called = [t \in Threads |-> None]
    /\ sd = [t \in Shutters |-> NoShutdown]
    /\ faults = 0

-----------------------------------------------------------------------------
(* Locks, threads and the destruction of buffers. *)

At(t, place) == pc[t] = place /\ called[t] = None
Goto(t, place) == pc' = [pc EXCEPT ![t] = place]
Unlocked(m) == mutex[m] = None
Lock(t, m) == mutex' = [mutex EXCEPT ![m] = t]
Unlock(m) == mutex' = [mutex EXCEPT ![m] = None]

JobOf(bufs) == First(bufs)[1]

\* Variant: the status given to the callback ignores the pipeline's.
DropTrustsBuffers(t, bufs, good) ==
    IF bufs = {} THEN UNCHANGED <<job, called>>
    ELSE LET j == First(bufs)[1]
             left == job.left[j] - Cardinality(bufs)
             clean == job.clean[j] /\ good
         IN /\ job' = [job EXCEPT !.left[j] = left, !.clean[j] = clean,
                          !.cb[j] = IF left > 0 THEN @ ELSE "running",
                          !.result[j] = IF left > 0 THEN @ ELSE IF clean THEN "success" ELSE "failure"]
            /\ called' = [called EXCEPT ![t] = IF left > 0 THEN @ ELSE j]

\* ~PipelineBuffer for buffers of one job: exec_done is the transfer_done of
\* run_async, whose stream_done tells the last buffer from the others.
Drop(t, bufs, good) ==
    IF bufs = {} THEN UNCHANGED <<job, called>>
    ELSE LET j == JobOf(bufs)
             left == job.left[j] - Cardinality(bufs)
             clean == job.clean[j] /\ good
         IN IF left > 0
            THEN /\ job' = [job EXCEPT !.left[j] = left, !.clean[j] = clean]
                 /\ UNCHANGED called
            ELSE /\ job' = [job EXCEPT !.left[j] = left, !.clean[j] = clean,
                               !.cb[j] = "running",
                               !.result[j] = IF ok /\ clean THEN "success" ELSE "failure"]
                 /\ called' = [called EXCEPT ![t] = j]

\* The rest of transfer_done: the user's callback and mark_callback_done ...
CallbackReturns(t) ==
    /\ called[t] # None /\ job.cb[called[t]] = "running"
    /\ job' = [job EXCEPT !.cb[called[t]] = "done"]
    /\ UNCHANGED <<ok, event, queue, pool, hw, terminated, cng, mutex, ongoing, pc, frame, called, sd, faults>>

\* Variant: the job is counted out before its callback runs.
TransferDoneFirst(t) ==
    /\ called[t] # None /\ job.cb[called[t]] = "running" /\ Unlocked("model")
    /\ ongoing' = ongoing - 1
    /\ called' = [called EXCEPT ![t] = None]
    /\ UNCHANGED <<ok, event, queue, pool, hw, terminated, cng, mutex, job, pc, frame, sd, faults>>

\* ... and the count under the mutex of the model, which is not recursive.
TransferDone(t) ==
    /\ called[t] # None /\ job.cb[called[t]] = "done" /\ Unlocked("model")
    /\ ongoing' = ongoing - 1
    /\ called' = [called EXCEPT ![t] = None]
    /\ UNCHANGED <<ok, event, queue, pool, hw, terminated, cng, mutex, job, pc, frame, sd, faults>>

-----------------------------------------------------------------------------
(* run_async on the thread of the caller. *)

RunAsync(j) ==
    /\ At(j, "idle") /\ Unlocked("model")
    /\ Lock(j, "model") /\ Goto(j, "run")
    /\ UNCHANGED <<ok, event, queue, pool, hw, terminated, cng, job, ongoing, frame, called, sd, faults>>

\* can_push_buffers(1); the queue of an entry element is twice the size.
CanPush ==
    /\ \A o \in Outputs : Len(pool[o]) + 1 < PoolSize
    /\ \A i \in Inputs : Len(queue[i]) + 1 < 2 * PoolSize

\* AsyncInferRunnerImpl::run up to set_buffers: refused, or the buffers exist.
RunRefused(j) ==
    /\ At(j, "run") /\ Unlocked("runner") /\ ~(ok /\ CanPush)
    /\ Unlock("model") /\ Goto(j, "refused")
    /\ UNCHANGED <<ok, event, queue, pool, hw, terminated, cng, job, ongoing, frame, called, sd, faults>>

RunBegins(j) ==
    /\ At(j, "run") /\ Unlocked("runner") /\ ok /\ CanPush
    /\ Lock(j, "runner") /\ Goto(j, "enqueue")
    /\ frame' = [frame EXCEPT ![j] = {j} \X Edges]
    /\ UNCHANGED <<ok, event, queue, pool, hw, terminated, cng, job, ongoing, called, sd, faults>>

\* set_buffers: the outputs first.  An enqueue waits for room or for the
\* shutdown event, and puts the buffer into the queue in a step of its own.
Waiting(j) == {b \in frame[j] : \E o \in Outputs : b = <<j, o>>}
NextBuffers(j) == IF Waiting(j) # {} THEN Waiting(j) ELSE frame[j]

EnqueueWaits(j) ==
    /\ At(j, "enqueue") /\ frame[j] # {} /\ ~event
    /\ Goto(j, "put")
    /\ UNCHANGED <<ok, event, queue, pool, hw, terminated, cng, mutex, job, ongoing, frame, called, sd, faults>>

EnqueuePuts(j) ==
    /\ At(j, "put")
    /\ LET b == First(NextBuffers(j))
       IN /\ frame' = [frame EXCEPT ![j] = @ \ {b}]
          /\ \/ b[2] \in Outputs /\ pool' = [pool EXCEPT ![b[2]] = Append(@, j)] /\ UNCHANGED queue
             \/ b[2] \in Inputs /\ queue' = [queue EXCEPT ![b[2]] = Append(@, j)] /\ UNCHANGED pool
          /\ Goto(j, IF frame[j] = {b} THEN "return" ELSE "enqueue")
    /\ UNCHANGED <<ok, event, hw, terminated, cng, mutex, job, ongoing, called, sd, faults>>

\* The event makes every further enqueue fail.  That is an error of run only
\* for an output; either way run destroys what is left before it unlocks.
EnqueueFails(j) ==
    /\ At(j, "enqueue") /\ event
    /\ Drop(j, frame[j], TRUE) /\ frame' = [frame EXCEPT ![j] = {}]
    /\ Goto(j, IF Waiting(j) # {} THEN "fail" ELSE "return")
    /\ UNCHANGED <<ok, event, queue, pool, hw, terminated, cng, mutex, ongoing, sd, faults>>

RunReturns(j) ==
    /\ At(j, "return") \/ At(j, "fail")
    /\ mutex' = [mutex EXCEPT !["model"] = None, !["runner"] = None]
    /\ ongoing' = IF pc[j] = "return" THEN ongoing + 1 ELSE ongoing
    /\ Goto(j, IF pc[j] = "return" THEN "accepted" ELSE "failed")
    /\ UNCHANGED <<ok, event, queue, pool, hw, terminated, cng, job, frame, called, sd, faults>>

CallerStep(j) ==
    \/ RunRefused(j) \/ RunBegins(j)
    \/ EnqueueWaits(j) \/ EnqueuePuts(j) \/ EnqueueFails(j) \/ RunReturns(j)

-----------------------------------------------------------------------------
(* The thread of an entry queue, and the hardware element it pushes into. *)

LoopExits(i) ==
    /\ At(i, "loop") /\ (~ok \/ event)
    /\ Goto(i, "exited")
    /\ UNCHANGED <<ok, event, queue, pool, hw, terminated, cng, mutex, job, ongoing, frame, called, sd, faults>>

\* Variant: nothing keeps the inputs of a frame together.
ArriveAlone(i) == Goto(i, "push") /\ UNCHANGED hw

\* run_in_thread takes the next buffer and pushes it into the element behind,
\* where Barrier::arrive_and_wait makes it wait for the other inputs.
Arrive(i) ==
    \/ ~hw.active /\ Goto(i, "push") /\ UNCHANGED hw
    \/ /\ hw.active /\ hw.arrived \cup {i} # Inputs
       /\ hw' = [hw EXCEPT !.arrived = @ \cup {i}] /\ Goto(i, "wait")
    \/ /\ hw.active /\ hw.arrived \cup {i} = Inputs
       /\ hw' = [hw EXCEPT !.arrived = {}]
       /\ pc' = [t \in Threads |-> IF t = i \/ t \in hw.arrived THEN "push" ELSE pc[t]]

LoopDequeues(i) ==
    /\ At(i, "loop") /\ ~event /\ queue[i] # <<>>
    /\ frame' = [frame EXCEPT ![i] = {<<Head(queue[i]), i>>}]
    /\ queue' = [queue EXCEPT ![i] = Tail(@)]
    /\ Arrive(i)
    /\ UNCHANGED <<ok, event, pool, terminated, cng, mutex, job, ongoing, called, sd, faults>>

BarrierTerminated(i) ==
    /\ At(i, "wait") /\ ~hw.active
    /\ Goto(i, "push")
    /\ UNCHANGED <<ok, event, queue, pool, hw, terminated, cng, mutex, job, ongoing, frame, called, sd, faults>>

\* AsyncHwElement::run_push_async after the barrier.  The last sink keeps the
\* mutex for action().
PushAsync(i) ==
    /\ At(i, "push") /\ Unlocked("hw") /\ ok
    /\ LET full == Cardinality(hw.inputs) + 1 = Cardinality(Inputs)
       IN /\ Goto(i, IF full THEN "action" ELSE "loop")
          /\ mutex' = [mutex EXCEPT !["hw"] = IF full THEN i ELSE None]
    /\ hw' = [hw EXCEPT !.inputs = @ \cup frame[i]]
    /\ frame' = [frame EXCEPT ![i] = {}]
    /\ UNCHANGED <<ok, event, queue, pool, terminated, cng, job, ongoing, called, sd, faults>>

\* Otherwise the inputs that wait are destroyed under the mutex, and then the
\* buffer itself when run_in_thread returns.
PushRefused(i) ==
    /\ At(i, "push") /\ Unlocked("hw") /\ ~ok
    /\ Lock(i, "hw") /\ Goto(i, "refused")
    /\ Drop(i, hw.inputs, TRUE) /\ hw' = [hw EXCEPT !.inputs = {}]
    /\ UNCHANGED <<ok, event, queue, pool, terminated, cng, ongoing, frame, sd, faults>>

PushLeaves(i) ==
    /\ At(i, "refused")
    /\ Unlock("hw") /\ Goto(i, "loop")
    /\ Drop(i, frame[i], TRUE) /\ frame' = [frame EXCEPT ![i] = {}]
    /\ UNCHANGED <<ok, event, queue, pool, hw, terminated, cng, ongoing, sd, faults>>

\* action() for an input that carries an error: handle_error_in_hw_async_elem
\* takes the outputs of the frame and completes all of it.
ActionBadInput(i) ==
    /\ At(i, "action") /\ hw.inputs # {} /\ frame[i] = {} /\ JobOf(hw.inputs) \in BadJobs
    /\ LET taken == IF event THEN {} ELSE {o \in Outputs : pool[o] # <<>>}
       IN /\ pool' = [o \in Outputs |-> IF o \in taken THEN Tail(pool[o]) ELSE pool[o]]
          /\ Drop(i, hw.inputs \cup {<<Head(pool[o]), o>> : o \in taken}, FALSE)
    /\ hw' = [hw EXCEPT !.inputs = {}] /\ Goto(i, "unlock")
    /\ UNCHANGED <<ok, event, queue, terminated, cng, mutex, ongoing, frame, sd, faults>>

\* action() takes a buffer from the pool of every output.  They are enqueued
\* before the inputs, so that only the shutdown event can be in the way.
Missing(i) == {o \in Outputs : ~\E b \in frame[i] : b[2] = o}

AcquireBuffer(i) ==
    /\ At(i, "action") /\ ~event
    /\ Missing(i) # {}
    /\ LET o == First(Missing(i))
       IN /\ pool[o] # <<>>
          /\ frame' = [frame EXCEPT ![i] = @ \cup {<<Head(pool[o]), o>>}]
          /\ pool' = [pool EXCEPT ![o] = Tail(@)]
    /\ UNCHANGED <<ok, event, queue, hw, terminated, cng, mutex, job, ongoing, pc, called, sd, faults>>

AcquireFails(i) ==
    /\ At(i, "action") /\ event /\ Missing(i) # {}
    /\ Drop(i, hw.inputs \cup frame[i], TRUE)
    /\ hw' = [hw EXCEPT !.inputs = {}, !.active = FALSE]
    /\ frame' = [frame EXCEPT ![i] = {}] /\ Goto(i, "unlock")
    /\ UNCHANGED <<ok, event, queue, pool, terminated, cng, mutex, ongoing, sd, faults>>

\* ConfiguredNetworkGroupBase::infer_async under the mutex of the group: the
\* streams of a group that was shut down are aborted.
InferReady(i) ==
    /\ At(i, "action") /\ hw.inputs # {} /\ Missing(i) = {}
    /\ Unlocked("cng")

InferAsync(i) ==
    /\ InferReady(i) /\ ~cng.shutdown /\ Len(cng.device) < MaxOngoing
    /\ cng' = [cng EXCEPT !.device = Append(@, hw.inputs \cup frame[i])]
    /\ hw' = [hw EXCEPT !.inputs = {}] /\ frame' = [frame EXCEPT ![i] = {}]
    /\ Unlock("hw") /\ Goto(i, "loop")
    /\ UNCHANGED <<ok, event, queue, pool, terminated, job, ongoing, called, sd, faults>>

\* Variant: a launched transfer does not share its buffer with the element.
InferRejectedCopies(i, launched) ==
    /\ InferReady(i)
    /\ cng' = [cng EXCEPT !.partial = @ \cup launched]
    /\ frame' = [frame EXCEPT ![i] = @ \cup hw.inputs]
    /\ hw' = [hw EXCEPT !.inputs = {}] /\ Goto(i, "error")
    /\ UNCHANGED <<ok, event, queue, pool, terminated, mutex, job, ongoing, called, sd>>

\* It fails.  The transfers of the streams before the failing one stay with
\* the accumulator of the core op.
InferRejected(i, launched) ==
    /\ InferReady(i)
    /\ cng' = [cng EXCEPT !.partial = @ \cup launched]
    /\ frame' = [frame EXCEPT ![i] = (@ \cup hw.inputs) \ launched]
    /\ hw' = [hw EXCEPT !.inputs = {}] /\ Goto(i, "error")
    /\ UNCHANGED <<ok, event, queue, pool, terminated, mutex, job, ongoing, called, sd>>

InferAborted(i) ==
    /\ cng.shutdown /\ InferRejected(i, {}) /\ UNCHANGED faults

\* A stream refuses its transfer, or (without launched ones) the wait for the
\* ongoing callbacks times out.
InferFails(i) ==
    /\ faults < MaxFaults /\ ~cng.shutdown /\ faults' = faults + 1
    /\ \E launched \in SUBSET (hw.inputs \cup frame[i]) :
          /\ launched # hw.inputs \cup frame[i]
          /\ launched \subseteq hw.inputs \/ hw.inputs \subseteq launched
          /\ InferRejected(i, launched)

\* handle_non_recoverable_async_error: the first to fail shuts the pipeline
\* down, on its own thread and under the mutex of the hardware element.
BeginShutdown(t, place) == sd' = [sd EXCEPT ![t] = [NoShutdown EXCEPT !.pc = place]]

HandleError(i) ==
    /\ At(i, "error") /\ Goto(i, "unwind")
    /\ IF ok THEN BeginShutdown(i, "flag") ELSE UNCHANGED sd
    /\ UNCHANGED <<ok, event, queue, pool, hw, terminated, cng, mutex, job, ongoing, frame, called, faults>>

Unwind(i) ==
    /\ At(i, "unwind") /\ sd[i] = NoShutdown
    /\ hw' = [hw EXCEPT !.active = FALSE]
    /\ Drop(i, frame[i], TRUE) /\ frame' = [frame EXCEPT ![i] = {}]
    /\ Goto(i, "unlock")
    /\ UNCHANGED <<ok, event, queue, pool, terminated, cng, mutex, ongoing, sd, faults>>

ActionReturns(i) ==
    /\ At(i, "unlock") /\ Unlock("hw") /\ Goto(i, "loop")
    /\ UNCHANGED <<ok, event, queue, pool, hw, terminated, cng, job, ongoing, frame, called, sd, faults>>

EntryStep(i) ==
    \/ LoopExits(i) \/ LoopDequeues(i) \/ BarrierTerminated(i)
    \/ PushAsync(i) \/ PushRefused(i) \/ PushLeaves(i)
    \/ ActionBadInput(i) \/ AcquireBuffer(i) \/ AcquireFails(i)
    \/ InferAsync(i) \/ InferAborted(i) \/ HandleError(i) \/ Unwind(i) \/ ActionReturns(i)

-----------------------------------------------------------------------------
(* The device calls back all transfers of its oldest request, and then the *)
(* request itself, which lowers the count of the accumulator.              *)

Completes(good) ==
    /\ At(Dev, "idle") /\ cng.device # <<>>
    /\ Drop(Dev, Head(cng.device), good)
    /\ cng' = [cng EXCEPT !.device[1] = {},
                          !.done = IF good THEN @ \cup {JobOf(Head(cng.device))} ELSE @]
    /\ Goto(Dev, "request")
    /\ UNCHANGED <<ok, event, queue, pool, hw, terminated, mutex, ongoing, frame, sd>>

DeviceCompletes == Completes(TRUE) /\ UNCHANGED faults

DeviceFails ==
    /\ faults < MaxFaults /\ faults' = faults + 1
    /\ Completes(FALSE)

DeviceAborts == cng.shutdown /\ Completes(FALSE) /\ UNCHANGED faults

RequestDone ==
    /\ At(Dev, "request") /\ Goto(Dev, "idle")
    /\ cng' = [cng EXCEPT !.device = Tail(@)]
    /\ UNCHANGED <<ok, event, queue, pool, hw, terminated, mutex, job, ongoing, frame, called, sd, faults>>

-----------------------------------------------------------------------------
(* AsyncPipeline::shutdown, called by abort() or by HandleError. *)

Shutting(t, place) == sd[t].pc = place /\ called[t] = None
ShutGoto(t, place) == sd' = [sd EXCEPT ![t].pc = place]

SetTerminating(t) ==
    /\ Shutting(t, "flag") /\ hw' = [hw EXCEPT !.terminating = TRUE] /\ ShutGoto(t, "status")
    /\ UNCHANGED <<ok, event, queue, pool, terminated, cng, mutex, job, ongoing, pc, frame, called, faults>>

StoreStatus(t) ==
    /\ Shutting(t, "status") /\ ok' = FALSE /\ ShutGoto(t, "signal")
    /\ UNCHANGED <<event, queue, pool, hw, terminated, cng, mutex, job, ongoing, pc, frame, called, faults>>

SignalEvent(t) ==
    /\ Shutting(t, "signal") /\ event' = TRUE
    /\ sd' = [sd EXCEPT ![t].pc = "terminate", ![t].todo = Inputs]
    /\ UNCHANGED <<ok, queue, pool, hw, terminated, cng, mutex, job, ongoing, pc, frame, called, faults>>

\* Variant: the barrier of the hardware element is not terminated.
TerminateKeepsBarrier(t) ==
    /\ Shutting(t, "terminate") /\ sd[t].todo # {}
    /\ LET i == First(sd[t].todo) IN
          IF i \in terminated
          THEN sd' = [sd EXCEPT ![t].todo = @ \ {i}] /\ UNCHANGED terminated
          ELSE /\ terminated' = terminated \cup {i}
               /\ sd' = [sd EXCEPT ![t].at = i, ![t].pc = IF hw.terminated THEN "stop" ELSE "group"]
    /\ UNCHANGED <<ok, event, queue, pool, hw, cng, mutex, job, ongoing, pc, frame, called, faults>>

\* AsyncPushQueueElement::execute_terminate of the next entry element, and
\* AsyncHwElement::execute_terminate, whose flag is only set at its end.
Terminate(t) ==
    /\ Shutting(t, "terminate") /\ sd[t].todo # {}
    /\ LET i == First(sd[t].todo) IN
          IF i \in terminated
          THEN sd' = [sd EXCEPT ![t].todo = @ \ {i}] /\ UNCHANGED <<terminated, hw>>
          ELSE /\ terminated' = terminated \cup {i}
               /\ sd' = [sd EXCEPT ![t].at = i, ![t].pc = IF hw.terminated THEN "stop" ELSE "group"]
               /\ hw' = IF hw.terminated THEN hw ELSE [hw EXCEPT !.active = FALSE]
    /\ UNCHANGED <<ok, event, queue, pool, cng, mutex, job, ongoing, pc, frame, called, faults>>

\* ConfiguredNetworkGroupBase::shutdown; the first call aborts the streams and
\* waits in the accumulator for the requests on the device.
ShutdownGroup(t) ==
    /\ Shutting(t, "group") /\ Unlocked("cng")
    /\ Lock(t, "cng")
    /\ cng' = [cng EXCEPT !.shutdown = TRUE]
    /\ ShutGoto(t, IF cng.shutdown THEN "leave" ELSE "drain")
    /\ UNCHANGED <<ok, event, queue, pool, hw, terminated, job, ongoing, pc, frame, called, faults>>

\* Variant: the partial request is not cancelled.
DrainedForgets(t) ==
    /\ Shutting(t, "drain") /\ cng.device = <<>> /\ ShutGoto(t, "leave")
    /\ UNCHANGED <<ok, event, queue, pool, hw, terminated, cng, mutex, job, ongoing, pc, frame, called, faults>>

\* Only when all of them came back does it cancel the partial request.
Drained(t) ==
    /\ Shutting(t, "drain") /\ cng.device = <<>>
    /\ Drop(t, cng.partial, FALSE)
    /\ cng' = [cng EXCEPT !.partial = {}] /\ ShutGoto(t, "leave")
    /\ UNCHANGED <<ok, event, queue, pool, hw, terminated, mutex, ongoing, pc, frame, faults>>

DrainTimesOut(t) ==
    /\ Shutting(t, "drain") /\ cng.device # <<>>
    /\ cng' = [cng EXCEPT !.late = TRUE] /\ ShutGoto(t, "leave")
    /\ UNCHANGED <<ok, event, queue, pool, hw, terminated, mutex, job, ongoing, pc, frame, called, faults>>

LeaveGroup(t) ==
    /\ Shutting(t, "leave") /\ Unlock("cng")
    /\ hw' = [hw EXCEPT !.terminated = TRUE] /\ ShutGoto(t, "stop")
    /\ UNCHANGED <<ok, event, queue, pool, terminated, cng, job, ongoing, pc, frame, called, faults>>

\* stop_thread joins the thread, unless the hardware element is shutting the
\* pipeline down on one of these threads.
StopThread(t) ==
    /\ Shutting(t, "stop")
    /\ IF hw.terminating
       THEN sd' = [sd EXCEPT ![t].pc = "terminate", ![t].todo = @ \ {sd[t].at}]
       ELSE ShutGoto(t, "join")
    /\ UNCHANGED <<ok, event, queue, pool, hw, terminated, cng, mutex, job, ongoing, pc, frame, called, faults>>

Join(t) ==
    /\ Shutting(t, "join") /\ pc[sd[t].at] = "exited"
    /\ sd' = [sd EXCEPT ![t].pc = "terminate", ![t].todo = @ \ {sd[t].at}]
    /\ UNCHANGED <<ok, event, queue, pool, hw, terminated, cng, mutex, job, ongoing, pc, frame, called, faults>>

BeginDequeue(t) ==
    /\ Shutting(t, "terminate") /\ sd[t].todo = {}
    /\ sd' = [sd EXCEPT ![t].pc = "dequeue", ![t].todo = Inputs]
    /\ UNCHANGED <<ok, event, queue, pool, hw, terminated, cng, mutex, job, ongoing, pc, frame, called, faults>>

\* execute_dequeue_user_buffers of the next entry element: the pools of the
\* outputs, then its own queue.
PoolsEmpty == \A o \in Outputs : pool[o] = <<>>

EmptyPool(t) ==
    /\ Shutting(t, "dequeue") /\ sd[t].todo # {}
    /\ ~PoolsEmpty
    /\ LET o == First({o \in Outputs : pool[o] # <<>>})
       IN /\ Drop(t, {<<Head(pool[o]), o>>}, FALSE)
          /\ pool' = [pool EXCEPT ![o] = Tail(@)]
    /\ UNCHANGED <<ok, event, queue, hw, terminated, cng, mutex, ongoing, pc, frame, sd, faults>>

ClearQueue(t) ==
    /\ Shutting(t, "dequeue") /\ sd[t].todo # {} /\ PoolsEmpty
    /\ LET i == First(sd[t].todo) IN
          IF queue[i] # <<>>
          THEN /\ Drop(t, {<<Head(queue[i]), i>>}, TRUE)
               /\ queue' = [queue EXCEPT ![i] = Tail(@)] /\ UNCHANGED sd
          ELSE sd' = [sd EXCEPT ![t].todo = @ \ {i}] /\ UNCHANGED <<queue, job, called>>
    /\ UNCHANGED <<ok, event, pool, hw, terminated, cng, mutex, ongoing, pc, frame, faults>>

EndShutdown(t) ==
    /\ Shutting(t, "dequeue") /\ sd[t].todo = {}
    /\ sd' = [sd EXCEPT ![t] = NoShutdown]
    /\ UNCHANGED <<ok, event, queue, pool, hw, terminated, cng, mutex, job, ongoing, pc, frame, called, faults>>

ShutdownStep(t) ==
    \/ SetTerminating(t) \/ StoreStatus(t) \/ SignalEvent(t) \/ Terminate(t) \/ ShutdownGroup(t)
    \/ Drained(t) \/ DrainTimesOut(t) \/ LeaveGroup(t) \/ StopThread(t) \/ Join(t)
    \/ BeginDequeue(t) \/ EmptyPool(t) \/ ClearQueue(t) \/ EndShutdown(t)

-----------------------------------------------------------------------------
(* ConfiguredInferModelImpl::shutdown, also the destructor. *)

Shutdown ==
    /\ At(User, "idle") /\ Goto(User, "abort")
    /\ UNCHANGED <<ok, event, queue, pool, hw, terminated, cng, mutex, job, ongoing, frame, called, sd, faults>>

Abort ==
    /\ At(User, "abort") /\ sd[User] = NoShutdown /\ Unlocked("runner")
    /\ Lock(User, "runner") /\ Goto(User, "aborting") /\ BeginShutdown(User, "status")
    /\ UNCHANGED <<ok, event, queue, pool, hw, terminated, cng, job, ongoing, frame, called, faults>>

AbortReturns ==
    /\ At(User, "aborting") /\ sd[User] = NoShutdown
    /\ Unlock("runner") /\ Goto(User, "waiting")
    /\ UNCHANGED <<ok, event, queue, pool, hw, terminated, cng, job, ongoing, frame, called, sd, faults>>

ShutdownReturns ==
    /\ At(User, "waiting") /\ Unlocked("model")
    /\ Goto(User, IF ongoing = 0 THEN "success" ELSE "timeout")
    /\ UNCHANGED <<ok, event, queue, pool, hw, terminated, cng, mutex, job, ongoing, frame, called, sd, faults>>

-----------------------------------------------------------------------------
\* What the threads go on with by themselves, in whatever order.
Progress ==
    \/ \E t \in Threads : CallbackReturns(t) \/ TransferDone(t)
    \/ \E j \in Jobs : CallerStep(j)
    \/ \E i \in Inputs : EntryStep(i)
    \/ DeviceCompletes \/ DeviceAborts \/ RequestDone
    \/ \E t \in Shutters : ShutdownStep(t)
    \/ Abort \/ AbortReturns \/ ShutdownReturns

\* Calls of the user, and failures.
Environment ==
    \/ \E j \in Jobs : RunAsync(j)
    \/ Shutdown
    \/ \E i \in Inputs : InferFails(i)
    \/ DeviceFails

Next == Progress \/ Environment

Spec == Init /\ [][Next]_vars
FairSpec == Spec /\ WF_vars(Progress)

-----------------------------------------------------------------------------
(* Properties. *)

\* The state is well formed, no job has more buffers destroyed than it has
\* edges, and a mutex is only held by threads that are in a function that
\* locks it.
TypeOK ==
    /\ ok \in BOOLEAN /\ event \in BOOLEAN
    /\ \A i \in Inputs : queue[i] \in Seq(Jobs) /\ Len(queue[i]) < 2 * PoolSize
    /\ \A o \in Outputs : pool[o] \in Seq(Jobs) /\ Len(pool[o]) < PoolSize
    /\ hw.inputs \subseteq Jobs \X Inputs /\ hw.arrived \subseteq Inputs
    /\ terminated \subseteq Inputs
    /\ mutex["model"] \in Jobs \cup {None} /\ mutex["runner"] \in Jobs \cup {User, None}
    /\ mutex["hw"] \in Inputs \cup {None} /\ mutex["cng"] \in Shutters \cup {None}
    /\ job.left \in [Jobs -> 0..Cardinality(Edges)]
    /\ ongoing \in -Cardinality(Jobs)..Cardinality(Jobs)
    /\ frame \in [Threads -> SUBSET Buffers]
    /\ called \in [Threads -> Jobs \cup {None}]

\* A buffer that was made and not destroyed is in exactly one place, whatever
\* failed on its way: no queue, pool, element or thread forgets one, which
\* would keep the callback of its job from ever running, and no two of them
\* destroy the same one, which would run it twice.
\* (Checked together with the types.)
Places(b) ==
    UNION {{<<"queue", i, k>> : k \in {k \in DOMAIN queue[i] : b = <<queue[i][k], i>>}} : i \in Inputs}
    \cup UNION {{<<"pool", o, k>> : k \in {k \in DOMAIN pool[o] : b = <<pool[o][k], o>>}} : o \in Outputs}
    \cup {<<"frame", t>> : t \in {t \in Threads : b \in frame[t]}}
    \cup {<<"device", k>> : k \in {k \in DOMAIN cng.device : b \in cng.device[k]}}
    \cup {<<"partial">> : x \in {x \in {b} : x \in cng.partial}}
    \cup {<<"inputs">> : x \in {x \in {b} : x \in hw.inputs}}
BuffersAccounted ==
    /\ TypeOK
    /\ \A j \in Jobs : pc[j] \notin {"idle", "run", "refused"} =>
          /\ \A e \in Edges : Cardinality(Places(<<j, e>>)) <= 1
          /\ job.left[j] = Cardinality({e \in Edges : Places(<<j, e>>) # {}})

\* A request on the device is made of all the buffers of one job, although
\* inputs and outputs travel through separate queues and threads, and action()
\* finds the output it needs at the head of its pool.
FramesMatch ==
    /\ \A k \in DOMAIN cng.device :
          cng.device[k] = {} \/ cng.device[k] = {JobOf(cng.device[k])} \X Edges
    /\ \A i \in Inputs : pc[i] = "action" /\ hw.inputs # {} /\ ~event =>
          \A o \in Missing(i) : pool[o] # <<>> /\ Head(pool[o]) = JobOf(hw.inputs)

\* A callback that reports success does so for a frame the device completed,
\* although queues that are cleared destroy their buffers with HAILO_SUCCESS.
SuccessIsReal == \A j \in Jobs : job.result[j] = "success" => j \in cng.done

\* Once shutdown returned HAILO_SUCCESS the callbacks of all accepted jobs have
\* returned (infer_model.hpp), unless run_async failed in the middle of its
\* outputs: the callback of such a job is not counted when it is launched but
\* is when it ends.
ShutdownQuiet ==
    pc[User] = "success" /\ (\A j \in Jobs : pc[j] # "failed") =>
        \A j \in Jobs : pc[j] = "accepted" => job.cb[j] = "done"

\* The two ways in which the mutex of the model stops the pipeline: run_async
\* holds it while it waits for a shutdown to release the runner, or destroys
\* the last buffer of its job itself.
Entangled ==
    \E j \in Jobs :
        \/ pc[j] = "run" /\ mutex["runner"] = User
        \/ called[j] # None

\* A buffer put into its queue after the event was signaled stays there until
\* the next shutdown.
Stranded ==
    /\ event /\ \A t \in Shutters : sd[t] = NoShutdown
    /\ \E q \in {queue[i] : i \in Inputs} \cup {pool[o] : o \in Outputs} : q # <<>>

\* Every accepted job is called back in the end, also when the pipeline fails
\* or is shut down with the job anywhere in it, unless the model stays
\* Entangled, a buffer stays Stranded, or the accumulator gave up waiting for
\* the device and left the partial request uncancelled.
AcceptedCalledBack ==
    <>[](\A j \in Jobs : pc[j] = "accepted" =>
            job.cb[j] = "done" \/ Entangled \/ Stranded \/ cng.late)

\* shutdown returns in the end, also when it meets a failing pipeline that shuts
\* itself down, unless the model stays Entangled.
ShutdownEndsAlone ==
    <>[](pc[User] \in {"idle", "success", "timeout"} \/ Entangled)

\* shutdown returns: "Blocks until all in-flight run_async() callbacks have
\* returned (bounded by a timeout)" (infer_model.hpp).
ShutdownEnds == pc[User] = "abort" ~> pc[User] \in {"success", "timeout"}
=============================================================================
