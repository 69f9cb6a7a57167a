----------------------------- MODULE HrpcClient -----------------------------
(***************************************************************************)
(* The client side of hrpc: the threads that call execute_request and      *)
(* execute_request_async, the message loop thread, and the destructor      *)
(* (hrpc/client.cpp); on top of it the remote ConfiguredInferModel, whose  *)
(* run_async, shutdown and wait_for_pending_callbacks count jobs in        *)
(* AsyncJobsState (configured_infer_model_hrpc_client.cpp).                *)
(*                                                                         *)
(* m_messages_sent, incremented under m_write_mutex, gives every request a *)
(* message id of its own, so the request itself stands for its id.  Every  *)
(* failure status is "err", but for the timeouts a property tells apart.   *)
(***************************************************************************)
EXTENDS HrpcPeer

VARIABLES
    running,      \* Client::m_is_running
    finished,     \* *m_is_message_loop_finished
    replyData,    \* m_reply_data: the requests whose reply is awaited
    parked,       \* m_parked_replies
    pc,           \* pc[r]: where the thread calling r is
    ret,          \* ret[r]: what the call returned
    cb,           \* cb[r]: "no", "running" or "ended": the reply callback
    reply,        \* reply[r]: the reply a synchronous caller is woken with
    loop,         \* the message loop thread: its step and the reply in hand
    dma,          \* dma[r]: the transfer into the read buffers of r
    jobs,         \* AsyncJobsState, and the remote model's shutdown()
    life          \* the Client object: "up", "closing", "joining", "destroyed"

clientVars == <<running, finished, replyData, parked, pc, ret, cb, reply, loop, dma, jobs, life>>

LoopSteps == {"read", "pop", "ready", "dma", "call", "return", "stop", "popAll", "drain", "end"}

\* No reply in hand: the request it is for, whether it is an answer read from the
\* session, its status, the request whose buffer was read, exit after the callback.
NoReply == [req |-> None, answer |-> FALSE, status |-> "none", data |-> None, exit |-> FALSE]

ClientInit ==
    /\ running = TRUE
    /\ finished = FALSE
    /\ replyData = {}
    /\ parked = {}
    /\ pc = [r \in Requests |-> "new"]
    /\ ret = [r \in Requests |-> "none"]
    /\ cb = [r \in Requests |-> "no"]
    /\ reply = [r \in Requests |-> "none"]
    /\ loop = [at |-> "read", in |-> NoReply, left |-> {}]
    /\ dma = [r \in Requests |-> "none"]
    /\ jobs = [ongoing |-> 0, pending |-> 0, before |-> {}, ret |-> "none"]
    /\ life = "up"

Return(r, st) ==
    /\ pc' = [pc EXCEPT ![r] = "done"]
    /\ ret' = [ret EXCEPT ![r] = st]

(*************************** The calling threads ***************************)

\* The thread that holds m_infer_mutex of the remote model, m_write_mutex.
InferMutexFree == \A j \in Jobs : pc[j] \notin {"lock", "write", "written"}
WriteMutexFree == \A r \in Requests : pc[r] \notin {"write", "written"}

\* What follows the return of execute_request_async_impl with st, the job being
\* counted in c: run_async uncounts a refused job, execute_request of an accepted
\* request waits for the reply.
AfterImpl(r, st, c) ==
    /\ IF st = "ok" /\ r \notin Jobs
       THEN pc' = [pc EXCEPT ![r] = "wait"] /\ UNCHANGED ret
       ELSE Return(r, st)
    /\ jobs' = IF st # "ok" /\ r \in Jobs
               THEN [c EXCEPT !.ongoing = @ - 1, !.pending = @ - 1]
               ELSE c

\* run_async_impl or execute_request enters execute_request_async_impl: a job is
\* counted, then a client whose loop no longer runs refuses the request.
\* shutdown() answers for the jobs launched before it.  (A run_async that fails
\* makes the call a user can make at any time, so it is not a step of its own.)
Launch(r) ==
    /\ pc[r] = "new" /\ life = "up"
    /\ r \in Jobs => InferMutexFree
    /\ LET counted == CASE r \in Jobs -> [jobs EXCEPT !.ongoing = @ + 1, !.pending = @ + 1]
                        [] r = Shut -> [jobs EXCEPT !.before = {j \in Jobs : pc[j] # "new"}]
                        [] OTHER -> jobs
       IN IF running
          THEN pc' = [pc EXCEPT ![r] = "lock"] /\ jobs' = counted /\ UNCHANGED ret
          ELSE AfterImpl(r, "err", counted)
    /\ UNCHANGED <<running, finished, replyData, parked, cb, reply, loop, dma, life, peerVars>>

\* The remote model holds the client weakly: once it is destroyed,
\* request_shutdown fails and shutdown() goes on to wait for the callbacks.
ShutdownWithoutClient ==
    /\ pc[Shut] = "new" /\ life = "destroyed"
    /\ Return(Shut, "err")
    /\ jobs' = [jobs EXCEPT !.before = {j \in Jobs : pc[j] # "new"}]
    /\ UNCHANGED <<running, finished, replyData, parked, cb, reply, loop, dma, life, peerVars>>

\* Under m_write_mutex: get a message buffer and register the callback.
Emplace(r) ==
    /\ pc[r] = "lock" /\ WriteMutexFree
    /\ replyData' = replyData \cup {r}
    /\ pc' = [pc EXCEPT ![r] = "write"]
    /\ UNCHANGED <<running, finished, parked, ret, cb, reply, loop, dma, jobs, life, peerVars>>

\* No message buffer is left in the pool.
AllocateFails(r) ==
    /\ pc[r] = "lock" /\ WriteMutexFree
    /\ AfterImpl(r, "err", jobs)
    /\ UNCHANGED <<running, finished, replyData, parked, cb, reply, loop, dma, life, peerVars>>

\* write_message_async.  A message queued on a session the server ended is lost.
WriteMessage(r) ==
    /\ pc[r] = "write"
    /\ pc' = [pc EXCEPT ![r] = "written"]
    /\ PeerReceives(r)
    /\ UNCHANGED <<running, finished, replyData, parked, ret, cb, reply, loop, dma, jobs, life>>

\* The write fails (no room, or the session ended): the caller takes its callback
\* back, unless the loop already took it: then the callback runs and the request
\* counts as accepted.
WriteMessageFails(r) ==
    /\ pc[r] = "write"
    /\ AfterImpl(r, IF r \in replyData THEN "err" ELSE "ok", jobs)
    /\ replyData' = replyData \ {r}
    /\ UNCHANGED <<running, finished, parked, cb, reply, loop, dma, life, peerVars>>

\* Variant: m_is_running is not looked at again after the write.
CheckAfterWriteSkipped(r) ==
    /\ pc[r] = "written"
    /\ AfterImpl(r, "ok", jobs)
    /\ UNCHANGED <<running, finished, replyData, parked, cb, reply, loop, dma, life, peerVars>>

\* The second look at m_is_running, after the write.  The loop may have ended
\* since the first; if it has not drained the callback, the caller takes it back
\* and parks it, for the queued write may still use what it owns.
CheckAfterWrite(r) ==
    /\ pc[r] = "written"
    /\ LET takenBack == ~running /\ r \in replyData IN
       /\ replyData' = IF takenBack THEN replyData \ {r} ELSE replyData
       /\ parked' = IF takenBack THEN parked \cup {r} ELSE parked
       /\ AfterImpl(r, IF takenBack THEN "err" ELSE "ok", jobs)
    /\ UNCHANGED <<running, finished, cb, reply, loop, dma, life, peerVars>>

\* execute_request: the reply came, or its timeout expired first and the callback
\* is dropped from the map if it is still there.
ReplyReceived(r) ==
    /\ pc[r] = "wait" /\ reply[r] # "none"
    /\ Return(r, reply[r])
    /\ reply' = [reply EXCEPT ![r] = "none"]
    /\ UNCHANGED <<running, finished, replyData, parked, cb, loop, dma, jobs, life, peerVars>>

ReplyTimeout(r) ==
    /\ pc[r] = "wait" /\ reply[r] = "none"
    /\ Return(r, "timeout")
    /\ replyData' = replyData \ {r}
    /\ UNCHANGED <<running, finished, parked, cb, reply, loop, dma, jobs, life, peerVars>>

\* wait_for_pending_callbacks, called by shutdown() after request_shutdown from a
\* thread that is not the message loop, and the status shutdown() returns.
ShutdownReturns ==
    /\ pc[Shut] = "done" /\ jobs.ret = "none"
    /\ jobs' = [jobs EXCEPT !.ret =
                   IF ret[Shut] = "ok" /\ jobs.pending # 0 /\ ~finished THEN "timeout" ELSE ret[Shut]]
    /\ UNCHANGED <<running, finished, replyData, parked, pc, ret, cb, reply, loop, dma, life, peerVars>>

(**************************** The message loop *****************************)

GoTo(step) == loop' = [loop EXCEPT !.at = step]

\* while (m_is_running)
Top == IF running THEN "read" ELSE "stop"

\* read_message: a chunk that is not a message has no magic, which ends the loop,
\* as the end of the session does.
LoopRead ==
    /\ loop.at = "read"
    /\ \/ /\ ReadsClosed
          /\ GoTo("stop") /\ UNCHANGED peerVars
       \/ /\ PeerRead
          /\ LET chunk == Head(toClient) IN
             IF chunk.kind = "header"
             THEN loop' = [loop EXCEPT !.at = "pop", !.in.req = chunk.req, !.in.answer = TRUE,
                                       !.in.status = chunk.status]
             ELSE GoTo("stop")
    /\ UNCHANGED <<running, finished, replyData, parked, pc, ret, cb, reply, dma, jobs, life>>

\* The callback registered under the message id is taken; a reply nobody waits
\* for is skipped, and its buffers are not read.
LoopPop ==
    /\ loop.at = "pop"
    /\ IF loop.in.req \in replyData
       THEN /\ replyData' = replyData \ {loop.in.req}
            /\ GoTo(IF loop.in.status = "ok" /\ loop.in.req \in WithBuffers THEN "ready" ELSE "call")
       ELSE /\ loop' = [loop EXCEPT !.at = Top, !.in = NoReply]
            /\ UNCHANGED replyData
    /\ UNCHANGED <<running, finished, parked, pc, ret, cb, reply, dma, jobs, life, peerVars>>

\* The wait for the session to take the read, and the start of the read of the
\* additional buffers.
LoopStartRead ==
    /\ loop.at = "ready" /\ session # "closed"
    /\ dma' = [dma EXCEPT ![loop.in.req] = "inflight"]
    /\ GoTo("dma")
    /\ UNCHANGED <<running, finished, replyData, parked, pc, ret, cb, reply, jobs, life, peerVars>>

\* The session is closed or not ready in time: no transfer is left behind, so the
\* callback is given the failure before the loop ends.
LoopReadRefused ==
    /\ loop.at = "ready"
    /\ loop' = [loop EXCEPT !.at = "call", !.in.status = "err", !.in.exit = TRUE]
    /\ UNCHANGED <<running, finished, replyData, parked, pc, ret, cb, reply, dma, jobs, life, peerVars>>

\* read_buffers_without_ready_wait returns with the end of the transfer.
LoopEndRead ==
    /\ loop.at = "dma" /\ dma[loop.in.req] \in {"done", "aborted"}
    /\ loop' = IF dma[loop.in.req] = "done"
               THEN [loop EXCEPT !.at = "call"]
               ELSE [loop EXCEPT !.at = "call", !.in.status = "err", !.in.exit = TRUE]
    /\ dma' = [dma EXCEPT ![loop.in.req] = "none"]
    /\ UNCHANGED <<running, finished, replyData, parked, pc, ret, cb, reply, jobs, life, peerVars>>

\* Variant: the callback is told of the timeout, as it is of other failures.
LoopReadTimeoutCalls ==
    /\ loop.at = "dma" /\ dma[loop.in.req] = "inflight"
    /\ loop' = [loop EXCEPT !.at = "call", !.in.status = "err", !.in.exit = TRUE]
    /\ UNCHANGED <<running, finished, replyData, parked, pc, ret, cb, reply, dma, jobs, life, peerVars>>

\* The transfer times out: the reply is parked, its callback uncalled.
LoopReadTimeout ==
    /\ loop.at = "dma" /\ dma[loop.in.req] = "inflight"
    /\ parked' = parked \cup {loop.in.req}
    /\ loop' = [loop EXCEPT !.at = "stop", !.in = NoReply]
    /\ UNCHANGED <<running, finished, replyData, pc, ret, cb, reply, dma, jobs, life, peerVars>>

\* Variant: the job stops counting as pending before the user's callback runs.
LoopCallReleasesFirst ==
    /\ loop.at = "call"
    /\ LET r == loop.in.req IN
       /\ cb' = [cb EXCEPT ![r] = "running"]
       /\ jobs' = IF r \in Jobs THEN [jobs EXCEPT !.ongoing = @ - 1, !.pending = @ - 1] ELSE jobs
       /\ reply' = IF r \in Jobs \/ pc[r] = "done" THEN reply
                   ELSE [reply EXCEPT ![r] = loop.in.status]
    /\ GoTo("return")
    /\ UNCHANGED <<running, finished, replyData, parked, pc, ret, dma, life, peerVars>>

\* reply_data.callback.  run_async's callback first gives the transfer slot back
\* and runs the user's; a synchronous caller's hands the reply over.
LoopCall ==
    /\ loop.at = "call"
    /\ LET r == loop.in.req IN
       /\ cb' = [cb EXCEPT ![r] = "running"]
       /\ jobs' = IF r \in Jobs THEN [jobs EXCEPT !.ongoing = @ - 1] ELSE jobs
       /\ reply' = IF r \in Jobs \/ pc[r] = "done" THEN reply
                   ELSE [reply EXCEPT ![r] = loop.in.status]
    /\ GoTo("return")
    /\ UNCHANGED <<running, finished, replyData, parked, pc, ret, dma, life, peerVars>>

\* Once the user's callback returned, the job stops counting as pending.
LoopReturn ==
    /\ loop.at = "return"
    /\ cb' = [cb EXCEPT ![loop.in.req] = "ended"]
    /\ jobs' = IF loop.in.req \in Jobs THEN [jobs EXCEPT !.pending = @ - 1] ELSE jobs
    /\ loop' = [loop EXCEPT !.in = NoReply,
                    !.at = IF ~loop.in.answer THEN "drain" ELSE IF loop.in.exit THEN "stop" ELSE Top]
    /\ UNCHANGED <<running, finished, replyData, parked, pc, ret, reply, dma, life, peerVars>>

\* After message_loop: m_is_running is cleared before the map is drained.
LoopStop ==
    /\ loop.at = "stop"
    /\ running' = FALSE
    /\ GoTo("popAll")
    /\ UNCHANGED <<finished, replyData, parked, pc, ret, cb, reply, dma, jobs, life, peerVars>>

\* Variant: the callbacks left when the loop ends are dropped.
LoopPopAllDrops ==
    /\ loop.at = "popAll"
    /\ GoTo("drain")
    /\ replyData' = {}
    /\ UNCHANGED <<running, finished, parked, pc, ret, cb, reply, dma, jobs, life, peerVars>>

LoopPopAll ==
    /\ loop.at = "popAll"
    /\ loop' = [loop EXCEPT !.at = "drain", !.left = replyData]
    /\ replyData' = {}
    /\ UNCHANGED <<running, finished, parked, pc, ret, cb, reply, dma, jobs, life, peerVars>>

\* Every callback left gets HAILO_COMMUNICATION_CLOSED, then the loop is finished.
LoopDrain ==
    /\ loop.at = "drain"
    /\ \/ \E r \in loop.left :
             /\ loop' = [loop EXCEPT !.at = "call", !.left = @ \ {r},
                                     !.in = [NoReply EXCEPT !.req = r, !.status = "err"]]
             /\ UNCHANGED finished
       \/ loop.left = {} /\ GoTo("end") /\ finished' = TRUE
    /\ UNCHANGED <<running, replyData, parked, pc, ret, cb, reply, dma, jobs, life, peerVars>>

(******************** The session's reads, the destructor *******************)

\* A read of buffers takes whatever comes next on the session.  One the loop
\* gave up ends unnoticed.
DmaTransfer(r) ==
    /\ dma[r] = "inflight" /\ PeerRead
    /\ IF loop.in.req = r
       THEN /\ dma' = [dma EXCEPT ![r] = "done"]
            /\ loop' = [loop EXCEPT !.in.data = IF Head(toClient).kind = "buffer"
                                                THEN Head(toClient).req ELSE None]
       ELSE dma' = [dma EXCEPT ![r] = "late"] /\ UNCHANGED loop
    /\ UNCHANGED <<running, finished, replyData, parked, pc, ret, cb, reply, jobs, life>>

\* The end of the session ends its transfers.
Aborted(r) == IF dma[r] # "inflight" THEN dma[r] ELSE IF loop.in.req = r THEN "aborted" ELSE "late"

DmaAborted(r) ==
    /\ dma[r] = "inflight" /\ ReadsClosed
    /\ dma' = [dma EXCEPT ![r] = Aborted(r)]
    /\ UNCHANGED <<running, finished, replyData, parked, pc, ret, cb, reply, loop, jobs, life, peerVars>>

\* Variant: the loop is joined without closing the session.
DestroyWithoutClose ==
    /\ \/ /\ life = "up"
          /\ \A r \in Requests : pc[r] \in {"new", "done"}
          /\ life' = "closing" /\ running' = FALSE
       \/ life = "closing" /\ loop.at = "end" /\ life' = "destroyed" /\ UNCHANGED running
    /\ UNCHANGED <<finished, replyData, parked, pc, ret, cb, reply, loop, dma, jobs, peerVars>>

\* ~Client, once no thread is inside a call: stop, close the session, join the
\* loop, drop the parked replies.
Destroy ==
    /\ \/ /\ life = "up"
          /\ \A r \in Requests : pc[r] \in {"new", "done"}
          /\ life' = "closing" /\ running' = FALSE
          /\ UNCHANGED <<parked, dma, peerVars>>
       \/ /\ life = "closing"
          /\ life' = "joining" /\ PeerClosed
          /\ dma' = [r \in Requests |-> Aborted(r)]
          /\ UNCHANGED <<parked, running>>
       \/ /\ life = "joining" /\ loop.at = "end"
          /\ life' = "destroyed" /\ parked' = {}
          /\ UNCHANGED <<running, dma, peerVars>>
    /\ UNCHANGED <<finished, replyData, pc, ret, cb, reply, loop, jobs>>

CallerStep(r) == Emplace(r) \/ WriteMessage(r) \/ CheckAfterWrite(r) \/ ReplyReceived(r)

LoopStep ==
    \/ LoopRead \/ LoopPop \/ LoopStartRead \/ (session = "closed" /\ LoopReadRefused) \/ LoopEndRead
    \/ LoopCall \/ LoopReturn \/ LoopStop \/ LoopPopAll \/ LoopDrain

ClientStep ==
    \/ \E r \in Requests : Launch(r) \/ CallerStep(r) \/ (session # "open" /\ WriteMessageFails(r))
    \/ \E r \in Requests : DmaTransfer(r) \/ DmaAborted(r)
    \/ ShutdownWithoutClient \/ ShutdownReturns
    \/ LoopStep
    \/ Destroy

\* What can go wrong on the client's side.
ClientFault ==
    \/ \E r \in Requests : AllocateFails(r) \/ WriteMessageFails(r) \/ ReplyTimeout(r)
    \/ LoopReadRefused \/ LoopReadTimeout
=============================================================================
