-------------------------------- MODULE Hrpc --------------------------------
(***************************************************************************)
(* An hrpc client, the server that serves it and the session between them, *)
(* with the remote ConfiguredInferModel on top of the client: what its     *)
(* callers may rely on when replies, timeouts, the end of the session and  *)
(* shutdown() race each other.                                             *)
(***************************************************************************)
EXTENDS HrpcClient

CONSTANT MaxFaults       \* how many things go wrong in one behaviour

VARIABLE faults

vars == <<peerVars, clientVars, faults>>

Init == PeerInit /\ ClientInit /\ faults = 0

Next ==
    \/ /\ ClientStep \/ (PeerStep /\ UNCHANGED clientVars)
       /\ UNCHANGED faults
    \/ /\ faults < MaxFaults /\ faults' = faults + 1
       /\ ClientFault \/ (PeerFault /\ UNCHANGED clientVars)

\* Threads that can run do, and the peer answers what it owes.  The calls are
\* finitely many, so that weak fairness of the callers together lets each of them
\* get m_write_mutex.  No fairness for faults (a failing write, the end of the
\* session, a timeout) or for new calls.
Fairness ==
    /\ WF_vars(LoopStep /\ UNCHANGED faults)
    /\ WF_vars((\E r \in Requests : CallerStep(r)) /\ UNCHANGED faults)
    /\ WF_vars((\E r \in Requests : DmaTransfer(r) \/ DmaAborted(r)) /\ UNCHANGED faults)
    /\ WF_vars(life # "up" /\ Destroy /\ UNCHANGED faults)
    /\ WF_vars(PeerStep /\ UNCHANGED <<clientVars, faults>>)

Spec == Init /\ [][Next]_vars /\ Fairness

-----------------------------------------------------------------------------
TypeOK ==
    /\ owed \in [Requests -> {"nothing", "answer", "error"}] /\ midway \in Requests \cup {None}
    /\ toClient \in Seq(Chunk) /\ session \in {"open", "gone", "closed"}
    /\ broken \in {"no", "dropped", "cut"}
    /\ running \in BOOLEAN /\ finished \in BOOLEAN
    /\ replyData \subseteq Requests /\ parked \subseteq Requests
    /\ pc \in [Requests -> {"new", "lock", "write", "written", "wait", "done"}]
    /\ ret \in [Requests -> {"none", "ok", "err", "timeout"}]
    /\ cb \in [Requests -> {"no", "running", "ended"}]
    /\ reply \in [Requests -> {"none", "ok", "err"}]
    /\ loop.at \in LoopSteps /\ loop.left \subseteq Requests
    /\ dma \in [Requests -> {"none", "inflight", "done", "aborted", "late"}]
    /\ jobs.ongoing \in 0..Cardinality(Jobs) /\ jobs.pending \in 0..Cardinality(Jobs)
    /\ faults \in 0..MaxFaults
    /\ life \in {"up", "closing", "joining", "destroyed"}

\* The read of the reply buffers of r was started and given up.
Lost(r) == dma[r] \in {"inflight", "late"} /\ loop.in.req # r

\* What the call of r told its caller, as far as the contract goes.
Answer(r) == IF ret[r] = "none" THEN "none" ELSE IF ret[r] = "ok" THEN "accepted" ELSE "refused"

\* The contract of execute_request_async (client.hpp:45-47, :58) is what its
\* callers see of this client: run once after a success, never after a failure,
\* nothing once the loop is finished.
Contract == INSTANCE HrpcContract WITH
    Requests <- Jobs,
    answer <- [j \in Jobs |-> Answer(j)],
    called <- [j \in Jobs |-> cb[j] # "no"],
    lost <- [j \in Jobs |-> Lost(j)],
    over <- finished

ImplementsContract == Contract!Spec

\* "The user may free the read buffers in the callback, so it must not run while
\* the DMA may write them" (client.cpp:133), and they may be freed as well when
\* run_async failed.  A synchronous caller gets its buffers back on return; only
\* after a timeout may the transfer still write them.
BuffersQuiet ==
    \A r \in WithBuffers : dma[r] = "inflight" =>
        /\ cb[r] = "no"
        /\ r \in Jobs => ret[r] \in {"none", "ok"}
        /\ r \in Syncs /\ pc[r] = "done" => ret[r] = "timeout"

\* A callback that reports the server's answer as a success is given its own
\* buffers, whatever replies to timed-out requests are still on the session:
\* unless the server itself cut a response short. (Checked together with the types.)
OwnReply ==
    /\ TypeOK
    /\ loop.at = "call" /\ loop.in.status = "ok" /\ loop.in.req \in WithBuffers /\ broken # "cut"
        => loop.in.data = loop.in.req

\* When shutdown() of the remote model returned success, no callback of a job
\* launched before it is running, and none runs later (infer_model.hpp:390).
ShutdownQuiet ==
    [][\A j \in jobs.before : jobs.ret = "ok" => cb[j] # "running" /\ cb'[j] = cb[j]]_vars

\* An accepted run_async is called back (with the answer, or with the end of the
\* session) unless its buffers' read timed out or the server failed to answer.
AcceptedAnswered ==
    \A j \in Jobs : ret[j] = "ok" ~> (cb[j] = "ended" \/ Lost(j) \/ broken # "no")

\* ~Client returns: closing the session gets the message loop out of its read.
DestructorReturns == life = "closing" ~> life = "destroyed"
=============================================================================
