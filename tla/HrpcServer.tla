----------------------------- MODULE HrpcServer -----------------------------
(***************************************************************************)
(* The server side of one hrpc connection (hrpc/server.cpp): the thread in *)
(* serve_client reads requests and queues actions, the ClientConnection's  *)
(* action thread runs them (HailoRTServer's handlers), and the inference   *)
(* callbacks answer the run_async requests.  All three write responses     *)
(* with ResponseWriter::write, under the server's write mutex.  The client *)
(* is any sequence of requests, reads and a close.                         *)
(***************************************************************************)
EXTENDS Naturals, Sequences, FiniteSets

CONSTANTS Jobs, Syncs, Shut, None,   \* as in HrpcPeer
          QueueSize                  \* ACTION_THREAD_QUEUE_SIZE

Requests == Jobs \cup Syncs \cup {Shut}
WithBuffers == Jobs \cup Syncs

\* The threads that write responses.
Threads == {"serve", "action", "infer"}

VARIABLES
    toServer,     \* requests written by the client and not yet read
    toClient,     \* reply chunks written and not yet read by the client
    session,      \* "open", "gone" (ended by the server) or "closed" (by the client)
    sent,         \* the requests the client made
    serve,        \* serve_client: "read", "failed", "teardown" (shutdown signalled) or "gone"
    actions,      \* m_action_thread_queue
    models,       \* run_async requests whose inference is running on the server
    response,     \* response[t]: the response thread t is writing
    writeMutex,   \* the thread that wrote a header and still has the buffers to write
    broken        \* "no", "dropped" or "cut": the worst a failed write did (ghost)

vars == <<toServer, toClient, session, sent, serve, actions, models, response, writeMutex, broken>>

Idle == [req |-> None, status |-> "none", again |-> FALSE]
AllIdle == [t \in Threads |-> Idle]

\* Thread t enters ResponseWriter::write; again: its first response to r failed.
Respond(t, r, st, again) ==
    response' = [response EXCEPT ![t] = [req |-> r, status |-> st, again |-> again]]

Init ==
    /\ toServer = << >> /\ toClient = << >> /\ session = "open" /\ sent = {}
    /\ serve = "read"
    /\ actions = << >>
    /\ models = {}
    /\ response = AllIdle
    /\ writeMutex = None
    /\ broken = "no"

(************************* ResponseWriter::write ***************************)

\* Variant: a response does not wait for the one being written.
WriteHeaderUnlocked(t) ==
    /\ response[t] # Idle /\ writeMutex # t /\ session = "open"
    /\ toClient' = Append(toClient, [kind |-> "header", req |-> response[t].req,
                                     status |-> response[t].status])
    /\ IF response[t].status = "ok" /\ response[t].req \in WithBuffers /\ writeMutex = None
       THEN writeMutex' = t /\ UNCHANGED response
       ELSE response' = [response EXCEPT ![t] = Idle] /\ UNCHANGED writeMutex
    /\ UNCHANGED <<toServer, session, sent, serve, actions, models, broken>>

\* An error is answered with the header alone, a success with the header and
\* then the additional buffers, the mutex held from the one to the other.
WriteHeader(t) ==
    /\ response[t] # Idle /\ writeMutex = None /\ session = "open"
    /\ toClient' = Append(toClient, [kind |-> "header", req |-> response[t].req,
                                     status |-> response[t].status])
    /\ IF response[t].status = "ok" /\ response[t].req \in WithBuffers
       THEN writeMutex' = t /\ UNCHANGED response
       ELSE response' = [response EXCEPT ![t] = Idle] /\ UNCHANGED writeMutex
    /\ UNCHANGED <<toServer, session, sent, serve, actions, models, broken>>

\* Variant: the mutex is not released after the buffers.
WriteBufferKeepsLock(t) ==
    /\ writeMutex = t /\ session = "open" /\ response[t] # Idle
    /\ toClient' = Append(toClient, [kind |-> "buffer", req |-> response[t].req, status |-> "ok"])
    /\ response' = [response EXCEPT ![t] = Idle]
    /\ UNCHANGED <<toServer, session, sent, serve, actions, models, writeMutex, broken>>

WriteBuffer(t) ==
    /\ writeMutex = t /\ session = "open"
    /\ toClient' = Append(toClient, [kind |-> "buffer", req |-> response[t].req, status |-> "ok"])
    /\ response' = [response EXCEPT ![t] = Idle]
    /\ writeMutex' = None
    /\ UNCHANGED <<toServer, session, sent, serve, actions, models, broken>>

\* Variant: the wait before a write has no timeout and does not see the session end.
WriteFailsNever(t) ==
    /\ response[t] # Idle /\ FALSE
    /\ UNCHANGED vars

\* The wait for the session or a write fails (a timeout, or the session ended):
\* the rest of the response is not written.  The serving thread gives the
\* connection up; the action thread answers its failed action with one more
\* response to the same request; an inference callback only logs.
WriteFails(t) ==
    /\ response[t] # Idle /\ writeMutex \in {None, t}
    /\ writeMutex' = None
    /\ broken' = CASE session # "open" -> broken
                   [] writeMutex = t -> "cut"
                   [] broken = "no" -> "dropped"
                   [] OTHER -> broken
    /\ serve' = IF t = "serve" THEN "failed" ELSE serve
    /\ IF t = "action" /\ ~response[t].again /\ response[t].status = "ok"
       THEN Respond(t, response[t].req, "err", TRUE)
       ELSE response' = [response EXCEPT ![t] = Idle]
    /\ UNCHANGED <<toServer, toClient, session, sent, actions, models>>

(************************** The serving thread *****************************)

\* Variant: an action is queued whether or not there is room.
ServeRequestNoRoom ==
    /\ serve = "read" /\ response["serve"] = Idle /\ toServer # << >> /\ session = "open"
    /\ toServer' = Tail(toServer)
    /\ actions' = Append(actions, Head(toServer))
    /\ UNCHANGED <<toClient, session, sent, serve, models, response, writeMutex, broken>>

\* handle_client_request: read a message and parse it.  A request that parses is
\* queued for the action thread, a run_async that does not is answered from
\* here; a queue that stays full ends the connection.
ServeRequest ==
    /\ serve = "read" /\ response["serve"] = Idle /\ toServer # << >> /\ session = "open"
    /\ toServer' = Tail(toServer)
    /\ \/ /\ Len(actions) < QueueSize
          /\ actions' = Append(actions, Head(toServer))
          /\ UNCHANGED <<serve, response>>
       \/ /\ Head(toServer) \in Jobs
          /\ Respond("serve", Head(toServer), "err", FALSE)
          /\ UNCHANGED <<serve, actions>>
    /\ UNCHANGED <<toClient, session, sent, models, writeMutex, broken>>

\* The connection ends: the session did, no room in the queue came in time, or what
\* is read is no message (the buffers of a request whose parsing failed).
ServeFails ==
    /\ serve = "read" /\ response["serve"] = Idle
    /\ session # "open" \/ toServer # << >>
    /\ serve' = "failed"
    /\ UNCHANGED <<toServer, toClient, session, sent, actions, models, response, writeMutex, broken>>

\* shutdown_action_thread signals the shutdown event.
ServeShutdown ==
    /\ serve = "failed"
    /\ serve' = "teardown"
    /\ UNCHANGED <<toServer, toClient, session, sent, actions, models, response, writeMutex, broken>>

\* The join waits for the action that runs; the ones still queued are dropped;
\* cleanup_client_resources releases the client's models, which waits
\* for their inferences; then the session is closed under the write mutex.
ServeTeardown ==
    /\ serve = "teardown"
    /\ response = AllIdle /\ models = {}
    /\ serve' = "gone" /\ actions' = << >>
    /\ session' = IF session = "open" THEN "gone" ELSE session
    /\ UNCHANGED <<toServer, toClient, sent, models, response, writeMutex, broken>>

ServeStep == ServeRequest \/ ServeFails \/ ServeShutdown \/ ServeTeardown

(************* The action thread and the inference callbacks ***************)

\* Dequeue an action and do it.  run_async of the server's model takes the job;
\* its shutdown succeeds when its jobs are answered; any action may fail.
DoAction ==
    /\ serve \in {"read", "failed"} /\ actions # << >> /\ response["action"] = Idle
    /\ actions' = Tail(actions)
    /\ LET r == Head(actions) IN
       \/ r \in Jobs /\ models' = models \cup {r} /\ UNCHANGED response
       \/ /\ r = Shut => models = {} /\ response["infer"] = Idle
          /\ r \notin Jobs /\ Respond("action", r, "ok", FALSE) /\ UNCHANGED models
       \/ Respond("action", r, "err", FALSE) /\ UNCHANGED models
    /\ UNCHANGED <<toServer, toClient, session, sent, serve, writeMutex, broken>>

\* infer_done_callback of the run_async handler answers with the outcome.
InferDone(j) ==
    /\ j \in models /\ response["infer"] = Idle
    /\ models' = models \ {j}
    /\ \E st \in {"ok", "err"} : Respond("infer", j, st, FALSE)
    /\ UNCHANGED <<toServer, toClient, session, sent, serve, actions, writeMutex, broken>>

(****************** The client, and the death of the server ****************)

ClientSends(r) ==
    /\ r \notin sent /\ session # "closed"
    /\ sent' = sent \cup {r}
    /\ toServer' = IF session = "open" THEN Append(toServer, r) ELSE toServer
    /\ UNCHANGED <<toClient, session, serve, actions, models, response, writeMutex, broken>>

ClientReads ==
    /\ session # "closed" /\ toClient # << >>
    /\ toClient' = Tail(toClient)
    /\ UNCHANGED <<toServer, session, sent, serve, actions, models, response, writeMutex, broken>>

ClientCloses ==
    /\ session # "closed"
    /\ session' = "closed" /\ toClient' = << >>
    /\ UNCHANGED <<toServer, sent, serve, actions, models, response, writeMutex, broken>>

ServerDies ==
    /\ serve # "gone"
    /\ serve' = "gone" /\ models' = {} /\ actions' = << >>
    /\ response' = AllIdle /\ writeMutex' = None
    /\ session' = IF session = "open" THEN "gone" ELSE session
    /\ UNCHANGED <<toServer, toClient, sent, broken>>

Next ==
    \/ \E t \in Threads : WriteHeader(t) \/ WriteBuffer(t) \/ WriteFails(t)
    \/ ServeStep \/ DoAction
    \/ \E j \in Jobs : InferDone(j)
    \/ \E r \in Requests : ClientSends(r)
    \/ ClientReads \/ ClientCloses \/ ServerDies

\* Threads that can run do.  The requests are finitely many, so that weak fairness
\* of the writers together lets each of them get the write mutex.  A write fails
\* for sure only once the session ended.
Fairness ==
    /\ WF_vars(\E t \in Threads : \/ WriteHeader(t) \/ WriteBuffer(t)
                                  \/ session # "open" /\ WriteFails(t))
    /\ WF_vars(ServeStep)
    /\ WF_vars(DoAction)
    /\ WF_vars(\E j \in Jobs : InferDone(j))

Spec == Init /\ [][Next]_vars /\ Fairness

-----------------------------------------------------------------------------
TypeOK ==
    /\ toServer \in Seq(Requests) /\ session \in {"open", "gone", "closed"} /\ sent \subseteq Requests
    /\ toClient \in Seq([kind : {"header", "buffer"}, req : Requests, status : {"ok", "err"}])
    /\ serve \in {"read", "failed", "teardown", "gone"}
    /\ actions \in Seq(Requests) /\ Len(actions) <= QueueSize /\ models \subseteq Jobs
    /\ response \in [Threads -> [req : Requests \cup {None}, status : {"none", "ok", "err"}, again : BOOLEAN]]
    /\ writeMutex \in Threads \cup {None} /\ broken \in {"no", "dropped", "cut"}

SeqToSet(s) == {s[i] : i \in DOMAIN s}

\* The requests this server has yet to answer, and how.
Owed(r) ==
    CASE session # "open" -> "nothing"
      [] \E t \in Threads : response[t].req = r -> IF \E t \in Threads : response[t].req = r /\ response[t].again
                                                   THEN "error" ELSE "answer"
      [] r \in SeqToSet(toServer) \cup SeqToSet(actions) \cup models -> "answer"
      [] OTHER -> "nothing"

Peer == INSTANCE HrpcPeer WITH
    owed <- [r \in Requests |-> Owed(r)],
    midway <- IF writeMutex = None \/ session # "open" THEN None ELSE response[writeMutex].req

\* What the client sees of the three writing threads is the peer HrpcClient is
\* checked against: one answer for a request (or an error after a failed one),
\* every header followed by its own buffers.
ImplementsPeer == Peer!PeerSpec

\* A request that reached the server is answered, or its write fails, or the
\* session ends: none is forgotten in a queue.
AnswersOwed == \A r \in Requests : Owed(r) = "answer" ~> (Owed(r) # "answer")

\* The connection of a client that went away is taken down: the joins in
\* serve_client end.
TeardownEnds == session = "closed" ~> serve = "gone"
=============================================================================
