----------------------------- MODULE HrpcProofs -----------------------------
(***************************************************************************)
(* Proofs about the hrpc client of Hrpc, for every set of jobs, of         *)
(* synchronous requests and every number of faults: it implements the      *)
(* contract of execute_request_async, no callback runs while the session   *)
(* may write the buffers of its request, and a successful shutdown() of    *)
(* the remote model leaves no callback behind.                             *)
(*                                                                         *)
(* The argument follows a callback from its registration in m_reply_data   *)
(* to the call: it is in exactly one place (PlaceInv), its place agrees    *)
(* with what the caller was told (CallerInv, JobInv), and m_is_running is  *)
(* cleared before the map is popped for the last time (LoopInv), so that a *)
(* caller who registers later sees it and takes the callback back.         *)
(***************************************************************************)
EXTENDS Hrpc, FiniteSetTheorems, TLAPS

\* The variable loop.
LoopType ==
    loop \in [at : LoopSteps, left : SUBSET Requests,
              in : [req : Requests \cup {None}, answer : BOOLEAN, status : {"none", "ok", "err"},
                    data : Requests \cup {None}, exit : BOOLEAN]]

\* What the proofs need of the types; the counters and the faults play no part.
Types ==
    /\ toClient \in Seq(Chunk)
    /\ running \in BOOLEAN /\ finished \in BOOLEAN
    /\ replyData \subseteq Requests
    /\ pc \in [Requests -> {"new", "lock", "write", "written", "wait", "done"}]
    /\ ret \in [Requests -> {"none", "ok", "err", "timeout"}]
    /\ cb \in [Requests -> {"no", "running", "ended"}]
    /\ reply \in [Requests -> {"none", "ok", "err"}]
    /\ LoopType
    /\ dma \in [Requests -> {"none", "inflight", "done", "aborted", "late"}]

\* The loop handles the callbacks it popped when it ended; it is past its last read.
Draining == loop.at = "drain" \/ (loop.at \in {"call", "return"} /\ ~loop.in.answer)
Stopped == loop.at \in {"stop", "popAll", "end"} \/ Draining

\* The message loop: a reply is in its hand between the read and the end of the
\* callback; m_is_running is cleared before the map is popped, and what was
\* popped is gone when the loop is finished.
LoopInv ==
    /\ loop.at \in {"read", "stop", "popAll", "drain", "end"} <=> loop.in.req = None
    /\ loop.at \in {"pop", "ready", "dma"} => loop.in.answer
    /\ Draining \/ loop.at \in {"popAll", "end"} => ~running
    /\ loop.left # {} => Draining
    /\ finished <=> loop.at = "end"

\* The loop holds the callback of r.
Held(r) == loop.at \in {"ready", "dma", "call", "return"} /\ loop.in.req = r

\* A callback is in one place: in the map, popped, held, called or lost.
PlaceInv(r) ==
    /\ r \in replyData => r \notin loop.left
    /\ r \in replyData \cup loop.left => ~Held(r) /\ cb[r] = "no" /\ dma[r] = "none"
    /\ Held(r) => cb[r] = IF loop.at = "return" THEN "running" ELSE "no"
    /\ cb[r] = "running" => Held(r)
    /\ dma[r] # "none" => cb[r] = "no"

\* A transfer is awaited by the loop or was given up, and then the loop has ended.
DmaInv(r) ==
    \/ dma[r] = "none"
    \/ loop.at = "dma" /\ loop.in.req = r /\ dma[r] # "late"
    \/ Stopped /\ loop.in.req # r /\ dma[r] \in {"inflight", "late"}

Unused(r) == r \notin replyData \cup loop.left /\ ~Held(r) /\ cb[r] = "no" /\ dma[r] = "none"

\* The caller of r: nothing has the callback before it is registered or after
\* the call failed.
CallerInv(r) ==
    /\ pc[r] \in {"new", "lock"} => Unused(r)
    /\ pc[r] # "done" <=> ret[r] = "none"
    /\ reply[r] # "none" => cb[r] # "no"
    /\ ret[r] = "err" => Unused(r) \/ (r \notin Jobs /\ cb[r] # "no")
    /\ r \notin Jobs /\ ret[r] = "ok" => cb[r] # "no"

\* A registered callback of a job is somewhere, and once the map was popped a
\* job still in it is one whose caller is going to look at m_is_running.
JobInv(j) ==
    /\ pc[j] # "wait" /\ ret[j] # "timeout"
    /\ pc[j] \in {"write", "written"} \/ ret[j] = "ok" =>
           j \in replyData \cup loop.left \/ Held(j) \/ cb[j] # "no" \/ Lost(j)
    /\ j \in replyData /\ (Draining \/ loop.at = "end") => pc[j] \in {"write", "written"}

\* The jobs that AsyncJobsState counts as pending.
Pending == {j \in Jobs : pc[j] # "new" /\ ret[j] # "err" /\ cb[j] # "ended"}

JobsRecord ==
    [ongoing : Int, pending : Int, before : SUBSET Jobs, ret : {"none", "ok", "err", "timeout"}]

\* shutdown() of the remote model: a success means that nothing was pending, or
\* that the loop is finished.
CountInv ==
    /\ jobs \in JobsRecord
    /\ jobs.pending = Cardinality(Pending)
    /\ \A j \in jobs.before : pc[j] # "new"
    /\ jobs.ret # "none" => pc[Shut] = "done"
    /\ jobs.ret = "ok" => finished \/ jobs.before \cap Pending = {}

Inv ==
    /\ Types /\ LoopInv
    /\ \A r \in Requests : PlaceInv(r) /\ DmaInv(r) /\ CallerInv(r)
    /\ \A j \in Jobs : JobInv(j)

USE DEF Requests, WithBuffers

-----------------------------------------------------------------------------
\* A new Client satisfies the invariant.
LEMMA InvInit == Init => Inv
<1> SUFFICES ASSUME Init PROVE Inv
  OBVIOUS
<1>1. Types
  <2>1. toClient \in Seq(Chunk)
    BY DEF Init, PeerInit
  <2>2. LoopType
    BY DEF Init, ClientInit, NoReply, LoopType, LoopSteps
  <2> QED
    BY <2>1, <2>2 DEF Init, ClientInit, Types
<1>2. LoopInv
  BY PeerAssumption DEF Init, ClientInit, NoReply, LoopInv, Draining
<1>3. ASSUME NEW r \in Requests PROVE PlaceInv(r) /\ DmaInv(r) /\ CallerInv(r)
  BY <1>3, PeerAssumption
  DEF Init, ClientInit, NoReply, Held, PlaceInv, DmaInv, Unused, CallerInv
<1>4. ASSUME NEW j \in Jobs PROVE JobInv(j)
  BY <1>4, PeerAssumption DEF Init, ClientInit, JobInv, Draining
<1> QED
  BY <1>1, <1>2, <1>3, <1>4 DEF Inv

\* Steps that leave the client alone.
LEMMA InvPeer ==
  ASSUME Inv, UNCHANGED clientVars, toClient' \in Seq(Chunk)
  PROVE  Inv'
  BY DEF clientVars, Inv, Types, LoopType, LoopInv, Draining, Stopped,
      Held, PlaceInv, DmaInv, Unused, CallerInv, JobInv, Lost

\* What the session hands out next is a chunk, and so is the rest.
LEMMA NextChunk ==
  ASSUME toClient \in Seq(Chunk), toClient # << >>
  PROVE  Head(toClient) \in Chunk /\ Tail(toClient) \in Seq(Chunk)
  OBVIOUS

\* The calling threads, and the transfers they own, keep the invariant.
LEMMA InvCaller ==
  ASSUME Inv, NEW r \in Requests,
         \/ Launch(r)
         \/ Emplace(r)
         \/ AllocateFails(r)
         \/ WriteMessage(r)
         \/ WriteMessageFails(r)
         \/ CheckAfterWrite(r)
         \/ ReplyReceived(r)
         \/ ReplyTimeout(r)
         \/ DmaTransfer(r)
         \/ DmaAborted(r)
  PROVE  Inv'
<1>1. CASE Launch(r)
  BY <1>1, PeerAssumption
  DEF Launch, AfterImpl, Return, Inv, Types, LoopType, LoopSteps, LoopInv, Draining,
     Stopped, Held, PlaceInv, DmaInv, Unused, CallerInv, JobInv, Lost, peerVars
<1>2. CASE Emplace(r)
  BY <1>2, PeerAssumption
  DEF Emplace, Inv, Types, LoopType, LoopSteps, LoopInv, Draining, Stopped, Held, PlaceInv,
     DmaInv, Unused, CallerInv, JobInv, Lost, peerVars
<1>3. CASE AllocateFails(r)
  BY <1>3, PeerAssumption
  DEF AllocateFails, AfterImpl, Return, Inv, Types, LoopType, LoopSteps, LoopInv, Draining,
     Stopped, Held, PlaceInv, DmaInv, Unused, CallerInv, JobInv, Lost, peerVars
<1>4. CASE WriteMessage(r)
  BY <1>4, PeerAssumption
  DEF WriteMessage, PeerReceives, Inv, Types, LoopType, LoopSteps, LoopInv, Draining,
     Stopped, Held, PlaceInv, DmaInv, Unused, CallerInv, JobInv, Lost, peerVars
<1>5. CASE WriteMessageFails(r)
  BY <1>5, PeerAssumption
  DEF WriteMessageFails, AfterImpl, Return, Inv, Types, LoopType, LoopSteps, LoopInv,
     Draining, Stopped, Held, PlaceInv, DmaInv, Unused, CallerInv, JobInv, Lost, peerVars
<1>6. CASE CheckAfterWrite(r)
  <2>1. Types'
    BY <1>6, PeerAssumption
    DEF CheckAfterWrite, AfterImpl, Return, Inv, Types, LoopType, LoopSteps, LoopInv,
       DmaInv, peerVars
  <2>2. LoopInv'
    BY <1>6, PeerAssumption
    DEF CheckAfterWrite, AfterImpl, Return, Inv, Types, LoopType, LoopSteps, LoopInv,
       Draining, peerVars
  <2>3. ASSUME NEW q \in Requests PROVE PlaceInv(q)' /\ DmaInv(q)'
    BY <1>6, PeerAssumption
    DEF CheckAfterWrite, AfterImpl, Return, Inv, Types, LoopType, LoopSteps, LoopInv,
       Draining, Stopped, Held, PlaceInv, DmaInv, peerVars
  <2>4. ASSUME NEW q \in Requests PROVE CallerInv(q)'
    BY <1>6, PeerAssumption
    DEF CheckAfterWrite, AfterImpl, Return, Inv, Types, LoopType, LoopSteps, LoopInv,
       Draining, Stopped, Held, PlaceInv, DmaInv, peerVars, Unused, CallerInv
  <2>5. ASSUME NEW j \in Jobs PROVE JobInv(j)'
    BY <1>6, PeerAssumption
    DEF CheckAfterWrite, AfterImpl, Return, Inv, Types, LoopType, LoopSteps, LoopInv,
       Draining, Stopped, Held, PlaceInv, DmaInv, peerVars, Unused, CallerInv, Lost, JobInv
  <2> QED
    BY <2>1, <2>2, <2>3, <2>4, <2>5 DEF Inv
<1>7. CASE ReplyReceived(r)
  BY <1>7, PeerAssumption
  DEF ReplyReceived, Return, Inv, Types, LoopType, LoopSteps, LoopInv, Draining, Stopped,
     Held, PlaceInv, DmaInv, Unused, CallerInv, JobInv, Lost, peerVars
<1>8. CASE ReplyTimeout(r)
  BY <1>8, PeerAssumption
  DEF ReplyTimeout, Return, Inv, Types, LoopType, LoopSteps, LoopInv, Draining, Stopped,
     Held, PlaceInv, DmaInv, Unused, CallerInv, JobInv, Lost, peerVars
<1>9. CASE DmaTransfer(r)
  <2>1. Head(toClient) \in Chunk /\ toClient' \in Seq(Chunk)
    BY <1>9, NextChunk DEF DmaTransfer, PeerRead, Inv, Types
  <2>2. /\ dma[r] = "inflight"
        /\ UNCHANGED <<running, finished, replyData, parked, pc, ret, cb, reply, jobs, life>>
    BY <1>9 DEF DmaTransfer
  <2>3. CASE loop.in.req = r
    <3>1. PICK x \in Requests \cup {None} : loop' = [loop EXCEPT !.in.data = x]
      BY <1>9, <2>1, <2>3 DEF DmaTransfer, Chunk
    <3>2. LoopType' /\ loop'.at = loop.at /\ loop'.left = loop.left
          /\ loop'.in.req = r /\ loop'.in.answer = loop.in.answer
      BY <2>3, <3>1 DEF Inv, Types, LoopType
    <3>3. dma' = [dma EXCEPT ![r] = "done"]
      BY <1>9, <2>3 DEF DmaTransfer
    <3> QED
      BY <2>1, <2>2, <2>3, <3>2, <3>3, PeerAssumption
      DEF Inv, Types, LoopType, LoopSteps, LoopInv, Draining, Stopped, Held, PlaceInv,
         DmaInv, Unused, CallerInv, JobInv, Lost, peerVars
  <2>4. CASE loop.in.req # r
    <3>1. dma' = [dma EXCEPT ![r] = "late"] /\ UNCHANGED loop
      BY <1>9, <2>4 DEF DmaTransfer
    <3> QED
      BY <2>1, <2>2, <2>4, <3>1, PeerAssumption
      DEF Inv, Types, LoopType, LoopSteps, LoopInv, Draining, Stopped, Held, PlaceInv,
         DmaInv, Unused, CallerInv, JobInv, Lost, peerVars
  <2> QED
    BY <2>3, <2>4
<1>10. CASE DmaAborted(r)
  BY <1>10, PeerAssumption
  DEF DmaAborted, Aborted, Inv, Types, LoopType, LoopSteps, LoopInv, Draining, Stopped,
     Held, PlaceInv, DmaInv, Unused, CallerInv, JobInv, Lost, peerVars
<1> QED
  BY <1>1, <1>2, <1>3, <1>4, <1>5, <1>6, <1>7, <1>8, <1>9, <1>10

\* The message loop, the destructor and the ends of shutdown() keep the invariant.
LEMMA InvLoop ==
  ASSUME Inv,
         \/ ShutdownWithoutClient
         \/ ShutdownReturns
         \/ LoopRead
         \/ LoopPop
         \/ LoopStartRead
         \/ LoopReadRefused
         \/ LoopEndRead
         \/ LoopReadTimeout
         \/ LoopCall
         \/ LoopReturn
         \/ LoopStop
         \/ LoopPopAll
         \/ LoopDrain
         \/ Destroy
  PROVE  Inv'
<1>1. CASE ShutdownWithoutClient
  BY <1>1, PeerAssumption
  DEF ShutdownWithoutClient, Return, Inv, Types, LoopType, LoopSteps, LoopInv, Draining,
     Stopped, Held, PlaceInv, DmaInv, Unused, CallerInv, JobInv, Lost, peerVars
<1>2. CASE ShutdownReturns
  BY <1>2, PeerAssumption
  DEF ShutdownReturns, Inv, Types, LoopType, LoopSteps, LoopInv, Draining, Stopped, Held,
     PlaceInv, DmaInv, Unused, CallerInv, JobInv, Lost, peerVars
<1>3. CASE LoopRead
  <2> DEFINE chunk == Head(toClient)
  <2>1. CASE ReadsClosed /\ GoTo("stop") /\ UNCHANGED peerVars
    BY <1>3, <2>1, PeerAssumption DEF LoopRead, GoTo, Inv, Types, LoopType, LoopSteps,
       LoopInv, Draining, Stopped, Held, PlaceInv, DmaInv, Unused, CallerInv, JobInv, Lost,
       peerVars
  <2>2. CASE PeerRead /\ chunk.kind = "header"
    <3>0. chunk \in Chunk /\ toClient' \in Seq(Chunk)
      BY <2>2, NextChunk DEF PeerRead, Inv, Types
    <3>1. loop' = [loop EXCEPT !.at = "pop", !.in.req = chunk.req, !.in.answer = TRUE,
                               !.in.status = chunk.status]
      BY <1>3, <2>2 DEF LoopRead, GoTo, ReadsClosed, PeerRead
    <3>2. LoopType'
      BY <3>0, <3>1 DEF Inv, Types, LoopType, LoopSteps, Chunk
    <3>3. loop'.at = "pop" /\ loop'.in.req \in Requests /\ loop'.in.answer /\ loop'.left = loop.left
      BY <3>0, <3>1 DEF Inv, Types, LoopType, LoopSteps, Chunk
    <3>4. /\ loop.at = "read"
          /\ UNCHANGED <<running, finished, replyData, pc, ret, cb, reply, dma, jobs, life>>
      BY <1>3 DEF LoopRead
    <3> HIDE DEF chunk
    <3> QED
      BY <3>0, <3>2, <3>3, <3>4, PeerAssumption DEF Inv, Types, LoopType, LoopSteps,
         LoopInv, Draining, Stopped, Held, PlaceInv, DmaInv, Unused, CallerInv, JobInv,
         Lost, peerVars
  <2>3. CASE PeerRead /\ chunk.kind # "header"
    <3>0. toClient' \in Seq(Chunk)
      BY <2>3, NextChunk DEF PeerRead, Inv, Types
    <3>1. loop' = [loop EXCEPT !.at = "stop"]
      BY <1>3, <2>3 DEF LoopRead, GoTo, ReadsClosed, PeerRead
    <3> HIDE DEF chunk
    <3> QED
      BY <1>3, <3>0, <3>1, PeerAssumption DEF LoopRead, Inv, Types, LoopType, LoopSteps,
         LoopInv, Draining, Stopped, Held, PlaceInv, DmaInv, Unused, CallerInv, JobInv,
         Lost, peerVars
  <2> QED
    BY <1>3, <2>1, <2>2, <2>3 DEF LoopRead
<1>4. CASE LoopPop
  <2>1. CASE loop.in.req \in replyData
    <3>1. \E step \in {"ready", "call"} : loop' = [loop EXCEPT !.at = step]
      BY <1>4, <2>1 DEF LoopPop, GoTo
    <3>2. loop.at = "pop" /\ replyData' = replyData \ {loop.in.req}
      BY <1>4, <2>1 DEF LoopPop
    <3>3. UNCHANGED <<running, finished, pc, ret, cb, reply, dma, jobs, life, peerVars>>
      BY <1>4 DEF LoopPop
    <3> QED
      BY <2>1, <3>1, <3>2, <3>3, PeerAssumption DEF Inv, Types, LoopType, LoopSteps,
         LoopInv, Draining, Stopped, Held, PlaceInv, DmaInv, Unused, CallerInv, JobInv,
         Lost, peerVars
  <2>2. CASE loop.in.req \notin replyData
    <3>1. PICK step \in {"read", "stop"} : loop' = [loop EXCEPT !.at = step, !.in = NoReply]
      BY <1>4, <2>2 DEF LoopPop, Top
    <3>2. loop' = [at |-> step, in |-> NoReply, left |-> loop.left]
      BY <3>1 DEF Inv, Types, LoopType
    <3>3. loop.at = "pop" /\ replyData' = replyData
      BY <1>4, <2>2 DEF LoopPop
    <3>4. UNCHANGED <<running, finished, pc, ret, cb, reply, dma, jobs, life, peerVars>>
      BY <1>4 DEF LoopPop
    <3> QED
      BY <2>2, <3>2, <3>3, <3>4, PeerAssumption
      DEF NoReply, Inv, Types, LoopType, LoopSteps, LoopInv, Draining, Stopped, Held,
         PlaceInv, DmaInv, Unused, CallerInv, JobInv, Lost, peerVars
  <2> QED
    BY <2>1, <2>2
<1>5. CASE LoopStartRead
  BY <1>5, PeerAssumption
  DEF LoopStartRead, GoTo, Inv, Types, LoopType, LoopSteps, LoopInv, Draining, Stopped,
     Held, PlaceInv, DmaInv, Unused, CallerInv, JobInv, Lost, peerVars
<1>6. CASE LoopReadRefused
  <2>1. Types'
    BY <1>6, PeerAssumption
    DEF LoopReadRefused, Inv, Types, LoopType, LoopSteps, LoopInv, DmaInv, peerVars
  <2>2. LoopInv'
    BY <1>6, PeerAssumption
    DEF LoopReadRefused, Inv, Types, LoopType, LoopSteps, LoopInv, Draining, peerVars
  <2>3. ASSUME NEW q \in Requests PROVE PlaceInv(q)' /\ DmaInv(q)'
    BY <1>6, PeerAssumption
    DEF LoopReadRefused, Inv, Types, LoopType, LoopSteps, LoopInv, Draining, Stopped, Held,
       PlaceInv, DmaInv, peerVars
  <2>4. ASSUME NEW q \in Requests PROVE CallerInv(q)'
    BY <1>6, PeerAssumption
    DEF LoopReadRefused, Inv, Types, LoopType, LoopSteps, LoopInv, Draining, Stopped, Held,
       PlaceInv, DmaInv, peerVars, Unused, CallerInv
  <2>5. ASSUME NEW j \in Jobs PROVE JobInv(j)'
    BY <1>6, PeerAssumption
    DEF LoopReadRefused, Inv, Types, LoopType, LoopSteps, LoopInv, Draining, Stopped, Held,
       PlaceInv, DmaInv, peerVars, Unused, CallerInv, Lost, JobInv
  <2> QED
    BY <2>1, <2>2, <2>3, <2>4, <2>5 DEF Inv
<1>7. CASE LoopEndRead
  <2>1. Types'
    BY <1>7, PeerAssumption
    DEF LoopEndRead, Inv, Types, LoopType, LoopSteps, LoopInv, DmaInv, peerVars
  <2>2. LoopInv'
    BY <1>7, PeerAssumption
    DEF LoopEndRead, Inv, Types, LoopType, LoopSteps, LoopInv, Draining, peerVars
  <2>3. ASSUME NEW q \in Requests PROVE PlaceInv(q)' /\ DmaInv(q)'
    BY <1>7, PeerAssumption
    DEF LoopEndRead, Inv, Types, LoopType, LoopSteps, LoopInv, Draining, Stopped, Held,
       PlaceInv, DmaInv, peerVars
  <2>4. ASSUME NEW q \in Requests PROVE CallerInv(q)'
    BY <1>7, PeerAssumption
    DEF LoopEndRead, Inv, Types, LoopType, LoopSteps, LoopInv, Draining, Stopped, Held,
       PlaceInv, DmaInv, peerVars, Unused, CallerInv
  <2>5. ASSUME NEW j \in Jobs PROVE JobInv(j)'
    BY <1>7, PeerAssumption
    DEF LoopEndRead, Inv, Types, LoopType, LoopSteps, LoopInv, Draining, Stopped, Held,
       PlaceInv, DmaInv, peerVars, Unused, CallerInv, Lost, JobInv
  <2> QED
    BY <2>1, <2>2, <2>3, <2>4, <2>5 DEF Inv
<1>8. CASE LoopReadTimeout
  <2>1. Types'
    BY <1>8, PeerAssumption
    DEF LoopReadTimeout, NoReply, Inv, Types, LoopType, LoopSteps, LoopInv, DmaInv, peerVars
  <2>2. LoopInv'
    BY <1>8, PeerAssumption
    DEF LoopReadTimeout, NoReply, Inv, Types, LoopType, LoopSteps, LoopInv, Draining, peerVars
  <2>3. ASSUME NEW q \in Requests PROVE PlaceInv(q)' /\ DmaInv(q)'
    BY <1>8, PeerAssumption
    DEF LoopReadTimeout, NoReply, Inv, Types, LoopType, LoopSteps, LoopInv, Draining,
       Stopped, Held, PlaceInv, DmaInv, peerVars
  <2>4. ASSUME NEW q \in Requests PROVE CallerInv(q)'
    BY <1>8, PeerAssumption
    DEF LoopReadTimeout, NoReply, Inv, Types, LoopType, LoopSteps, LoopInv, Draining,
       Stopped, Held, PlaceInv, DmaInv, peerVars, Unused, CallerInv
  <2>5. ASSUME NEW j \in Jobs PROVE JobInv(j)'
    BY <1>8, PeerAssumption
    DEF LoopReadTimeout, NoReply, Inv, Types, LoopType, LoopSteps, LoopInv, Draining,
       Stopped, Held, PlaceInv, DmaInv, peerVars, Unused, CallerInv, Lost, JobInv
  <2> QED
    BY <2>1, <2>2, <2>3, <2>4, <2>5 DEF Inv
<1>9. CASE LoopCall
  BY <1>9, PeerAssumption
  DEF LoopCall, GoTo, Inv, Types, LoopType, LoopSteps, LoopInv, Draining, Stopped, Held,
     PlaceInv, DmaInv, Unused, CallerInv, JobInv, Lost, peerVars
<1>10. CASE LoopReturn
  <2>1. loop.at = "return" /\ cb' = [cb EXCEPT ![loop.in.req] = "ended"]
    BY <1>10 DEF LoopReturn
  <2>2. UNCHANGED <<running, finished, replyData, pc, ret, reply, dma, life, peerVars>>
    BY <1>10 DEF LoopReturn
  <2>3. CASE loop.in.answer
    <3>1. PICK step \in {"read", "stop"} : loop' = [loop EXCEPT !.in = NoReply, !.at = step]
      BY <1>10, <2>3 DEF LoopReturn, Top
    <3>2. loop' = [at |-> step, in |-> NoReply, left |-> loop.left]
      BY <3>1 DEF Inv, Types, LoopType
    <3>3. Types'
      BY <2>1, <2>2, <2>3, <3>2, PeerAssumption
      DEF NoReply, Inv, Types, LoopType, LoopSteps, LoopInv, Draining, Stopped, Held,
         PlaceInv, DmaInv, peerVars
    <3>4. LoopInv'
      BY <2>1, <2>2, <2>3, <3>2, PeerAssumption
      DEF NoReply, Inv, Types, LoopType, LoopSteps, LoopInv, Draining, Stopped, Held,
         PlaceInv, DmaInv, peerVars
    <3>5. ASSUME NEW q \in Requests PROVE PlaceInv(q)' /\ DmaInv(q)'
      BY <2>1, <2>2, <2>3, <3>2, PeerAssumption
      DEF NoReply, Inv, Types, LoopType, LoopSteps, LoopInv, Draining, Stopped, Held,
         PlaceInv, DmaInv, peerVars
    <3>6. ASSUME NEW q \in Requests PROVE CallerInv(q)'
      BY <2>1, <2>2, <2>3, <3>2, PeerAssumption
      DEF NoReply, Inv, Types, LoopType, LoopSteps, LoopInv, Draining, Stopped, Held,
         PlaceInv, DmaInv, peerVars, Unused, CallerInv
    <3>7. ASSUME NEW j \in Jobs PROVE JobInv(j)'
      BY <2>1, <2>2, <2>3, <3>2, PeerAssumption
      DEF NoReply, Inv, Types, LoopType, LoopSteps, LoopInv, Draining, Stopped, Held,
         PlaceInv, DmaInv, peerVars, Unused, CallerInv, Lost, JobInv
    <3> QED
      BY <3>3, <3>4, <3>5, <3>6, <3>7 DEF Inv
  <2>4. CASE ~loop.in.answer
    <3>1. loop' = [loop EXCEPT !.in = NoReply, !.at = "drain"]
      BY <1>10, <2>4 DEF LoopReturn
    <3>2. loop' = [at |-> "drain", in |-> NoReply, left |-> loop.left]
      BY <3>1 DEF Inv, Types, LoopType
    <3>3. Types'
      BY <2>1, <2>2, <2>4, <3>2, PeerAssumption
      DEF NoReply, Inv, Types, LoopType, LoopSteps, LoopInv, Draining, Stopped, Held,
         PlaceInv, DmaInv, peerVars
    <3>4. LoopInv'
      BY <2>1, <2>2, <2>4, <3>2, PeerAssumption
      DEF NoReply, Inv, Types, LoopType, LoopSteps, LoopInv, Draining, Stopped, Held,
         PlaceInv, DmaInv, peerVars
    <3>5. ASSUME NEW q \in Requests PROVE PlaceInv(q)' /\ DmaInv(q)'
      BY <2>1, <2>2, <2>4, <3>2, PeerAssumption
      DEF NoReply, Inv, Types, LoopType, LoopSteps, LoopInv, Draining, Stopped, Held,
         PlaceInv, DmaInv, peerVars
    <3>6. ASSUME NEW q \in Requests PROVE CallerInv(q)'
      BY <2>1, <2>2, <2>4, <3>2, PeerAssumption
      DEF NoReply, Inv, Types, LoopType, LoopSteps, LoopInv, Draining, Stopped, Held,
         PlaceInv, DmaInv, peerVars, Unused, CallerInv
    <3>7. ASSUME NEW j \in Jobs PROVE JobInv(j)'
      BY <2>1, <2>2, <2>4, <3>2, PeerAssumption
      DEF NoReply, Inv, Types, LoopType, LoopSteps, LoopInv, Draining, Stopped, Held,
         PlaceInv, DmaInv, peerVars, Unused, CallerInv, Lost, JobInv
    <3> QED
      BY <3>3, <3>4, <3>5, <3>6, <3>7 DEF Inv
  <2> QED
    BY <2>3, <2>4
<1>11. CASE LoopStop
  <2>1. Types'
    BY <1>11, PeerAssumption
    DEF LoopStop, GoTo, Inv, Types, LoopType, LoopSteps, LoopInv, Draining, Stopped, Held,
       PlaceInv, DmaInv, peerVars
  <2>2. LoopInv'
    BY <1>11, PeerAssumption
    DEF LoopStop, GoTo, Inv, Types, LoopType, LoopSteps, LoopInv, Draining, Stopped, Held,
       PlaceInv, DmaInv, peerVars
  <2>3. ASSUME NEW q \in Requests PROVE PlaceInv(q)' /\ DmaInv(q)'
    BY <1>11, PeerAssumption
    DEF LoopStop, GoTo, Inv, Types, LoopType, LoopSteps, LoopInv, Draining, Stopped, Held,
       PlaceInv, DmaInv, peerVars
  <2>4. ASSUME NEW q \in Requests PROVE CallerInv(q)'
    BY <1>11, PeerAssumption
    DEF LoopStop, GoTo, Inv, Types, LoopType, LoopSteps, LoopInv, Draining, Stopped, Held,
       PlaceInv, DmaInv, peerVars, Unused, CallerInv
  <2>5. ASSUME NEW j \in Jobs PROVE JobInv(j)'
    BY <1>11, PeerAssumption
    DEF LoopStop, GoTo, Inv, Types, LoopType, LoopSteps, LoopInv, Draining, Stopped, Held,
       PlaceInv, DmaInv, peerVars, Unused, CallerInv, Lost, JobInv
  <2> QED
    BY <2>1, <2>2, <2>3, <2>4, <2>5 DEF Inv
<1>12. CASE LoopPopAll
  <2>1. Types'
    BY <1>12, PeerAssumption
    DEF LoopPopAll, Inv, Types, LoopType, LoopSteps, LoopInv, Draining, Stopped, Held,
       PlaceInv, DmaInv, peerVars
  <2>2. LoopInv'
    BY <1>12, PeerAssumption
    DEF LoopPopAll, Inv, Types, LoopType, LoopSteps, LoopInv, Draining, Stopped, Held,
       PlaceInv, DmaInv, peerVars
  <2>3. ASSUME NEW q \in Requests PROVE PlaceInv(q)' /\ DmaInv(q)'
    BY <1>12, PeerAssumption
    DEF LoopPopAll, Inv, Types, LoopType, LoopSteps, LoopInv, Draining, Stopped, Held,
       PlaceInv, DmaInv, peerVars
  <2>4. ASSUME NEW q \in Requests PROVE CallerInv(q)'
    BY <1>12, PeerAssumption
    DEF LoopPopAll, Inv, Types, LoopType, LoopSteps, LoopInv, Draining, Stopped, Held,
       PlaceInv, DmaInv, peerVars, Unused, CallerInv
  <2>5. ASSUME NEW j \in Jobs PROVE JobInv(j)'
    BY <1>12, PeerAssumption
    DEF LoopPopAll, Inv, Types, LoopType, LoopSteps, LoopInv, Draining, Stopped, Held,
       PlaceInv, DmaInv, peerVars, Unused, CallerInv, Lost, JobInv
  <2> QED
    BY <2>1, <2>2, <2>3, <2>4, <2>5 DEF Inv
<1>13. CASE LoopDrain
  <2>0. /\ loop.at = "drain"
        /\ UNCHANGED <<running, replyData, pc, ret, cb, reply, dma, jobs, life, peerVars>>
    BY <1>13 DEF LoopDrain
  <2>1. ASSUME NEW r \in loop.left, finished' = finished,
               loop' = [loop EXCEPT !.at = "call", !.left = @ \ {r},
                                    !.in = [NoReply EXCEPT !.req = r, !.status = "err"]]
        PROVE  Inv'
    <3>1. loop' = [at |-> "call", left |-> loop.left \ {r},
                   in |-> [req |-> r, answer |-> FALSE, status |-> "err", data |-> None, exit |-> FALSE]]
      BY <2>1 DEF NoReply, Inv, Types, LoopType
    <3>0. LoopType
      BY DEF Inv, Types
    <3>2. LoopType'
      BY <3>0, <3>1 DEF LoopType, LoopSteps
    <3>3. /\ r \in Requests /\ loop'.at = "call" /\ loop'.left = loop.left \ {r}
          /\ loop'.in.req = r /\ ~loop'.in.answer
      BY <3>0, <3>1 DEF LoopType
    <3>4. finished' = finished
      BY <2>1
    <3> QED
      BY <2>0, <3>4, <3>2, <3>3, PeerAssumption
      DEF Inv, Types, LoopType, LoopSteps, LoopInv, Draining, Stopped, Held, PlaceInv,
         DmaInv, Unused, CallerInv, JobInv, Lost, peerVars
  <2>2. CASE loop.left = {} /\ loop' = [loop EXCEPT !.at = "end"] /\ finished' = TRUE
    BY <2>0, <2>2, PeerAssumption DEF Inv, Types, LoopType, LoopSteps, LoopInv, Draining,
       Stopped, Held, PlaceInv, DmaInv, Unused, CallerInv, JobInv, Lost, peerVars
  <2> QED
    BY <1>13, <2>1, <2>2 DEF LoopDrain, GoTo
<1>14. CASE Destroy
  <2>1. Types'
    <3>1. Types
      BY DEF Inv
    <3>2. toClient' \in Seq(Chunk)
      <4>1. CASE toClient' = toClient
        BY <3>1, <4>1 DEF Types
      <4>2. CASE toClient' = << >>
        BY <4>2
      <4> QED
        BY <1>14, <4>1, <4>2 DEF Destroy, PeerClosed, peerVars
    <3>3. running' \in BOOLEAN
      BY <1>14, <3>1 DEF Destroy, Types
    <3>4. dma' \in [Requests -> {"none", "inflight", "done", "aborted", "late"}]
      BY <1>14, <3>1 DEF Destroy, Aborted, Types
    <3>5. UNCHANGED <<finished, replyData, pc, ret, cb, reply, loop>>
      BY <1>14 DEF Destroy
    <3> QED
      BY <3>1, <3>2, <3>3, <3>4, <3>5 DEF Types, LoopType
  <2>2. LoopInv'
    BY <1>14, PeerAssumption
    DEF Destroy, PeerClosed, Aborted, Inv, Types, LoopType, LoopSteps, LoopInv, Draining, peerVars
  <2>3. ASSUME NEW q \in Requests PROVE PlaceInv(q)' /\ DmaInv(q)'
    BY <1>14, PeerAssumption
    DEF Destroy, PeerClosed, Aborted, Inv, Types, LoopType, LoopSteps, LoopInv, Draining,
       Stopped, Held, PlaceInv, DmaInv, peerVars
  <2>4. ASSUME NEW q \in Requests PROVE CallerInv(q)'
    BY <1>14, PeerAssumption
    DEF Destroy, PeerClosed, Aborted, Inv, Types, LoopType, LoopSteps, LoopInv, Draining,
       Stopped, Held, PlaceInv, DmaInv, peerVars, Unused, CallerInv
  <2>5. ASSUME NEW j \in Jobs PROVE JobInv(j)'
    BY <1>14, PeerAssumption
    DEF Destroy, PeerClosed, Aborted, Inv, Types, LoopType, LoopSteps, LoopInv, Draining,
       Stopped, Held, PlaceInv, DmaInv, peerVars, Unused, CallerInv, Lost, JobInv
  <2> QED
    BY <2>1, <2>2, <2>3, <2>4, <2>5 DEF Inv
<1> QED
  BY <1>1, <1>2, <1>3, <1>4, <1>5, <1>6, <1>7, <1>8, <1>9, <1>10, <1>11, <1>12, <1>13, <1>14

-----------------------------------------------------------------------------
CallerAction(r) ==
    \/ Launch(r) \/ Emplace(r) \/ AllocateFails(r) \/ WriteMessage(r) \/ WriteMessageFails(r)
    \/ CheckAfterWrite(r) \/ ReplyReceived(r) \/ ReplyTimeout(r) \/ DmaTransfer(r) \/ DmaAborted(r)

LoopAction ==
    \/ ShutdownWithoutClient \/ ShutdownReturns
    \/ LoopRead \/ LoopPop \/ LoopStartRead \/ LoopReadRefused \/ LoopEndRead \/ LoopReadTimeout
    \/ LoopCall \/ LoopReturn \/ LoopStop \/ LoopPopAll \/ LoopDrain
    \/ Destroy

PeerAction == UNCHANGED clientVars /\ (PeerStep \/ PeerFault \/ UNCHANGED peerVars)

\* A step is one of a caller, of the loop (or the owner), or of the peer.
LEMMA NextCases ==
  ASSUME [Next]_vars
  PROVE  (\E r \in Requests : CallerAction(r)) \/ LoopAction \/ PeerAction
<1>1. ClientStep => (\E r \in Requests : CallerAction(r)) \/ LoopAction
  BY DEF ClientStep, CallerStep, LoopStep, CallerAction, LoopAction
<1>2. ClientFault => (\E r \in Requests : CallerAction(r)) \/ LoopAction
  BY DEF ClientFault, CallerAction, LoopAction
<1>3. UNCHANGED vars => PeerAction
  BY DEF vars, PeerAction
<1>4. (PeerStep \/ PeerFault) /\ UNCHANGED clientVars => PeerAction
  BY DEF PeerAction
<1> QED
  BY <1>1, <1>2, <1>3, <1>4 DEF Next

\* The peer is midway in the answer to a request.
PeerType == midway \in Requests \cup {None}

\* The peer is never midway in the answer to anything but a request.
LEMMA PeerTypeStep ==
  ASSUME PeerType, [Next]_vars
  PROVE  PeerType'
<1>1. ASSUME NEW r \in Requests, CallerAction(r) PROVE PeerType'
  BY <1>1 DEF CallerAction, PeerType, peerVars, Launch, Emplace, AllocateFails,
     WriteMessage, WriteMessageFails,
     CheckAfterWrite, ReplyReceived, ReplyTimeout, DmaTransfer, DmaAborted, PeerReceives, PeerRead
<1>2. CASE LoopAction
  BY <1>2 DEF LoopAction, PeerType, peerVars, ShutdownWithoutClient, ShutdownReturns,
     LoopRead, LoopPop, LoopStartRead, LoopReadRefused, LoopEndRead, LoopReadTimeout,
     LoopCall, LoopReturn, LoopStop, LoopPopAll, LoopDrain, Destroy, PeerRead, PeerClosed
<1>3. CASE PeerAction
  BY <1>3 DEF PeerAction, PeerType, PeerStep, PeerFault, PeerHeader, PeerBuffer, PeerFails,
     PeerEnds, peerVars
<1> QED
  BY <1>1, <1>2, <1>3, NextCases

\* What the peer puts on the session are chunks.
LEMMA PeerChunks ==
  ASSUME PeerType, toClient \in Seq(Chunk), PeerAction
  PROVE  toClient' \in Seq(Chunk)
<1>1. ASSUME NEW r \in Requests, NEW st \in {"ok", "err"}, PeerHeader(r, st) PROVE toClient' \in Seq(Chunk)
  <2>1. Header(r, st) \in Chunk
    BY DEF Header, Chunk
  <2> QED
    BY <1>1, <2>1 DEF PeerHeader
<1>2. CASE PeerBuffer
  <2>1. Buffer(midway) \in Chunk
    BY <1>2 DEF PeerBuffer, PeerType, Buffer, Chunk
  <2> QED
    BY <1>2, <2>1 DEF PeerBuffer
<1>3. CASE PeerFault \/ UNCHANGED peerVars
  BY <1>3 DEF PeerFault, PeerFails, PeerEnds, peerVars
<1> QED
  BY <1>1, <1>2, <1>3 DEF PeerAction, PeerStep

\* Every step keeps the invariant.
LEMMA InvNext ==
  ASSUME PeerType, Inv, [Next]_vars
  PROVE  Inv'
<1>1. CASE \E r \in Requests : CallerAction(r)
  BY <1>1, InvCaller DEF CallerAction
<1>2. CASE LoopAction
  BY <1>2, InvLoop DEF LoopAction
<1>3. CASE PeerAction
  <2>1. toClient' \in Seq(Chunk)
    BY <1>3, PeerChunks DEF Inv, Types
  <2> QED
    BY <1>3, <2>1, InvPeer DEF PeerAction
<1> QED
  BY <1>1, <1>2, <1>3, NextCases

\* The inductive invariant of the client holds, whatever the peer answers, when it
\* ends the session, and however many reads, writes and replies fail or time out.
THEOREM ClientInductive == Spec => [](PeerType /\ Inv)
<1>1. Init => PeerType /\ Inv
  BY InvInit DEF Init, PeerInit, PeerType
<1>2. PeerType /\ Inv /\ [Next]_vars => (PeerType /\ Inv)'
  BY PeerTypeStep, InvNext
<1> QED
  BY <1>1, <1>2, PTL DEF Spec

\* No callback runs, and no failed or answered call returns, while the session may
\* still write the buffers of the reply.
THEOREM BuffersAreQuiet == Spec => []BuffersQuiet
<1>1. Inv => BuffersQuiet
  BY PeerAssumption DEF Inv, Types, PlaceInv, CallerInv, JobInv, Unused, BuffersQuiet
<1> QED
  BY <1>1, ClientInductive, PTL

-----------------------------------------------------------------------------
\* What a step must do for the contract to take it as one of its own, or as none.
SameAnswers == \A j \in Jobs : Answer(j)' = Answer(j)
SameCalls == \A j \in Jobs : (cb'[j] # "no") = (cb[j] # "no")
SameLosses == \A j \in Jobs : Lost(j)' = Lost(j)

\* A step that answers, calls, loses and finishes nothing is none of the contract.
LEMMA ContractStutters ==
  ASSUME SameAnswers, SameCalls, SameLosses, finished' = finished
  PROVE  UNCHANGED Contract!vars
  BY DEF SameAnswers, SameCalls, SameLosses, Contract!vars

\* What the contract sees of the callbacks and the lost replies is the same.
LEMMA ContractSame ==
  ASSUME SameCalls, SameLosses
  PROVE  /\ [j \in Jobs |-> cb[j] # "no"]' = [j \in Jobs |-> cb[j] # "no"]
         /\ [j \in Jobs |-> Lost(j)]' = [j \in Jobs |-> Lost(j)]
<1>1. [j \in Jobs |-> cb[j] # "no"]' = [j \in Jobs |-> cb[j] # "no"]
  BY DEF SameCalls
<1>2. [j \in Jobs |-> Lost(j)]' = [j \in Jobs |-> Lost(j)]
  BY DEF SameLosses
<1> QED
  BY <1>1, <1>2

\* A call that returns is an Accept or a Refuse.
LEMMA ContractAnswers ==
  ASSUME NEW r \in Jobs, SameCalls, SameLosses, finished' = finished,
         ret \in [Requests -> {"none", "ok", "err", "timeout"}],
         ret[r] = "none",
         \/ ret' = [ret EXCEPT ![r] = "ok"] /\ (finished => cb[r] # "no" \/ Lost(r))
         \/ ret' = [ret EXCEPT ![r] = "err"] /\ cb[r] = "no" /\ ~Lost(r)
  PROVE  Contract!Next
<1> DEFINE answers == [j \in Jobs |-> Answer(j)]
           calls == [j \in Jobs |-> cb[j] # "no"]
           losses == [j \in Jobs |-> Lost(j)]
<1>1. UNCHANGED <<calls, losses, finished>>
  BY ContractSame
<1>2. answers[r] = "none"
  BY DEF Answer
<1>3. CASE ret' = [ret EXCEPT ![r] = "ok"]
  <2>1. answers' = [answers EXCEPT ![r] = "accepted"]
    BY <1>3 DEF Answer
  <2>2. finished => cb[r] # "no" \/ Lost(r)
    BY <1>3
  <2>3. finished => calls[r] \/ losses[r]
    BY <2>2, Zenon
  <2>4. Contract!Accept(r)
    BY <1>1, <1>2, <2>1, <2>3, Zenon DEF Contract!Accept
  <2> QED
    BY <2>4, Zenon DEF Contract!Next
<1>4. CASE ret' = [ret EXCEPT ![r] = "err"]
  <2>1. answers' = [answers EXCEPT ![r] = "refused"]
    BY <1>4 DEF Answer
  <2>2. cb[r] = "no" /\ ~Lost(r)
    BY <1>4
  <2>3. ~calls[r] /\ ~losses[r]
    BY <2>2, Zenon
  <2>4. Contract!Refuse(r)
    BY <1>1, <1>2, <2>1, <2>3, Zenon DEF Contract!Refuse
  <2> QED
    BY <2>4, Zenon DEF Contract!Next
<1> QED
  BY <1>3, <1>4

\* Every step of a calling thread is a step of the contract, or none.
LEMMA CallerContract ==
  ASSUME Inv, NEW r \in Requests, CallerAction(r)
  PROVE  [Contract!Next]_(Contract!vars)
<1> DEFINE Returns == Launch(r) \/ AllocateFails(r) \/ WriteMessageFails(r) \/ CheckAfterWrite(r)
<1>1. CASE DmaTransfer(r) \/ DmaAborted(r)
  <2>1. SameLosses
    BY <1>1 DEF DmaTransfer, DmaAborted, Aborted, Inv, Types, LoopType, DmaInv, SameLosses, Lost
  <2> QED
    BY <1>1, <2>1, ContractStutters DEF DmaTransfer, DmaAborted, SameAnswers, SameCalls, Answer
<1>2. CASE Emplace(r) \/ WriteMessage(r)
  BY <1>2, ContractStutters DEF Emplace, WriteMessage, SameAnswers, SameCalls, SameLosses,
     Answer, Lost
<1>3. CASE ReplyReceived(r) \/ ReplyTimeout(r)
  <2>1. r \notin Jobs
    BY <1>3 DEF ReplyReceived, ReplyTimeout, Inv, JobInv
  <2>2. SameAnswers
    BY <1>3, <2>1 DEF ReplyReceived, ReplyTimeout, Return, Inv, Types, SameAnswers, Answer
  <2> QED
    BY <1>3, <2>2, ContractStutters DEF ReplyReceived, ReplyTimeout, SameCalls, SameLosses, Lost
<1>4. CASE Returns
  <2>1. SameCalls /\ SameLosses /\ finished' = finished
    BY <1>4 DEF Launch, AllocateFails, WriteMessageFails, CheckAfterWrite, SameCalls,
       SameLosses, Lost
  <2>2. ret' = ret \/ \E st \in {"ok", "err"} : ret' = [ret EXCEPT ![r] = st]
    BY <1>4 DEF Launch, AllocateFails, WriteMessageFails, CheckAfterWrite, AfterImpl, Return
  <2>3. CASE ret' = ret
    BY <2>1, <2>3, ContractStutters DEF SameAnswers, Answer
  <2>4. CASE r \notin Jobs
    <3>1. SameAnswers
      BY <2>2, <2>4 DEF Inv, Types, SameAnswers, Answer
    <3> QED
      BY <2>1, <3>1, ContractStutters
  <2>5. CASE r \in Jobs /\ ret' # ret
    <3>1. ret[r] = "none"
      BY <1>4 DEF Launch, AllocateFails, WriteMessageFails, CheckAfterWrite, Inv, CallerInv
    <3>2. CASE ret' = [ret EXCEPT ![r] = "ok"]
      <4>1. \/ pc[r] \in {"write", "written"} /\ r \notin replyData
            \/ pc[r] = "written" /\ running
        BY <1>4, <2>5, <3>1, <3>2
        DEF Launch, AllocateFails, WriteMessageFails, CheckAfterWrite, AfterImpl, Return, Inv, Types
      <4>2. finished => cb[r] # "no" \/ Lost(r)
        BY <2>5, <4>1 DEF Inv, LoopInv, Draining, Held, JobInv
      <4> QED
        BY <2>1, <2>5, <3>1, <3>2, <4>2, ContractAnswers DEF Inv, Types
    <3>3. CASE ret' = [ret EXCEPT ![r] = "err"]
      <4>1. pc[r] \in {"new", "lock"} \/ r \in replyData
        BY <1>4, <2>5, <3>1, <3>3
        DEF Launch, AllocateFails, WriteMessageFails, CheckAfterWrite, AfterImpl, Return, Inv, Types
      <4>2. cb[r] = "no" /\ ~Lost(r)
        BY <4>1 DEF Inv, PlaceInv, CallerInv, Unused, Lost
      <4> QED
        BY <2>1, <2>5, <3>1, <3>3, <4>2, ContractAnswers DEF Inv, Types
    <3> QED
      BY <2>2, <2>5, <3>2, <3>3
  <2> QED
    BY <2>3, <2>4, <2>5
<1> QED
  BY <1>1, <1>2, <1>3, <1>4 DEF CallerAction

\* The loop invokes a callback.
LEMMA ContractCalls ==
  ASSUME Inv, LoopCall
  PROVE  [Contract!Next]_(Contract!vars)
<1> DEFINE r == loop.in.req
<1>1. SameAnswers /\ SameLosses /\ finished' = finished /\ ~finished
  BY DEF LoopCall, GoTo, Inv, Types, LoopType, LoopInv, SameAnswers, SameLosses, Answer, Lost
<1>2. r \in Requests /\ cb[r] = "no" /\ ~Lost(r) /\ ret[r] # "err"
  BY PeerAssumption
  DEF LoopCall, Inv, Types, LoopType, LoopInv, PlaceInv, CallerInv, Held, Unused, Lost
<1>3. cb' = [cb EXCEPT ![r] = "running"]
  BY DEF LoopCall
<1> HIDE DEF r
<1>4. CASE r \notin Jobs
  BY <1>1, <1>3, <1>4, ContractStutters DEF Inv, Types, SameCalls
<1>5. CASE r \in Jobs
  <2>1. [j \in Jobs |-> cb[j] # "no"]' = [[j \in Jobs |-> cb[j] # "no"] EXCEPT ![r] = TRUE]
    BY <1>2, <1>3 DEF Inv, Types
  <2>2. Answer(r) # "refused"
    BY <1>2, <1>5 DEF Inv, Types, JobInv, Answer
  <2> QED
    BY <1>1, <1>2, <1>5, <2>1, <2>2
    DEF SameAnswers, SameLosses, Contract!Next, Contract!Call
<1> QED
  BY <1>4, <1>5

\* The loop gives a read up.
LEMMA ContractLoses ==
  ASSUME Inv, LoopReadTimeout
  PROVE  [Contract!Next]_(Contract!vars)
<1> DEFINE r == loop.in.req
<1>1. SameAnswers /\ SameCalls /\ finished' = finished /\ ~finished
  BY DEF LoopReadTimeout, Inv, LoopInv, SameAnswers, SameCalls, Answer
<1>2. r \in Requests /\ cb[r] = "no" /\ ret[r] # "err" /\ dma[r] = "inflight"
  BY PeerAssumption
  DEF LoopReadTimeout, Inv, Types, LoopType, LoopInv, PlaceInv, CallerInv, Held, Unused
<1>3. \A j \in Jobs : Lost(j)' = IF j = r THEN TRUE ELSE Lost(j)
  <2>1. loop'.in.req = None /\ dma' = dma
    BY DEF LoopReadTimeout, NoReply, Inv, Types, LoopType
  <2>2. \A j \in Jobs : j # r => dma[j] = "none"
    BY DEF LoopReadTimeout, Inv, DmaInv, Stopped, Draining
  <2> QED
    BY <1>2, <2>1, <2>2, PeerAssumption DEF Lost
<1>4. ~Lost(r)
  BY DEF Lost
<1> HIDE DEF r
<1>5. CASE r \notin Jobs
  BY <1>1, <1>3, <1>5, ContractStutters DEF SameLosses
<1>6. CASE r \in Jobs
  <2>1. [j \in Jobs |-> Lost(j)]' = [[j \in Jobs |-> Lost(j)] EXCEPT ![r] = TRUE]
    BY <1>3
  <2>2. Answer(r) # "refused"
    BY <1>2, <1>6 DEF Inv, Types, JobInv, Answer
  <2> QED
    BY <1>1, <1>2, <1>4, <1>6, <2>1, <2>2
    DEF SameAnswers, SameCalls, Contract!Next, Contract!Lose
<1> QED
  BY <1>5, <1>6

\* The loop takes a callback that was left, or is finished.
LEMMA ContractFinishes ==
  ASSUME Inv, LoopDrain
  PROVE  [Contract!Next]_(Contract!vars)
<1>1. loop.at = "drain" /\ SameAnswers /\ SameCalls /\ dma' = dma
  BY DEF LoopDrain, SameAnswers, SameCalls, Answer
<1>2. ASSUME NEW r \in loop.left, loop'.in.req = r, finished' = finished
      PROVE  UNCHANGED Contract!vars
  <2>1. dma[r] = "none" /\ loop.in.req = None
    BY <1>1 DEF Inv, Types, LoopType, LoopInv, PlaceInv
  <2>2. SameLosses
    BY <1>1, <1>2, <2>1, PeerAssumption DEF Inv, DmaInv, SameLosses, Lost
  <2> QED
    BY <1>1, <1>2, <2>2, ContractStutters
<1>3. CASE loop.left = {} /\ loop' = [loop EXCEPT !.at = "end"] /\ finished' = TRUE
  <2>1. SameLosses
    BY <1>1, <1>3 DEF Inv, Types, LoopType, SameLosses, Lost
  <2>2. ~finished
    BY <1>1 DEF Inv, LoopInv
  <2>3. \A j \in Jobs : Answer(j) = "accepted" => cb[j] # "no" \/ Lost(j)
    BY <1>1, <1>3 DEF Inv, Types, JobInv, CallerInv, Draining, Held, Answer
  <2> QED
    BY <1>1, <1>3, <2>1, <2>2, <2>3
    DEF SameAnswers, SameCalls, SameLosses, Contract!Next, Contract!Finish
<1> QED
  <2>1. ASSUME NEW r \in loop.left,
               loop' = [loop EXCEPT !.at = "call", !.left = @ \ {r},
                                    !.in = [NoReply EXCEPT !.req = r, !.status = "err"]]
        PROVE  loop'.in.req = r
    BY <2>1 DEF NoReply, Inv, Types, LoopType
  <2> QED
    BY <1>2, <1>3, <2>1 DEF LoopDrain, GoTo

\* Every step of the message loop and the owner is a step of the contract, or none.
LEMMA LoopContract ==
  ASSUME Inv, LoopAction
  PROVE  [Contract!Next]_(Contract!vars)
<1>1. CASE ShutdownWithoutClient \/ ShutdownReturns
  BY <1>1, PeerAssumption, ContractStutters
  DEF ShutdownWithoutClient, ShutdownReturns, Return, Inv, Types, SameAnswers, SameCalls,
     SameLosses, Answer, Lost
<1>2. CASE LoopStop \/ LoopPopAll \/ LoopReadRefused
  <2>1. LoopType
    BY DEF Inv, Types
  <2>2. loop'.in.req = loop.in.req
    <3>1. CASE LoopStop \/ LoopPopAll
      BY <2>1, <3>1 DEF LoopStop, LoopPopAll, GoTo, LoopType
    <3>2. CASE LoopReadRefused
      BY <2>1, <3>2 DEF LoopReadRefused, LoopType
    <3> QED
      BY <1>2, <3>1, <3>2
  <2>3. SameLosses
    BY <1>2, <2>2 DEF LoopStop, LoopPopAll, LoopReadRefused, SameLosses, Lost
  <2> QED
    BY <1>2, <2>3, ContractStutters
    DEF LoopStop, LoopPopAll, LoopReadRefused, SameAnswers, SameCalls, Answer
<1>3. CASE LoopRead \/ LoopPop
  <2>1. \A j \in Jobs : dma[j] = "none"
    BY <1>3 DEF LoopRead, LoopPop, Inv, DmaInv, Stopped, Draining
  <2>2. UNCHANGED <<dma, cb, ret, finished>>
    BY <1>3 DEF LoopRead, LoopPop
  <2> QED
    BY <2>1, <2>2, ContractStutters DEF SameAnswers, SameCalls, SameLosses, Answer, Lost
<1>4. CASE LoopStartRead \/ LoopEndRead
  <2>0. LoopType
    BY DEF Inv, Types
  <2>1. loop'.in.req = loop.in.req
    <3>1. CASE LoopStartRead
      BY <2>0, <3>1 DEF LoopStartRead, GoTo, LoopType
    <3>2. CASE LoopEndRead
      BY <2>0, <3>2 DEF LoopEndRead, LoopType
    <3> QED
      BY <1>4, <3>1, <3>2
  <2>2. SameLosses
    BY <1>4, <2>1 DEF LoopStartRead, LoopEndRead, Inv, Types, SameLosses, Lost
  <2> QED
    BY <1>4, <2>2, ContractStutters DEF LoopStartRead, LoopEndRead, SameAnswers, SameCalls, Answer
<1>5. CASE LoopReturn
  <2>1. loop.at = "return" /\ UNCHANGED <<dma, ret, finished>> /\ cb' = [cb EXCEPT ![loop.in.req] = "ended"]
    BY <1>5 DEF LoopReturn
  <2>2. loop'.in.req = None
    BY <1>5 DEF LoopReturn, NoReply, Inv, Types, LoopType
  <2>3. SameLosses
    BY <2>1, <2>2, PeerAssumption DEF Inv, Types, DmaInv, Stopped, SameLosses, Lost
  <2>4. SameCalls
    BY <2>1 DEF Inv, Types, PlaceInv, Held, SameCalls
  <2> QED
    BY <2>1, <2>3, <2>4, ContractStutters DEF SameAnswers, Answer
<1>6. CASE Destroy
  <2>1. SameLosses
    BY <1>6 DEF Destroy, Aborted, Inv, Types, SameLosses, Lost
  <2> QED
    BY <1>6, <2>1, ContractStutters DEF Destroy, SameAnswers, SameCalls, Answer
<1> QED
  BY <1>1, <1>2, <1>3, <1>4, <1>5, <1>6, ContractCalls, ContractLoses,
     ContractFinishes DEF LoopAction

\* What the callers of execute_request_async see of the client is the contract of
\* client.hpp, for any number of requests and failures.
THEOREM ClientRefines == Spec => ImplementsContract
<1>1. Init => Contract!Init
  <2> SUFFICES ASSUME Init PROVE Contract!Init
    OBVIOUS
  <2>1. \A j \in Jobs : Answer(j) = "none" /\ ~(cb[j] # "no") /\ ~Lost(j)
    BY DEF Init, ClientInit, Answer, Lost
  <2>2. finished = FALSE
    BY DEF Init, ClientInit
  <2>3. [j \in Jobs |-> cb[j] # "no"] = [j \in Jobs |-> FALSE]
    BY <2>1, Zenon
  <2>4. [j \in Jobs |-> Lost(j)] = [j \in Jobs |-> FALSE]
    BY <2>1, Zenon DEF Lost
  <2>5. [j \in Jobs |-> Answer(j)] = [j \in Jobs |-> "none"]
    BY <2>1
  <2> QED
    BY <2>2, <2>3, <2>4, <2>5 DEF Contract!Init
<1>2. Inv /\ [Next]_vars => [Contract!Next]_(Contract!vars)
  <2> SUFFICES ASSUME Inv, [Next]_vars PROVE [Contract!Next]_(Contract!vars)
    OBVIOUS
  <2>1. CASE PeerAction
    BY <2>1, ContractStutters DEF PeerAction, clientVars, SameAnswers, SameCalls,
       SameLosses, Answer, Lost
  <2> QED
    BY <2>1, NextCases, CallerContract, LoopContract
<1> QED
  BY <1>1, <1>2, ClientInductive, PTL DEF Spec, ImplementsContract, Contract!Spec

-----------------------------------------------------------------------------
\* The pending jobs can be counted.
LEMMA PendingFinite == IsFiniteSet(Pending) /\ Cardinality(Pending) \in Nat
  BY PeerAssumption, FS_Subset, FS_CardinalityType DEF Pending

\* A step counts one job in, or one out, or none; or shutdown() is called.
Adds(n) ==
    /\ jobs' \in JobsRecord
    /\ jobs'.pending = jobs.pending + n /\ jobs'.before = jobs.before /\ jobs'.ret = jobs.ret
CountsIn(j) == pc[j] = "new" /\ j \notin Pending /\ Pending' = Pending \cup {j} /\ Adds(1)
CountsOut(j) == j \in Pending /\ Pending' = Pending \ {j} /\ Adds(-1)
CountsSame == Pending' = Pending /\ Adds(0)
CallsShutdown ==
    /\ Pending' = Pending /\ pc[Shut] = "new"
    /\ jobs' = [jobs EXCEPT !.before = {j \in Jobs : pc[j] # "new"}]

\* A step that leaves AsyncJobsState alone counts nothing.
LEMMA JobsUnchanged ==
  ASSUME CountInv, jobs' = jobs
  PROVE  Adds(0)
<1>1. jobs.pending \in Int
  BY DEF CountInv, JobsRecord
<1> QED
  BY <1>1 DEF CountInv, Adds

\* run_async counts its job in.
LEMMA JobCounted ==
  ASSUME NEW c \in JobsRecord, NEW d, d = [c EXCEPT !.ongoing = @ + 1, !.pending = @ + 1]
  PROVE  /\ d \in JobsRecord
         /\ d.pending = c.pending + 1 /\ d.before = c.before /\ d.ret = c.ret
<1>1. c.ongoing \in Int /\ c.pending \in Int
  BY DEF JobsRecord
<1>2. d = [ongoing |-> c.ongoing + 1, pending |-> c.pending + 1, before |-> c.before, ret |-> c.ret]
  BY DEF JobsRecord
<1> QED
  BY <1>1, <1>2 DEF JobsRecord

\* run_async counts a refused job out.
LEMMA JobUncounted ==
  ASSUME NEW c \in JobsRecord, NEW d, d = [c EXCEPT !.ongoing = @ - 1, !.pending = @ - 1]
  PROVE  /\ d \in JobsRecord
         /\ d.pending = c.pending - 1 /\ d.before = c.before /\ d.ret = c.ret
<1>1. c.ongoing \in Int /\ c.pending \in Int
  BY DEF JobsRecord
<1>2. d = [ongoing |-> c.ongoing - 1, pending |-> c.pending - 1, before |-> c.before, ret |-> c.ret]
  BY DEF JobsRecord
<1> QED
  BY <1>1, <1>2 DEF JobsRecord

\* Entering a call counts a job in, unless it is refused at once.
LEMMA CountLaunch ==
  ASSUME Inv, CountInv, NEW r \in Requests, Launch(r)
  PROVE  CountsSame \/ CallsShutdown \/ (r \in Jobs /\ CountsIn(r))
<1> DEFINE c == [jobs EXCEPT !.ongoing = @ + 1, !.pending = @ + 1]
<1>1. CASE r \notin Jobs
  <2>1. Pending' = Pending
    BY <1>1 DEF Launch, AfterImpl, Return, Inv, Types, Pending
  <2>2. jobs' = jobs \/ (r = Shut /\ jobs' = [jobs EXCEPT !.before = {j \in Jobs : pc[j] # "new"}])
    BY <1>1, PeerAssumption DEF Launch, AfterImpl
  <2>3. pc[r] = "new"
    BY DEF Launch
  <2> QED
    BY <2>1, <2>2, <2>3, JobsUnchanged DEF CountsSame, CallsShutdown
<1>2. CASE r \in Jobs /\ running
  <2>1. pc[r] = "new" /\ r \notin Pending /\ Pending' = Pending \cup {r}
    BY <1>2 DEF Launch, Inv, Types, CallerInv, Unused, Pending
  <2>2. jobs' = c
    BY <1>2, PeerAssumption DEF Launch
  <2>3. Adds(1)
    BY <2>2, JobCounted DEF CountInv, Adds
  <2> QED
    BY <1>2, <2>1, <2>3 DEF CountsIn
<1>3. CASE r \in Jobs /\ ~running
  <2>1. Pending' = Pending
    BY <1>3 DEF Launch, AfterImpl, Return, Inv, Types, Pending
  <2>2. jobs' = [c EXCEPT !.ongoing = @ - 1, !.pending = @ - 1]
    BY <1>3, PeerAssumption DEF Launch, AfterImpl
  <2>3. /\ c \in JobsRecord /\ c.pending = jobs.pending + 1
        /\ c.before = jobs.before /\ c.ret = jobs.ret
    BY JobCounted DEF CountInv
  <2>4. jobs.pending \in Int
    BY DEF CountInv, JobsRecord
  <2> HIDE DEF c
  <2>5. /\ jobs' \in JobsRecord /\ jobs'.pending = c.pending - 1
        /\ jobs'.before = c.before /\ jobs'.ret = c.ret
    BY <2>2, <2>3, JobUncounted
  <2> QED
    BY <2>1, <2>3, <2>4, <2>5 DEF CountsSame, Adds
<1> QED
  BY <1>1, <1>2, <1>3

\* A calling thread counts its own job, in when it starts and out when it is refused.
LEMMA CountCaller ==
  ASSUME Inv, CountInv, NEW r \in Requests, CallerAction(r)
  PROVE  CountsSame \/ CallsShutdown \/ (r \in Jobs /\ (CountsIn(r) \/ CountsOut(r)))
<1>1. CASE Emplace(r) \/ WriteMessage(r) \/ DmaTransfer(r) \/ DmaAborted(r)
  <2>1. Pending' = Pending /\ jobs' = jobs
    BY <1>1 DEF Emplace, WriteMessage, DmaTransfer, DmaAborted, Inv, Types, Pending
  <2> QED
    BY <2>1, JobsUnchanged DEF CountsSame
<1>2. CASE ReplyReceived(r) \/ ReplyTimeout(r)
  <2>1. r \notin Jobs /\ jobs' = jobs
    BY <1>2 DEF ReplyReceived, ReplyTimeout, Inv, JobInv
  <2>2. Pending' = Pending
    BY <1>2, <2>1 DEF ReplyReceived, ReplyTimeout, Return, Inv, Types, Pending
  <2> QED
    BY <2>1, <2>2, JobsUnchanged DEF CountsSame
<1>3. CASE Launch(r)
  BY <1>3, CountLaunch
<1>4. CASE AllocateFails(r) \/ WriteMessageFails(r) \/ CheckAfterWrite(r)
  <2>1. PICK st \in {"ok", "err"} : AfterImpl(r, st, jobs) /\ (st = "err" => cb[r] = "no")
    <3>1. AllocateFails(r) => cb[r] = "no"
      BY DEF AllocateFails, Inv, CallerInv, Unused
    <3>2. r \in replyData => cb[r] = "no"
      BY DEF Inv, PlaceInv
    <3> QED
      BY <1>4, <3>1, <3>2 DEF AllocateFails, WriteMessageFails, CheckAfterWrite
  <2>2. pc[r] \in {"lock", "write", "written"} /\ cb' = cb
    BY <1>4 DEF AllocateFails, WriteMessageFails, CheckAfterWrite
  <2>3. CASE r \notin Jobs \/ st = "ok"
    <3>1. jobs' = jobs
      BY <2>1, <2>3 DEF AfterImpl
    <3>2. Pending' = Pending
      BY <2>1, <2>2, <2>3 DEF AfterImpl, Return, Inv, Types, CallerInv, Pending
    <3> QED
      BY <3>1, <3>2, JobsUnchanged DEF CountsSame
  <2>4. CASE r \in Jobs /\ st = "err"
    <3>1. ret[r] = "none" /\ cb[r] = "no"
      BY <2>1, <2>2, <2>4 DEF Inv, CallerInv
    <3>2. pc' = [pc EXCEPT ![r] = "done"] /\ ret' = [ret EXCEPT ![r] = "err"]
      BY <2>1, <2>4 DEF AfterImpl, Return
    <3>3. r \in Pending /\ Pending' = Pending \ {r}
      BY <2>2, <2>4, <3>1, <3>2 DEF Inv, Types, Pending
    <3>4. jobs' = [jobs EXCEPT !.ongoing = @ - 1, !.pending = @ - 1]
      BY <2>1, <2>4 DEF AfterImpl
    <3>5. jobs.pending \in Int
      BY DEF CountInv, JobsRecord
    <3>6. Adds(-1)
      BY <3>4, <3>5, JobUncounted DEF CountInv, Adds
    <3> QED
      BY <2>4, <3>3, <3>6 DEF CountsOut
  <2> QED
    BY <2>3, <2>4
<1> QED
  BY <1>1, <1>2, <1>3, <1>4 DEF CallerAction

\* The count of pending jobs is right after a step that counts a job in, or out.
LEMMA CountStep ==
  ASSUME CountInv, finished => finished',
         \/ CountsSame \/ CallsShutdown
         \/ \E j \in Jobs : CountsIn(j) \/ CountsOut(j),
         \A i \in Jobs : pc[i] # "new" => pc'[i] # "new",
         pc[Shut] = "done" => pc'[Shut] = "done"
  PROVE  CountInv'
<1>0. jobs.pending \in Int
  BY DEF CountInv, JobsRecord
<1>1. ASSUME NEW j \in Jobs, CountsIn(j) PROVE CountInv'
  <2>1. Cardinality(Pending') = Cardinality(Pending) + 1
    BY <1>1, PendingFinite, FS_AddElement DEF CountsIn
  <2>2. jobs.before \cap Pending = {} => jobs.before \cap Pending' = {}
    BY <1>1 DEF CountInv, CountsIn
  <2>3. jobs.before \subseteq Jobs
    BY DEF CountInv, JobsRecord
  <2> QED
    BY <1>1, <2>1, <2>2, <2>3 DEF CountInv, CountsIn, Adds
<1>2. ASSUME NEW j \in Jobs, CountsOut(j) PROVE CountInv'
  <2>1. Cardinality(Pending') = Cardinality(Pending) - 1
    BY <1>2, PendingFinite, FS_RemoveElement DEF CountsOut
  <2>2. jobs.before \cap Pending = {} => jobs.before \cap Pending' = {}
    BY <1>2 DEF CountInv, CountsOut
  <2>3. jobs.before \subseteq Jobs
    BY DEF CountInv, JobsRecord
  <2> QED
    BY <1>0, <1>2, <2>1, <2>2, <2>3 DEF CountInv, CountsOut, Adds
<1>3. CASE CountsSame
  <2>1. jobs.before \subseteq Jobs
    BY DEF CountInv, JobsRecord
  <2> QED
    BY <1>0, <1>3, <2>1 DEF CountInv, CountsSame, Adds
<1>4. CASE CallsShutdown
  <2>1. jobs.ret = "none"
    BY <1>4 DEF CountInv, CallsShutdown
  <2>2. /\ jobs' \in JobsRecord /\ jobs'.pending = jobs.pending /\ jobs'.ret = jobs.ret
        /\ jobs'.before = {j \in Jobs : pc[j] # "new"}
    BY <1>4 DEF CountInv, CallsShutdown, JobsRecord
  <2>3. Pending' = Pending
    BY <1>4 DEF CallsShutdown
  <2> QED
    BY <2>1, <2>2, <2>3 DEF CountInv
<1> QED
  BY <1>1, <1>2, <1>3, <1>4

\* The steps other than the return of shutdown() and those of the callers.
OtherAction ==
    \/ ShutdownWithoutClient
    \/ LoopRead \/ LoopPop \/ LoopStartRead \/ LoopReadRefused \/ LoopEndRead \/ LoopReadTimeout
    \/ LoopCall \/ LoopReturn \/ LoopStop \/ LoopPopAll \/ LoopDrain
    \/ Destroy \/ PeerAction

\* The message loop counts a job out when its callback returned.
LEMMA CountLoop ==
  ASSUME Inv, CountInv, OtherAction
  PROVE  CountsSame \/ CallsShutdown \/ \E j \in Jobs : CountsOut(j)
<1>1. CASE ShutdownWithoutClient
  BY <1>1, PeerAssumption DEF ShutdownWithoutClient, Return, CallsShutdown, Inv, Types, Pending
<1>2. CASE LoopCall
  <2>1. /\ loop.in.req \in Requests /\ cb[loop.in.req] = "no"
        /\ cb' = [cb EXCEPT ![loop.in.req] = "running"]
    BY <1>2 DEF LoopCall, Inv, Types, LoopType, LoopInv, Held, PlaceInv
  <2>2. UNCHANGED <<pc, ret>>
    BY <1>2 DEF LoopCall
  <2>3. Pending' = Pending
    BY <2>1, <2>2 DEF Inv, Types, Pending
  <2>4. CASE jobs' = jobs
    BY <2>3, <2>4, JobsUnchanged DEF CountsSame
  <2>5. CASE jobs' = [jobs EXCEPT !.ongoing = @ - 1]
    <3>1. /\ jobs.ongoing \in Int /\ jobs.pending \in Int
          /\ jobs' = [ongoing |-> jobs.ongoing - 1, pending |-> jobs.pending,
                      before |-> jobs.before, ret |-> jobs.ret]
      BY <2>5 DEF CountInv, JobsRecord
    <3>2. jobs.before \in SUBSET Jobs /\ jobs.ret \in {"none", "ok", "err", "timeout"}
      BY DEF CountInv, JobsRecord
    <3> QED
      BY <2>3, <3>1, <3>2 DEF CountsSame, Adds, JobsRecord
  <2> QED
    BY <1>2, <2>4, <2>5 DEF LoopCall
<1>3. CASE LoopReturn
  <2> DEFINE r == loop.in.req
  <2>1. r \in Requests /\ cb[r] = "running" /\ cb' = [cb EXCEPT ![r] = "ended"]
    BY <1>3 DEF LoopReturn, Inv, Types, LoopType, LoopInv, Held, PlaceInv
  <2>2. UNCHANGED <<pc, ret>>
    BY <1>3 DEF LoopReturn
  <2>3. CASE r \notin Jobs
    <3>1. Pending' = Pending
      BY <2>1, <2>2, <2>3 DEF Inv, Types, Pending
    <3>2. jobs' = jobs
      BY <1>3, <2>3 DEF LoopReturn
    <3> QED
      BY <3>1, <3>2, JobsUnchanged DEF CountsSame
  <2>4. CASE r \in Jobs
    <3>1. pc[r] # "new" /\ ret[r] # "err"
      BY <2>1, <2>4 DEF Inv, CallerInv, Unused
    <3>2. r \in Pending /\ Pending' = Pending \ {r}
      BY <2>1, <2>2, <2>4, <3>1 DEF Inv, Types, Pending
    <3>3. jobs' = [jobs EXCEPT !.pending = @ - 1]
      BY <1>3, <2>4 DEF LoopReturn
    <3>4. /\ jobs.ongoing \in Int /\ jobs.pending \in Int
          /\ jobs' = [ongoing |-> jobs.ongoing, pending |-> jobs.pending - 1,
                      before |-> jobs.before, ret |-> jobs.ret]
      BY <3>3 DEF CountInv, JobsRecord
    <3>5. jobs.before \in SUBSET Jobs /\ jobs.ret \in {"none", "ok", "err", "timeout"}
      BY DEF CountInv, JobsRecord
    <3>6. Adds(-1)
      BY <3>4, <3>5 DEF Adds, JobsRecord
    <3> QED
      BY <2>4, <3>2, <3>6 DEF CountsOut
  <2> QED
    BY <2>3, <2>4
<1>4. CASE OtherAction /\ ~ShutdownWithoutClient /\ ~LoopCall /\ ~LoopReturn
  <2>1. UNCHANGED <<pc, ret, cb, jobs>>
    BY <1>4 DEF OtherAction, LoopRead, LoopPop, LoopStartRead, LoopReadRefused, LoopEndRead,
       LoopReadTimeout, LoopStop, LoopPopAll, LoopDrain, Destroy, PeerAction, clientVars
  <2> QED
    BY <2>1, JobsUnchanged DEF CountsSame, Pending
<1> QED
  BY <1>1, <1>2, <1>3, <1>4

\* shutdown() returns success only when nothing is pending or the loop is finished.
LEMMA CountShutdown ==
  ASSUME Inv, CountInv, ShutdownReturns
  PROVE  CountInv'
<1>1. UNCHANGED <<pc, ret, cb, finished>> /\ Pending' = Pending /\ pc[Shut] = "done"
  BY DEF ShutdownReturns, Pending
<1>2. /\ jobs' \in JobsRecord /\ jobs'.pending = jobs.pending /\ jobs'.before = jobs.before
      /\ jobs'.ret = IF ret[Shut] = "ok" /\ jobs.pending # 0 /\ ~finished THEN "timeout" ELSE ret[Shut]
  BY DEF ShutdownReturns, CountInv, JobsRecord, Inv, Types
<1>3. jobs.pending = 0 => Pending = {}
  BY PendingFinite, FS_EmptySet DEF CountInv
<1> QED
  BY <1>1, <1>2, <1>3 DEF CountInv

\* A finished loop stays finished, a call made stays made, a returned one returned.
LEMMA CallsAreFinal ==
  ASSUME Inv, [Next]_vars
  PROVE  /\ finished => finished'
         /\ \A i \in Jobs : pc[i] # "new" => pc'[i] # "new"
         /\ pc[Shut] = "done" => pc'[Shut] = "done"
<1>1. ASSUME NEW r \in Requests, CallerAction(r)
      PROVE  /\ finished' = finished
             /\ \E q \in {"lock", "write", "written", "wait", "done"} : pc' = [pc EXCEPT ![r] = q]
                                                                       \/ pc' = pc
             /\ pc[r] # "done" \/ pc' = pc
  BY <1>1 DEF CallerAction, Launch, Emplace, AllocateFails, WriteMessage, WriteMessageFails,
     CheckAfterWrite, ReplyReceived, ReplyTimeout, DmaTransfer, DmaAborted, AfterImpl, Return
<1>2. LoopAction \/ PeerAction =>
        (finished => finished') /\ (pc' = pc \/ pc' = [pc EXCEPT ![Shut] = "done"])
  <2>1. ShutdownWithoutClient => finished' = finished /\ pc' = [pc EXCEPT ![Shut] = "done"]
    BY DEF ShutdownWithoutClient, Return
  <2>2. LoopDrain => (finished' = finished \/ finished' = TRUE) /\ pc' = pc
    BY DEF LoopDrain
  <2>3. (LoopAction \/ PeerAction) /\ ~ShutdownWithoutClient /\ ~LoopDrain =>
          finished' = finished /\ pc' = pc
    BY DEF LoopAction, PeerAction, clientVars, ShutdownReturns,
       LoopRead, LoopPop, LoopStartRead, LoopReadRefused, LoopEndRead, LoopReadTimeout,
       LoopCall, LoopReturn, LoopStop, LoopPopAll, Destroy
  <2> QED
    BY <2>1, <2>2, <2>3 DEF Inv, Types
<1>3. ASSUME NEW r \in Requests, CallerAction(r)
      PROVE  /\ \A i \in Jobs : pc[i] # "new" => pc'[i] # "new"
             /\ pc[Shut] = "done" => pc'[Shut] = "done"
  BY <1>1, <1>3 DEF Inv, Types
<1> QED
  BY <1>1, <1>2, <1>3, NextCases DEF Inv, Types

\* Every step keeps the count of pending jobs right.
LEMMA CountNext ==
  ASSUME Inv, CountInv, [Next]_vars
  PROVE  CountInv'
<1>1. ASSUME NEW r \in Requests, CallerAction(r) PROVE CountInv'
  BY <1>1, CountCaller, CallsAreFinal, CountStep
<1>2. CASE OtherAction
  BY <1>2, CountLoop, CallsAreFinal, CountStep
<1>3. CASE ShutdownReturns
  BY <1>3, CountShutdown
<1> QED
  BY <1>1, <1>2, <1>3, NextCases DEF LoopAction, OtherAction

\* Only a callback the loop holds changes.
LEMMA OnlyHeldChanges ==
  ASSUME Inv, [Next]_vars, NEW j \in Jobs, ~Held(j)
  PROVE  cb'[j] = cb[j]
<1>1. ASSUME NEW r \in Requests, CallerAction(r) PROVE cb' = cb
  BY <1>1 DEF CallerAction, Launch, Emplace, AllocateFails, WriteMessage, WriteMessageFails,
     CheckAfterWrite, ReplyReceived, ReplyTimeout, DmaTransfer, DmaAborted
<1>2. CASE LoopCall \/ LoopReturn
  BY <1>2 DEF LoopCall, LoopReturn, Held, Inv, Types
<1>3. CASE (LoopAction \/ PeerAction) /\ ~LoopCall /\ ~LoopReturn
  BY <1>3 DEF LoopAction, PeerAction, clientVars, ShutdownWithoutClient, ShutdownReturns,
     LoopRead, LoopPop, LoopStartRead, LoopReadRefused, LoopEndRead, LoopReadTimeout,
     LoopStop, LoopPopAll, LoopDrain, Destroy
<1> QED
  BY <1>1, <1>2, <1>3, NextCases

\* When shutdown() of the remote model returned success, the callbacks of the jobs
\* launched before it are over: none is running and none runs later, for any
\* number of jobs and requests, whatever fails.
THEOREM ShutdownIsQuiet == Spec => ShutdownQuiet
<1>1. Init => CountInv
  <2> SUFFICES ASSUME Init PROVE CountInv
    OBVIOUS
  <2>1. Pending = {}
    BY DEF Init, ClientInit, Pending
  <2>2. jobs = [ongoing |-> 0, pending |-> 0, before |-> {}, ret |-> "none"]
    BY DEF Init, ClientInit
  <2> QED
    BY <2>1, <2>2, FS_EmptySet DEF CountInv, JobsRecord
<1>2. CountInv /\ (PeerType /\ Inv) /\ [Next]_vars => CountInv'
  BY CountNext
<1>3. CountInv /\ (PeerType /\ Inv) /\ [Next]_vars =>
        [\A j \in jobs.before : jobs.ret = "ok" => cb[j] # "running" /\ cb'[j] = cb[j]]_vars
  <2> SUFFICES ASSUME CountInv, Inv, [Next]_vars, NEW j \in jobs.before, jobs.ret = "ok"
               PROVE  cb[j] # "running" /\ cb'[j] = cb[j]
    OBVIOUS
  <2>1. j \in Jobs
    BY DEF CountInv, JobsRecord
  <2>2. ~Held(j)
    <3>1. CASE finished
      BY <3>1 DEF Inv, LoopInv, Held
    <3>2. CASE j \notin Pending
      BY <2>1, <3>2 DEF CountInv, Pending, Inv, CallerInv, Unused, PlaceInv
    <3> QED
      BY <3>1, <3>2 DEF CountInv
  <2> QED
    BY <2>1, <2>2, OnlyHeldChanges DEF Inv, PlaceInv
<1> QED
  BY <1>1, <1>2, <1>3, ClientInductive, PTL DEF Spec, ShutdownQuiet
=============================================================================
