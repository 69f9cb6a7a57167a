------------------------------ MODULE HrpcPeer ------------------------------
(***************************************************************************)
(* What an hrpc client sees of the other end of its session: requests are  *)
(* owed an answer, and answers come in any order, each a message followed, *)
(* in a success, by its additional buffers with nothing in between.  Every *)
(* message and every buffer is a write of its own on the session, and      *)
(* nothing in a buffer says whose it is.  HrpcServer implements this.      *)
(***************************************************************************)
EXTENDS Naturals, Sequences, FiniteSets

CONSTANTS Jobs,          \* run_async calls: asynchronous, their replies carry buffers
          Syncs,         \* execute_request calls whose replies carry buffers (echo)
          Shut,          \* the CONFIGURED_INFER_MODEL__SHUTDOWN request
          None

Requests == Jobs \cup Syncs \cup {Shut}
WithBuffers == Jobs \cup Syncs

ASSUME PeerAssumption ==
    /\ Jobs \cap Syncs = {} /\ Shut \notin WithBuffers /\ None \notin Requests
    /\ IsFiniteSet(Jobs)

VARIABLES owed,          \* owed[r]: "answer" or, after a failed write, "error"; else "nothing"
          midway,        \* the request whose header is written and whose buffer is not
          toClient,      \* reply chunks written and not yet read by the client
          session,       \* "open", "gone" (ended by the server) or "closed" (by the client)
          broken         \* "no", "dropped" or "cut": the worst a failed write did (ghost)

peerVars == <<owed, midway, toClient, session, broken>>

\* rpc_message_header_t of a reply: which request it answers and its status.
Header(r, st) == [kind |-> "header", req |-> r, status |-> st]

\* One additional buffer of the reply to r.
Buffer(r) == [kind |-> "buffer", req |-> r, status |-> "ok"]

Chunk == [kind : {"header", "buffer"}, req : Requests, status : {"ok", "err"}]

OwedNothing == [r \in Requests |-> "nothing"]

PeerInit ==
    /\ owed = OwedNothing
    /\ midway = None
    /\ toClient = << >>
    /\ session = "open"
    /\ broken = "no"

\* Variant: a response may start between the header and the buffers of another.
PeerHeaderInterleaved(r, st) ==
    /\ owed[r] = "answer" /\ midway # r /\ session = "open"
    /\ toClient' = Append(toClient, Header(r, st))
    /\ IF st = "ok" /\ r \in WithBuffers /\ midway = None
       THEN midway' = r /\ UNCHANGED owed
       ELSE owed' = [owed EXCEPT ![r] = "nothing"] /\ UNCHANGED midway
    /\ UNCHANGED <<session, broken>>

PeerHeader(r, st) ==
    /\ owed[r] = "answer" \/ (owed[r] = "error" /\ st = "err")
    /\ midway = None /\ session = "open"
    /\ toClient' = Append(toClient, Header(r, st))
    /\ IF st = "ok" /\ r \in WithBuffers
       THEN midway' = r /\ UNCHANGED owed
       ELSE owed' = [owed EXCEPT ![r] = "nothing"] /\ UNCHANGED midway
    /\ UNCHANGED <<session, broken>>

PeerBuffer ==
    /\ midway # None /\ session = "open"
    /\ toClient' = Append(toClient, Buffer(midway))
    /\ owed' = [owed EXCEPT ![midway] = "nothing"]
    /\ midway' = None
    /\ UNCHANGED <<session, broken>>

\* A write fails: the answer is given up, or tried once more as an error.
PeerFails(r) ==
    /\ owed[r] # "nothing" /\ midway \in {None, r} /\ session = "open"
    /\ \/ owed' = [owed EXCEPT ![r] = "nothing"]
       \/ owed[r] = "answer" /\ owed' = [owed EXCEPT ![r] = "error"]
    /\ midway' = None
    /\ broken' = IF midway = r \/ broken = "cut" THEN "cut" ELSE "dropped"
    /\ UNCHANGED <<toClient, session>>

\* The server ends the session, or dies.
PeerEnds ==
    /\ session = "open"
    /\ session' = "gone" /\ owed' = OwedNothing /\ midway' = None
    /\ UNCHANGED <<toClient, broken>>

PeerStep ==
    \/ \E r \in Requests, st \in {"ok", "err"} : PeerHeader(r, st)
    \/ PeerBuffer

PeerFault == (\E r \in Requests : PeerFails(r)) \/ PeerEnds

\* A request arrives, and the client reads chunks or closes: the environment.
PeerReceives(r) ==
    /\ owed' = IF session = "open" THEN [owed EXCEPT ![r] = "answer"] ELSE owed
    /\ UNCHANGED <<midway, toClient, session, broken>>

PeerRead ==
    /\ session # "closed" /\ toClient # << >>
    /\ toClient' = Tail(toClient)
    /\ UNCHANGED <<owed, midway, session, broken>>

PeerClosed ==
    /\ session # "closed"
    /\ session' = "closed" /\ owed' = OwedNothing /\ midway' = None /\ toClient' = << >>
    /\ UNCHANGED broken

\* A read of the client sees the end of the session once nothing is left to read.
ReadsClosed == session # "open" /\ toClient = << >>

PeerSpec ==
    PeerInit /\ [][PeerStep \/ PeerFault \/ (\E r \in Requests : PeerReceives(r)) \/ PeerRead \/ PeerClosed]_peerVars
=============================================================================
