---------------------------- MODULE HrpcContract ----------------------------
(***************************************************************************)
(* What execute_request_async promises its callers (hrpc/client.hpp:45):   *)
(* after a success the callback runs once, unless a started read of the    *)
(* reply buffers times out; after a failure it never runs; and nothing     *)
(* runs once the message loop is finished.  The callback may run before    *)
(* the call returns.                                                       *)
(***************************************************************************)
CONSTANT Requests

VARIABLES answer,        \* answer[r]: "none", "accepted", "refused"
          called,        \* called[r]: the callback was invoked
          lost,          \* lost[r]: the read of the reply buffers timed out
          over           \* the message loop is finished

vars == <<answer, called, lost, over>>

Init ==
    /\ answer = [r \in Requests |-> "none"]
    /\ called = [r \in Requests |-> FALSE]
    /\ lost = [r \in Requests |-> FALSE]
    /\ over = FALSE

Accept(r) ==
    /\ answer[r] = "none"
    /\ over => called[r] \/ lost[r]
    /\ answer' = [answer EXCEPT ![r] = "accepted"]
    /\ UNCHANGED <<called, lost, over>>

Refuse(r) ==
    /\ answer[r] = "none" /\ ~called[r] /\ ~lost[r]
    /\ answer' = [answer EXCEPT ![r] = "refused"]
    /\ UNCHANGED <<called, lost, over>>

Call(r) ==
    /\ ~over /\ answer[r] # "refused" /\ ~called[r] /\ ~lost[r]
    /\ called' = [called EXCEPT ![r] = TRUE]
    /\ UNCHANGED <<answer, lost, over>>

Lose(r) ==
    /\ ~over /\ answer[r] # "refused" /\ ~called[r] /\ ~lost[r]
    /\ lost' = [lost EXCEPT ![r] = TRUE]
    /\ UNCHANGED <<answer, called, over>>

\* The loop ends only when every accepted request was called back or lost.
Finish ==
    /\ ~over
    /\ \A r \in Requests : answer[r] = "accepted" => called[r] \/ lost[r]
    /\ over' = TRUE
    /\ UNCHANGED <<answer, called, lost>>

Next ==
    \/ \E r \in Requests : Accept(r) \/ Refuse(r) \/ Call(r) \/ Lose(r)
    \/ Finish

Spec == Init /\ [][Next]_vars
=============================================================================
