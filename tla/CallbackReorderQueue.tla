------------------------ MODULE CallbackReorderQueue ------------------------
(***************************************************************************)
(* vdevice/callback_reorder_queue.cpp together with the two users of it,   *)
(* ScheduledInputStream::write_async_impl and                              *)
(* ScheduledOutputStream::read_async_impl (the same code twice).           *)
(*                                                                         *)
(* A stream wraps the callback of every transfer it submits; the wrapped   *)
(* callbacks run on whatever thread completes the transfer (interrupt      *)
(* threads of the devices, the scheduler thread when it aborts requests)   *)
(* and the queue must still call the originals in submission order.        *)
(* The submitter runs under the stream mutex from wrap_callback to the     *)
(* increment of m_ongoing_transfers; an original callback takes that mutex *)
(* to decrement the counter.                                               *)
(***************************************************************************)
EXTENDS Integers, Sequences, FiniteSets

CONSTANTS
    Threads,        \* threads on which transfers complete
    NoThread,       \* m_callbacks_mutex is free
    MaxSize,        \* m_max_size, the queue size of the accumulator
    MaxCallbacks    \* bound: number of transfers ever submitted

ASSUME NoThreadAssumption == NoThread \notin Threads
ASSUME SizeAssumption == MaxSize \in Nat /\ MaxCallbacks \in Nat

VARIABLES
    registered,     \* m_registered_callbacks
    called,         \* m_called_callbacks
    queue,          \* indices in m_callbacks_queue (a min-heap on the index)
    cbLock,         \* owner of m_callbacks_mutex
    pc,             \* where each completing thread is
    arg,            \* index of the callback a thread has popped
    submit,         \* where the submitter, holder of the stream mutex, is
    inflight,       \* indices whose transfer was accepted and is not complete
    ongoing,        \* m_ongoing_transfers of the stream
    delivered       \* indices of the originals, in the order they were called

vars == <<registered, called, queue, cbLock, pc, arg, submit, inflight,
          ongoing, delivered>>

Init ==
    /\ registered = 0
    /\ called = 0
    /\ queue = {}
    /\ cbLock = NoThread
    /\ pc = [t \in Threads |-> "idle"]
    /\ arg = [t \in Threads |-> 0]
    /\ submit = "idle"
    /\ inflight = {}
    /\ ongoing = 0
    /\ delivered = <<>>

(* is_ready_for_transfer, which the callers wait for before they submit, and a
   version that is off by one. *)
ReadyOffByOne == ongoing <= MaxSize
IsReadyForTransfer == ongoing < MaxSize

(* wrap_callback: the index is taken when the transfer is submitted. *)
WrapCallback ==
    /\ submit = "idle"
    /\ IsReadyForTransfer
    /\ registered < MaxCallbacks
    /\ registered' = registered + 1
    /\ submit' = "wrapped"
    /\ UNCHANGED <<called, queue, cbLock, pc, arg, inflight, ongoing, delivered>>

(* add_transfer_request succeeds; the transfer may complete from now on. *)
AddTransferRequest ==
    /\ submit = "wrapped"
    /\ inflight' = inflight \cup {registered - 1}
    /\ submit' = "added"
    /\ UNCHANGED <<registered, called, queue, cbLock, pc, arg, ongoing, delivered>>

(* call_write_async_impl / call_read_async_impl count the transfer last. *)
CountTransfer ==
    /\ submit = "added"
    /\ ongoing' = ongoing + 1
    /\ submit' = "idle"
    /\ UNCHANGED <<registered, called, queue, cbLock, pc, arg, inflight, delivered>>

(* The registration count a cancelled callback leaves behind. *)
NoCancel(n) == n
Cancelled(n) == n - 1

(* add_transfer_request fails (queue full or shut down): cancel_last_callback. *)
CancelLastCallback ==
    /\ submit = "wrapped"
    /\ registered' = Cancelled(registered)
    /\ submit' = "idle"
    /\ UNCHANGED <<called, queue, cbLock, pc, arg, inflight, ongoing, delivered>>

(* Where a thread goes after push_callback: to wait for m_callbacks_mutex. In a
   version it leaves the callback to the thread that holds the mutex. *)
TryLock(t) == IF cbLock = NoThread THEN "lock" ELSE "idle"
WaitForLock(t) == "lock"

(* A transfer completes on thread t: the wrapped callback, push_callback. *)
PushCallback(t) ==
    /\ pc[t] = "idle"
    /\ \E i \in inflight :
          /\ inflight' = inflight \ {i}
          /\ queue' = queue \cup {i}
    /\ pc' = [pc EXCEPT ![t] = WaitForLock(t)]
    /\ UNCHANGED <<registered, called, cbLock, arg, submit, ongoing, delivered>>

(* A thread that calls the callbacks without taking m_callbacks_mutex. *)
MayEnterAlways(t) == TRUE
MayEnter(t) == cbLock = NoThread

(* call_queued_callbacks_in_order takes m_callbacks_mutex. *)
LockCallbacks(t) ==
    /\ pc[t] = "lock"
    /\ MayEnter(t)
    /\ cbLock' = t
    /\ pc' = [pc EXCEPT ![t] = "loop"]
    /\ UNCHANGED <<registered, called, queue, arg, submit, inflight, ongoing, delivered>>

(* The top of the heap is the callback with the lowest index. *)
IsTop(i) == \A j \in queue : i <= j

IsReady(i) == IsTop(i) /\ i = called

(* pop_ready_callback returns the callback at the top of the heap. *)
PopReadyCallback(t) ==
    /\ pc[t] = "loop"
    /\ \E i \in queue :
          /\ IsReady(i)
          /\ queue' = queue \ {i}
          /\ arg' = [arg EXCEPT ![t] = i]
    /\ called' = called + 1
    /\ pc' = [pc EXCEPT ![t] = "call"]
    /\ UNCHANGED <<registered, cbLock, submit, inflight, ongoing, delivered>>

(* pop_ready_callback returns HAILO_NOT_AVAILABLE: the loop ends ... *)
NoReadyCallback(t) ==
    /\ pc[t] = "loop"
    /\ \A i \in queue : ~IsReady(i)
    /\ pc' = [pc EXCEPT ![t] = "unlock"]
    /\ UNCHANGED <<registered, called, queue, cbLock, arg, submit, inflight, ongoing, delivered>>

(* ... and m_callbacks_mutex is released. *)
UnlockCallbacks(t) ==
    /\ pc[t] = "unlock"
    /\ cbLock' = NoThread
    /\ pc' = [pc EXCEPT ![t] = "idle"]
    /\ UNCHANGED <<registered, called, queue, arg, submit, inflight, ongoing, delivered>>

(* callback->second(): the original callback of the user runs ... *)
CallOriginal(t) ==
    /\ pc[t] = "call"
    /\ delivered' = Append(delivered, arg[t])
    /\ pc' = [pc EXCEPT ![t] = "finish"]
    /\ UNCHANGED <<registered, called, queue, cbLock, arg, submit, inflight, ongoing>>

(* The stream mutex is free. *)
StreamMutexFree == submit = "idle"

(* ... and then m_ongoing_transfers is decremented under the stream mutex. *)
FinishTransfer(t) ==
    /\ pc[t] = "finish"
    /\ StreamMutexFree
    /\ ongoing' = ongoing - 1
    /\ pc' = [pc EXCEPT ![t] = "loop"]
    /\ UNCHANGED <<registered, called, queue, cbLock, arg, submit, inflight, delivered>>

Submitter == WrapCallback \/ AddTransferRequest \/ CountTransfer \/ CancelLastCallback

Deliverer(t) == \/ LockCallbacks(t) \/ PopReadyCallback(t) \/ NoReadyCallback(t)
                \/ UnlockCallbacks(t) \/ CallOriginal(t) \/ FinishTransfer(t)

Next == Submitter \/ \E t \in Threads : PushCallback(t) \/ Deliverer(t)

(* Every accepted transfer completes (or is aborted) and threads keep running;
   a thread waiting for a mutex that is released again and again gets it. *)
Fairness ==
    /\ WF_vars(AddTransferRequest \/ CancelLastCallback)
    /\ WF_vars(CountTransfer)
    /\ WF_vars(\E t \in Threads : PushCallback(t))
    /\ \A t \in Threads :
          WF_vars(Deliverer(t)) /\ SF_vars(LockCallbacks(t)) /\ SF_vars(FinishTransfer(t))

Spec == Init /\ [][Next]_vars /\ Fairness

-----------------------------------------------------------------------------
(* The variables have their types. *)
TypeOK ==
    /\ registered \in Nat
    /\ called \in Nat
    /\ queue \subseteq Nat
    /\ cbLock \in Threads \cup {NoThread}
    /\ pc \in [Threads -> {"idle", "lock", "loop", "call", "finish", "unlock"}]
    /\ arg \in [Threads -> Nat]
    /\ submit \in {"idle", "wrapped", "added"}
    /\ inflight \subseteq Nat
    /\ ongoing \in Nat
    /\ delivered \in Seq(Nat)

(* "Wraps the given original callback so it will be called in the same
   wrap_callback order": whatever the order in which, and the threads on which,
   the transfers complete, the k-th original called is the k-th submitted. *)
InOrder == \A k \in 1..Len(delivered) : delivered[k] = k - 1

(* A callback that is ready is never left in the queue with no thread about to
   call it: the thread that finds nothing ready in pop_ready_callback and the
   one that pushes at the same moment cannot both leave it to the other. *)
NoStranded ==
    called \in queue => \E t \in Threads : pc[t] \in {"lock", "loop", "call", "finish"}

(* assert(m_callbacks_queue.size() < m_max_size) in push_callback, given that
   the submitters wait for is_ready_for_transfer: a completed transfer always
   finds room in the reserved storage of the heap. *)
QueueFits == inflight # {} => Cardinality(queue) < MaxSize

(* Every accepted transfer has its original callback called in the end, also
   when submissions between fail and are cancelled. *)
AllDelivered ==
    \A i \in 0..(MaxCallbacks - 1) :
        (i \in inflight) ~> (\E k \in 1..Len(delivered) : delivered[k] = i)
=============================================================================
