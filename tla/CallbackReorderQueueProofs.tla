--------------------- MODULE CallbackReorderQueueProofs ---------------------
(***************************************************************************)
(* Proofs about CallbackReorderQueue, for every number of completing       *)
(* threads, every queue size and every number of transfers.                *)
(***************************************************************************)
EXTENDS CallbackReorderQueue, FiniteSetTheorems, TLAPS

(* A thread is between pop_ready_callback and the end of the original. *)
InOriginal(t) == pc[t] \in {"call", "finish"}

(* The indices that are owed a call are the ones from called to registered,
   less the one that is wrapped and not yet handed over. *)
IndexInv ==
    /\ called <= registered
    /\ submit = "wrapped" => called < registered
    /\ \A i \in queue \cup inflight :
          /\ called <= i
          /\ i < registered
          /\ submit = "wrapped" => i # registered - 1
    /\ \A i \in queue : i \notin inflight

(* The owner of m_callbacks_mutex is the thread inside the delivery loop. *)
LockInv == \A t \in Threads : pc[t] \in {"loop", "call", "finish", "unlock"} <=> cbLock = t

(* A popped callback is the last one counted as called. *)
CallInv ==
    /\ \A t \in Threads : pc[t] = "call" =>
          /\ arg[t] = called - 1
          /\ Len(delivered) = called - 1
    /\ (\A t \in Threads : pc[t] # "call") => Len(delivered) = called

(* m_ongoing_transfers counts the transfers handed over and not yet finished,
   and the submitter never lets it pass the queue size. *)
CountInv ==
    /\ ongoing = (registered - (IF submit = "idle" THEN 0 ELSE 1) - called)
                 + (IF \E t \in Threads : InOriginal(t) THEN 1 ELSE 0)
    /\ ongoing + (IF submit = "idle" THEN 0 ELSE 1) <= MaxSize

IInv == TypeOK /\ IndexInv /\ LockInv /\ CallInv /\ CountInv /\ InOrder /\ NoStranded

(* Initially nothing is submitted and nothing is owed. *)
LEMMA InitIInv == Init => IInv
  BY NoThreadAssumption, SizeAssumption
  DEF Init, IInv, TypeOK, IndexInv, LockInv, CallInv, CountInv, InOriginal, InOrder, NoStranded

(* The steps of the submitter preserve the invariant. *)
LEMMA SubmitterIInv == IInv /\ Submitter => IInv'
<1> SUFFICES ASSUME IInv, Submitter PROVE IInv'
  OBVIOUS
<1> USE SizeAssumption DEF IInv, TypeOK
<1>1. CASE WrapCallback
  BY <1>1 DEF WrapCallback, IsReadyForTransfer, IndexInv, LockInv, CallInv, CountInv,
              InOriginal, InOrder, NoStranded
<1>2. CASE AddTransferRequest
  BY <1>2 DEF AddTransferRequest, IndexInv, LockInv, CallInv, CountInv,
              InOriginal, InOrder, NoStranded
<1>3. CASE CountTransfer
  BY <1>3 DEF CountTransfer, IndexInv, LockInv, CallInv, CountInv,
              InOriginal, InOrder, NoStranded
<1>4. CASE CancelLastCallback
  BY <1>4 DEF CancelLastCallback, Cancelled, IndexInv, LockInv, CallInv, CountInv,
              InOriginal, InOrder, NoStranded
<1> QED BY <1>1, <1>2, <1>3, <1>4 DEF Submitter

(* The steps of a completing thread preserve the invariant. *)
LEMMA ThreadIInv ==
    ASSUME NEW t \in Threads, IInv, PushCallback(t) \/ Deliverer(t)
    PROVE  IInv'
<1> USE SizeAssumption, NoThreadAssumption DEF IInv, TypeOK
<1>1. CASE PushCallback(t)
  <2>1. TypeOK' /\ IndexInv' /\ LockInv' /\ InOrder' /\ NoStranded'
    BY <1>1 DEF PushCallback, WaitForLock, IndexInv, LockInv, InOrder, NoStranded
  <2>2. CallInv'
    BY <1>1 DEF PushCallback, WaitForLock, CallInv
  <2>3. \A u \in Threads : InOriginal(u)' <=> InOriginal(u)
    BY <1>1 DEF PushCallback, WaitForLock, InOriginal
  <2>4. CountInv'
    BY <1>1, <2>3 DEF PushCallback, WaitForLock, CountInv
  <2> QED BY <2>1, <2>2, <2>4
<1>2. CASE LockCallbacks(t)
  <2>1. TypeOK' /\ IndexInv' /\ LockInv' /\ InOrder' /\ NoStranded' /\ CallInv'
    BY <1>2 DEF LockCallbacks, MayEnter, IndexInv, LockInv, InOrder, NoStranded, CallInv
  <2>2. \A u \in Threads : InOriginal(u)' <=> InOriginal(u)
    BY <1>2 DEF LockCallbacks, InOriginal
  <2>3. CountInv'
    BY <1>2, <2>2 DEF LockCallbacks, CountInv
  <2> QED BY <2>1, <2>3
<1>3. CASE PopReadyCallback(t)
  <2>1. PICK i \in queue : /\ i = called
                           /\ queue' = queue \ {i}
                           /\ arg' = [arg EXCEPT ![t] = i]
    BY <1>3 DEF PopReadyCallback, IsReady
  <2>2. pc[t] = "loop" /\ called' = called + 1 /\ pc' = [pc EXCEPT ![t] = "call"]
        /\ UNCHANGED <<registered, cbLock, submit, inflight, ongoing, delivered>>
    BY <1>3 DEF PopReadyCallback
  <2>3. cbLock = t /\ \A u \in Threads : u # t => pc[u] \notin {"loop", "call", "finish", "unlock"}
    BY <2>2 DEF LockInv
  <2>4. TypeOK' /\ IndexInv' /\ LockInv' /\ InOrder' /\ NoStranded'
    BY <2>1, <2>2, <2>3 DEF IndexInv, LockInv, InOrder, NoStranded
  <2>5. Len(delivered) = called
    BY <2>2, <2>3 DEF CallInv
  <2>6. CallInv'
    BY <2>1, <2>2, <2>3, <2>5 DEF CallInv
  <2>7. ~(\E u \in Threads : InOriginal(u)) /\ (\E u \in Threads : InOriginal(u)')
    BY <2>2, <2>3 DEF InOriginal
  <2>8. CountInv'
    BY <2>2, <2>7 DEF CountInv
  <2> QED BY <2>4, <2>6, <2>8
<1>4. CASE NoReadyCallback(t)
  <2>1. TypeOK' /\ IndexInv' /\ InOrder' /\ CallInv'
    BY <1>4 DEF NoReadyCallback, IndexInv, InOrder, CallInv
  <2>2. LockInv'
    BY <1>4 DEF NoReadyCallback, LockInv
  <2>3. called \notin queue
    BY <1>4 DEF NoReadyCallback, IsReady, IsTop, IndexInv
  <2>4. NoStranded'
    BY <1>4, <2>3 DEF NoReadyCallback, NoStranded
  <2>5. \A u \in Threads : InOriginal(u)' <=> InOriginal(u)
    BY <1>4 DEF NoReadyCallback, InOriginal
  <2>6. CountInv'
    BY <1>4, <2>5 DEF NoReadyCallback, CountInv
  <2> QED BY <2>1, <2>2, <2>4, <2>6
<1>5. CASE CallOriginal(t)
  <2>1. \A u \in Threads : u # t => pc[u] \notin {"loop", "call", "finish", "unlock"}
    BY <1>5 DEF CallOriginal, LockInv
  <2>2. TypeOK' /\ IndexInv' /\ LockInv' /\ NoStranded'
    BY <1>5 DEF CallOriginal, IndexInv, LockInv, NoStranded
  <2>3. InOrder' /\ CallInv'
    BY <1>5, <2>1 DEF CallOriginal, InOrder, CallInv
  <2>4. \A u \in Threads : InOriginal(u)' <=> InOriginal(u)
    BY <1>5 DEF CallOriginal, InOriginal
  <2>5. CountInv'
    BY <1>5, <2>4 DEF CallOriginal, CountInv
  <2> QED BY <2>2, <2>3, <2>5
<1>6. CASE FinishTransfer(t)
  <2>1. \A u \in Threads : u # t => pc[u] \notin {"loop", "call", "finish", "unlock"}
    BY <1>6 DEF FinishTransfer, StreamMutexFree, LockInv
  <2>2. (\E u \in Threads : InOriginal(u)) /\ ~(\E u \in Threads : InOriginal(u)')
    BY <1>6, <2>1 DEF FinishTransfer, StreamMutexFree, InOriginal
  <2>3. ongoing = registered - called + 1
    BY <1>6, <2>2 DEF FinishTransfer, StreamMutexFree, CountInv
  <2>4. TypeOK' /\ IndexInv' /\ LockInv' /\ NoStranded' /\ InOrder' /\ CallInv'
    BY <1>6, <2>3 DEF FinishTransfer, StreamMutexFree, IndexInv, LockInv, NoStranded, InOrder, CallInv
  <2>5. CountInv'
    BY <1>6, <2>2, <2>3 DEF FinishTransfer, StreamMutexFree, CountInv
  <2> QED BY <2>4, <2>5
<1>7. CASE UnlockCallbacks(t)
  <2>1. TypeOK' /\ IndexInv' /\ LockInv' /\ InOrder' /\ NoStranded' /\ CallInv'
    BY <1>7 DEF UnlockCallbacks, IndexInv, LockInv, InOrder, NoStranded, CallInv
  <2>2. \A u \in Threads : InOriginal(u)' <=> InOriginal(u)
    BY <1>7 DEF UnlockCallbacks, InOriginal
  <2>3. CountInv'
    BY <1>7, <2>2 DEF UnlockCallbacks, CountInv
  <2> QED BY <2>1, <2>3
<1> QED BY <1>1, <1>2, <1>3, <1>4, <1>5, <1>6, <1>7 DEF Deliverer

(* The invariant is inductive. *)
LEMMA NextIInv == IInv /\ [Next]_vars => IInv'
<1>1. CASE UNCHANGED vars
  BY <1>1 DEF vars, IInv, TypeOK, IndexInv, LockInv, CallInv, CountInv, InOriginal,
              InOrder, NoStranded
<1> QED BY <1>1, SubmitterIInv, ThreadIInv DEF Next

(* The invariant holds in every reachable state. *)
THEOREM Inductive == Spec => []IInv
  BY InitIInv, NextIInv, PTL DEF Spec

(* wrap_callback keeps its promise: whatever threads complete the transfers and
   in whatever order, the originals are called in submission order. *)
THEOREM CallbacksInOrder == Spec => []InOrder
<1>1. IInv => InOrder
  BY DEF IInv
<1> QED BY <1>1, Inductive, PTL

(* call_queued_callbacks_in_order never loses the hand-over between a thread
   that finds nothing ready and one that has just pushed. *)
THEOREM NothingStranded == Spec => []NoStranded
<1>1. IInv => NoStranded
  BY DEF IInv
<1> QED BY <1>1, Inductive, PTL

(* The assertion of push_callback: the reserved storage is never outgrown. *)
THEOREM StorageSuffices == Spec => []QueueFits
<1>1. IInv => QueueFits
  <2> SUFFICES ASSUME IInv, NEW i \in inflight PROVE Cardinality(queue) < MaxSize
    BY DEF QueueFits
  <2> USE SizeAssumption DEF IInv, TypeOK
  <2> DEFINE top == IF submit = "wrapped" THEN registered - 2 ELSE registered - 1
  <2>1. queue \cup {i} \subseteq called..top
    BY DEF IndexInv
  <2>2. called \in Int /\ top \in Int
    OBVIOUS
  <2>3. IsFiniteSet(called..top)
        /\ Cardinality(called..top) = IF called > top THEN 0 ELSE top - called + 1
    BY <2>2, FS_Interval
  <2>4. called <= top
    BY <2>1
  <2>5. top - called + 1 <= MaxSize
    BY DEF CountInv, IndexInv
  <2>6. IsFiniteSet(queue \cup {i}) /\ Cardinality(queue \cup {i}) <= MaxSize
    <3> HIDE DEF top
    <3>1. IsFiniteSet(queue \cup {i})
          /\ Cardinality(queue \cup {i}) <= Cardinality(called..top)
      BY <2>1, <2>3, FS_Subset
    <3>2. Cardinality(queue \cup {i}) \in Nat
      BY <3>1, FS_CardinalityType
    <3> QED BY <2>2, <2>3, <2>4, <2>5, <3>1, <3>2
  <2>7. i \notin queue
    BY DEF IndexInv
  <2>8. IsFiniteSet(queue)
    BY <2>6, FS_Subset
  <2>9. Cardinality(queue \cup {i}) = Cardinality(queue) + 1
    BY <2>7, <2>8, FS_AddElement
  <2>10. Cardinality(queue) \in Nat
    BY <2>8, FS_CardinalityType
  <2> QED BY <2>6, <2>9, <2>10
<1> QED BY <1>1, Inductive, PTL
=============================================================================
