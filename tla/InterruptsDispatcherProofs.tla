--------------------- MODULE InterruptsDispatcherProofs ---------------------
(***************************************************************************)
(* Proofs about InterruptsDispatcher, for every set of channels groups.    *)
(***************************************************************************)
EXTENDS InterruptsDispatcher, TLAPS

(* m_thread_state says so when the thread is in the driver or in process_irq, and stop
   has cleared m_wait_context when it waits for the thread. *)
StateInv ==
    /\ thread.pc \in {"wait", "got", "process"} => thread.state = "active"
    /\ call.pc = "stop" => context = None /\ call.bitmap # None

DispatcherInv == DispatcherTypeOK /\ StateInv /\ QuietAfterStop

(* Initially the thread waits on m_cond. *)
LEMMA InitDispatcherInv == DispatcherInit => DispatcherInv
<1> SUFFICES ASSUME DispatcherInit PROVE DispatcherInv
  OBVIOUS
<1>1. thread \in Thread /\ thread.pc = "idle"
  BY DEF DispatcherInit, Thread
<1>2. call \in Call /\ call.pc = "none"
  BY DEF DispatcherInit, Call
<1>3. quit \in BOOLEAN
  BY Zenon DEF DispatcherInit
<1> QED
  BY <1>1, <1>2, <1>3 DEF DispatcherInit, DispatcherInv, DispatcherTypeOK, StateInv, QuietAfterStop

(* What the thread does at the top of its loop agrees with m_wait_context. *)
LEMMA LoopTopAgrees ==
    ASSUME DispatcherInv
    PROVE  /\ LoopTop \in Thread
           /\ LoopTop.pc \in {"idle", "wait", "exit"}
           /\ LoopTop.pc = "wait" => /\ LoopTop.state = "active"
                                     /\ LoopTop.group = context
                                     /\ context # None
<1>1. CASE quit
  BY <1>1, Zenon DEF LoopTop, DispatcherInv, DispatcherTypeOK, Thread
<1>2. CASE ~quit /\ context # None
  BY <1>2, Zenon DEF LoopTop, DispatcherInv, DispatcherTypeOK, Thread
<1>3. CASE ~quit /\ context = None
  BY <1>3, Zenon DEF LoopTop, DispatcherInv, DispatcherTypeOK, Thread
<1> QED BY <1>1, <1>2, <1>3 DEF DispatcherInv, DispatcherTypeOK

(* The calls of the owner preserve the invariant. *)
LEMMA OwnerPreserves == DispatcherInv /\ Owner => DispatcherInv'
<1> SUFFICES ASSUME DispatcherInv, Owner PROVE DispatcherInv'
  OBVIOUS
<1> USE NoneAssumption DEF DispatcherInv, DispatcherTypeOK, Thread, Call, StateInv,
                           QuietAfterStop, MutexFree
<1>1. ASSUME NEW g \in Groups, Start(g) PROVE DispatcherInv'
  BY <1>1 DEF Start
<1>2. CASE StopBegin
  BY <1>2 DEF StopBegin
<1>3. CASE StopEnd
  BY <1>3 DEF StopEnd, ThreadNotActive
<1>4. CASE SignalThreadQuit
  BY <1>4 DEF SignalThreadQuit
<1>5. CASE Joined
  BY <1>5 DEF Joined
<1> QED BY <1>1, <1>2, <1>3, <1>4, <1>5 DEF Owner

(* The steps of the thread preserve the invariant. *)
LEMMA ThreadPreserves == DispatcherInv /\ InterruptsThread => DispatcherInv'
<1> SUFFICES ASSUME DispatcherInv, InterruptsThread PROVE DispatcherInv'
  OBVIOUS
<1>1. CASE Wake \/ NothingToProcess \/ Processed
  <2>1. thread' = LoopTop /\ UNCHANGED <<context, enabled, call, quit>>
    BY <1>1 DEF Wake, NothingToProcess, Processed
  <2> QED
    BY <2>1, LoopTopAgrees, NoneAssumption
    DEF DispatcherInv, DispatcherTypeOK, StateInv, QuietAfterStop
<1> USE DEF DispatcherInv, DispatcherTypeOK, Thread, StateInv, QuietAfterStop
<1>2. CASE WaitReturnsIrq
  BY <1>2, Zenon DEF WaitReturnsIrq
<1>3. CASE WaitReturnsEmpty
  BY <1>3, Zenon DEF WaitReturnsEmpty
<1>4. CASE WaitFails
  BY <1>4 DEF WaitFails
<1>5. CASE ProcessIrq
  BY <1>5 DEF ProcessIrq
<1> QED BY <1>1, <1>2, <1>3, <1>4, <1>5 DEF InterruptsThread

(* The invariant holds in every reachable state of the dispatcher. *)
THEOREM DispatcherInductive == DispatcherSpec => []DispatcherInv
<1>1. DispatcherInv /\ UNCHANGED dispatcherVars => DispatcherInv'
  BY DEF DispatcherInv, DispatcherTypeOK, StateInv, QuietAfterStop, dispatcherVars
<1> QED
  BY <1>1, InitDispatcherInv, OwnerPreserves, ThreadPreserves, PTL
  DEF DispatcherSpec, DispatcherNext

(* Once stop has returned, the thread is neither in the driver nor in process_irq. *)
THEOREM StopIsQuiet == DispatcherSpec => []QuietAfterStop
  BY DispatcherInductive, PTL DEF DispatcherInv

(* The value of open and of serving in the refinement mapping. *)
OpenNow == IF call.pc = "stop" THEN call.bitmap ELSE context
ServingNow == IF thread.pc = "process" THEN thread.group ELSE None

(* Every step of the dispatcher is a step of the service or leaves it unchanged. *)
LEMMA StepRefines ==
    DispatcherInv /\ [DispatcherNext]_dispatcherVars
        => [Service!ServiceNext]_(Service!serviceVars)
<1> SUFFICES ASSUME DispatcherInv, [DispatcherNext]_dispatcherVars
             PROVE  [Service!ServiceNext]_(Service!serviceVars)
  OBVIOUS
<1> DEFINE Stays == OpenNow' = OpenNow /\ ServingNow' = ServingNow
<1> USE NoneAssumption
<1>a. ASSUME Stays PROVE UNCHANGED Service!serviceVars
  BY <1>a DEF Service!serviceVars, OpenNow, ServingNow
<1>1. ASSUME NEW g \in Groups, Start(g) PROVE Service!Open(g)
  BY <1>1 DEF Start, Service!Open, MutexFree
<1>2. CASE StopBegin
  <2>1. Stays
    BY <1>2 DEF StopBegin, OpenNow, ServingNow, DispatcherInv, DispatcherTypeOK, Call
  <2> QED BY <2>1, <1>a
<1>3. ASSUME StopEnd PROVE Service!Close
  BY <1>3 DEF StopEnd, MutexFree, Service!Close, DispatcherInv, StateInv, DispatcherTypeOK
<1>4. CASE SignalThreadQuit \/ Joined
  <2>1. Stays
    BY <1>4 DEF SignalThreadQuit, Joined, OpenNow, ServingNow, DispatcherInv,
                DispatcherTypeOK, Call
  <2> QED BY <2>1, <1>a
<1>5. CASE Wake \/ NothingToProcess
  <2>1. thread' = LoopTop /\ thread.pc # "process" /\ UNCHANGED <<context, call>>
    BY <1>5 DEF Wake, NothingToProcess
  <2>2. Stays
    BY <2>1, LoopTopAgrees DEF OpenNow, ServingNow
  <2> QED BY <2>2, <1>a
<1>6. CASE WaitReturnsIrq \/ WaitReturnsEmpty \/ WaitFails
  <2>1. Stays
    BY <1>6, Zenon DEF WaitReturnsIrq, WaitReturnsEmpty, WaitFails, OpenNow, ServingNow,
                DispatcherInv, DispatcherTypeOK, Thread
  <2> QED BY <2>1, <1>a
<1>7. ASSUME ProcessIrq PROVE Service!Serve
  <2>1. thread.group = OpenNow /\ OpenNow # None
    BY <1>7 DEF ProcessIrq, OpenNow, DispatcherInv, StateInv, QuietAfterStop
  <2> QED
    BY <2>1, <1>7 DEF ProcessIrq, Service!Serve, OpenNow, DispatcherInv, DispatcherTypeOK, Thread
<1>8. ASSUME Processed PROVE Service!Served
  <2>1. thread.group = OpenNow /\ OpenNow # None
    BY <1>8 DEF Processed, OpenNow, DispatcherInv, StateInv, QuietAfterStop
  <2> QED
    BY <2>1, <1>8, LoopTopAgrees DEF Processed, Service!Served
<1>9. CASE UNCHANGED dispatcherVars
  <2>1. Stays
    BY <1>9 DEF dispatcherVars, OpenNow, ServingNow
  <2> QED BY <2>1, <1>a
<1> QED
  BY <1>1, <1>2, <1>3, <1>4, <1>5, <1>6, <1>7, <1>8, <1>9
  DEF DispatcherNext, Owner, InterruptsThread, Service!ServiceNext

(* The dispatcher implements the service: process_irq runs only for the group started
   last, and never after the return of stop. *)
THEOREM DispatcherRefines == DispatcherSpec => ImplementsService
<1>1. DispatcherInit => Service!ServiceInit
  BY DEF DispatcherInit, Service!ServiceInit
<1> QED
  BY <1>1, DispatcherInductive, StepRefines, PTL
  DEF DispatcherSpec, ImplementsService, Service!ServiceSpec
=============================================================================
