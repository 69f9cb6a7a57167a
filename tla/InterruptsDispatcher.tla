------------------------ MODULE InterruptsDispatcher ------------------------
(***************************************************************************)
(* InterruptsDispatcher (vdma/channel/interrupts_dispatcher.cpp): a thread *)
(* that waits for the vDMA interrupts of the started channels group and    *)
(* calls process_irq, and the calls that start, stop and destroy it.       *)
(*                                                                         *)
(* The thread keeps m_mutex while process_irq runs; every other critical   *)
(* section is one step.  Its owner calls start, stop and the destructor    *)
(* one after the other; the ioctls that enable and disable the interrupts  *)
(* do not fail.                                                            *)
(***************************************************************************)
EXTENDS Naturals

CONSTANTS
    Groups,     \* the channels groups the owner starts it with
    None,       \* no group
    WaitMayFail \* vdma_interrupts_wait may return an error

ASSUME NoneAssumption == None \notin Groups /\ WaitMayFail \in BOOLEAN

VARIABLES
    context,    \* m_wait_context: the started group, None for nullptr
    enabled,    \* the driver: group whose interrupts are enabled
    thread,     \* the interrupts thread: pc, state (m_thread_state),
                \*   group     its copy of the wait context
                \*   result    what vdma_interrupts_wait returned
    call,       \* the owner: pc of its call, bitmap a local of stop
    quit        \* m_should_quit

dispatcherVars == <<context, enabled, thread, call, quit>>

Thread == [pc : {"idle", "wait", "got", "process", "exit"}, state : {"active", "not_active"},
           group : Groups \cup {None}, result : {"irq", "empty"}]
Call == [pc : {"none", "stop", "join", "gone"}, bitmap : Groups \cup {None}]

DispatcherInit ==
    /\ context = None
    /\ enabled = None
    /\ thread = [pc |-> "idle", state |-> "not_active", group |-> None, result |-> "empty"]
    /\ call = [pc |-> "none", bitmap |-> None]
    /\ quit = FALSE

MutexFree == thread.pc # "process"

-----------------------------------------------------------------------------
(* The owner. *)

(* start *)
Start(g) ==
    /\ call.pc = "none"
    /\ MutexFree
    /\ context = None
    /\ context' = g
    /\ enabled' = g
    /\ UNCHANGED <<thread, call, quit>>

(* stop up to its wait; nothing happens when it is stopped already. *)
StopBegin ==
    /\ call.pc = "none"
    /\ MutexFree
    /\ context # None
    /\ call' = [pc |-> "stop", bitmap |-> context]
    /\ context' = None
    /\ enabled' = None
    /\ UNCHANGED <<thread, quit>>

(* The condition stop waits for, and a version that does not wait. *)
NoWait == TRUE
ThreadNotActive == thread.state = "not_active"

(* stop returns *)
StopEnd ==
    /\ call.pc = "stop"
    /\ MutexFree
    /\ ThreadNotActive
    /\ call' = [pc |-> "none", bitmap |-> None]
    /\ UNCHANGED <<context, enabled, thread, quit>>

(* The destructor, after the stop it starts with: signal_thread_quit ... *)
SignalThreadQuit ==
    /\ call.pc = "none"
    /\ MutexFree
    /\ context = None
    /\ quit' = TRUE
    /\ call' = [call EXCEPT !.pc = "join"]
    /\ UNCHANGED <<context, enabled, thread>>

(* ... and join. *)
Joined ==
    /\ call.pc = "join"
    /\ thread.pc = "exit"
    /\ call' = [call EXCEPT !.pc = "gone"]
    /\ UNCHANGED <<context, enabled, thread, quit>>

-----------------------------------------------------------------------------
(* The thread: wait_interrupts. *)

(* From the top of the loop to vdma_interrupts_wait, or to the wait on m_cond; a version
   does not say that it waits. *)
LoopTopSilent ==
    CASE quit -> [thread EXCEPT !.pc = "exit", !.state = "not_active"]
      [] ~quit /\ context # None ->
            [thread EXCEPT !.pc = "wait", !.state = "active", !.group = context]
      [] OTHER -> [thread EXCEPT !.pc = "idle"]
LoopTop ==
    CASE quit -> [thread EXCEPT !.pc = "exit", !.state = "not_active"]
      [] ~quit /\ context # None ->
            [thread EXCEPT !.pc = "wait", !.state = "active", !.group = context]
      [] OTHER -> [thread EXCEPT !.pc = "idle", !.state = "not_active"]

(* The predicate of m_cond.wait becomes true. *)
Wake ==
    /\ thread.pc = "idle"
    /\ quit \/ context # None
    /\ thread' = LoopTop
    /\ UNCHANGED <<context, enabled, call, quit>>

(* vdma_interrupts_wait returns interrupts of the channels it waits for ... *)
WaitReturnsIrq ==
    /\ thread.pc = "wait"
    /\ enabled = thread.group
    /\ thread' = [thread EXCEPT !.pc = "got", !.result = "irq"]
    /\ UNCHANGED <<context, enabled, call, quit>>

(* ... or an empty list, because of vdma_disable_channels. *)
WaitReturnsEmpty ==
    /\ thread.pc = "wait"
    /\ enabled # thread.group
    /\ thread' = [thread EXCEPT !.pc = "got", !.result = "empty"]
    /\ UNCHANGED <<context, enabled, call, quit>>

(* ... or an error: the thread ends, and does not say so. *)
WaitFails ==
    /\ WaitMayFail
    /\ thread.pc = "wait"
    /\ thread' = [thread EXCEPT !.pc = "exit"]
    /\ UNCHANGED <<context, enabled, call, quit>>

(* With the mutex again, the thread calls process_irq or loops. *)
ProcessIrq ==
    /\ thread.pc = "got"
    /\ thread.result = "irq"
    /\ thread' = [thread EXCEPT !.pc = "process"]
    /\ UNCHANGED <<context, enabled, call, quit>>

NothingToProcess ==
    /\ thread.pc = "got"
    /\ thread.result = "empty"
    /\ thread' = LoopTop
    /\ UNCHANGED <<context, enabled, call, quit>>

(* process_irq returns *)
Processed ==
    /\ thread.pc = "process"
    /\ thread' = LoopTop
    /\ UNCHANGED <<context, enabled, call, quit>>

-----------------------------------------------------------------------------
Owner == (\E g \in Groups : Start(g)) \/ StopBegin \/ StopEnd \/ SignalThreadQuit \/ Joined

InterruptsThread ==
    \/ Wake \/ WaitReturnsIrq \/ WaitReturnsEmpty \/ WaitFails
    \/ ProcessIrq \/ NothingToProcess \/ Processed

DispatcherNext == Owner \/ InterruptsThread

DispatcherSpec == DispatcherInit /\ [][DispatcherNext]_dispatcherVars

-----------------------------------------------------------------------------
(* The variables have their types. *)
DispatcherTypeOK ==
    /\ context \in Groups \cup {None}
    /\ enabled \in Groups \cup {None}
    /\ thread \in Thread
    /\ call \in Call
    /\ quit \in BOOLEAN

(* Once stop has returned the thread is neither in the driver nor in process_irq,
   however the interrupts, the stop and a fast restart interleave: "the next start()
   may accept interrupts from previous run" otherwise. The callers of stop cancel the
   transfers of the channels next, which must not be completed at the same time. *)
QuietAfterStop ==
    /\ context = None /\ call.pc # "stop" => thread.pc \in {"idle", "exit"}
    /\ thread.pc \in {"wait", "got", "process"} =>
          thread.group = IF call.pc = "stop" THEN call.bitmap ELSE context

(* The dispatcher implements the service: a group is open until stop returned. *)
Service == INSTANCE InterruptsService
             WITH open <- IF call.pc = "stop" THEN call.bitmap ELSE context,
                  serving <- IF thread.pc = "process" THEN thread.group ELSE None
ImplementsService == Service!ServiceSpec
=============================================================================
