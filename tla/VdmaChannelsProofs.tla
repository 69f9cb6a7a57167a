------------------------- MODULE VdmaChannelsProofs -------------------------
(***************************************************************************)
(* Proofs about VdmaChannels, for every set of channels and groups, every  *)
(* size of the descriptors list and of the queues.                         *)
(***************************************************************************)
EXTENDS VdmaChannels, InterruptsDispatcherProofs

(* The types of what the switch, the device and the interrupts thread keep. *)
Hw == [state : {"off", "on", "aborted", "told"}, left : Nat, done : Nat]
HandlerType == [pc : {"next", "complete", "callback", "refused", "cancel"},
                todo : SUBSET Channels, count : [Channels -> Nat], dead : SUBSET Channels,
                at : Channels \cup {None}, left : Int]
CtlType == [pc : {"ready", "deactivate", "stop", "set", "start", "activate", "cancel", "gone"},
            current : Groups \cup {None}, next : Groups \cup {None}, todo : SUBSET Channels]
SwitchTypes == hw \in [Channels -> Hw] /\ handler \in HandlerType /\ ctl \in CtlType

(* The switch only starts the dispatcher for a core op. *)
StartsGroup == ctl.pc \in {"start", "activate"} => ctl.next # None

(* Where the switch is, and what it has made of the dispatcher. *)
SwitchInv ==
    /\ ctl.pc \in {"ready", "deactivate"} => context = ctl.current /\ call.pc = "none"
    /\ ctl.pc = "deactivate" => ctl.current # None
    /\ ctl.pc = "stop" => call.pc = "stop" /\ call.bitmap = ctl.current
    /\ ctl.pc \in {"set", "start"} => context = None /\ call.pc = "none"
    /\ ctl.pc \in {"activate", "cancel"} => context = ctl.next /\ call.pc = "none"
    /\ ctl.pc = "gone" => context = None /\ call.pc # "stop"

(* The handler works on channels of the group its thread waited for. *)
HandlerInv ==
    /\ thread.pc # "process" => handler.pc = "next"
    /\ thread.pc = "process" \/ (thread.pc = "got" /\ thread.result = "irq") =>
          handler.todo \subseteq OfGroup(thread.group)
    /\ handler.pc # "next" => handler.at \in OfGroup(thread.group)

(* The channels of the group that is open in the dispatcher are not reset. *)
ResetInv ==
    /\ \A c \in OfGroup(OpenNow) : hw[c].state # "off"
    /\ ctl.pc = "start" => \A c \in OfGroup(ctl.next) : hw[c].state # "off"

ChannelInv == SwitchTypes /\ StartsGroup /\ SwitchInv /\ HandlerInv /\ ResetInv

(* Initially nothing is activated. *)
LEMMA InitChannelInv == Init => DispatcherInv /\ ChannelInv
<1> SUFFICES ASSUME Init PROVE DispatcherInv /\ ChannelInv
  OBVIOUS
<1>1. DispatcherInv
  BY InitDispatcherInv DEF Init
<1>2. SwitchTypes
  BY DEF Init, SwitchTypes, Hw, HandlerType, CtlType
<1>3. StartsGroup /\ SwitchInv /\ HandlerInv
  BY DEF Init, DispatcherInit, StartsGroup, SwitchInv, HandlerInv
<1>4. ResetInv
  BY ChannelsAssumption, NoneAssumption DEF Init, DispatcherInit, ResetInv, OpenNow, OfGroup
<1> QED BY <1>1, <1>2, <1>3, <1>4 DEF ChannelInv

(* The channels use the dispatcher as InterruptsDispatcher says. *)
LEMMA NextIsDispatcherNext == ChannelInv /\ [Next]_vars => [DispatcherNext]_dispatcherVars
<1> SUFFICES ASSUME ChannelInv, [Next]_vars PROVE [DispatcherNext]_dispatcherVars
  OBVIOUS
<1>1. ASSUME NEW c \in Channels,
             \/ LaunchTransfer(c) \/ AddChunk(c) \/ PrepareTransfer(c)
             \/ CancelPreparedTransfers(c) \/ HwTransfer(c) \/ HwAbort(c)
             \/ Handler(c) \/ Deactivate(c) \/ Activate(c) \/ CancelPending(c)
      PROVE  UNCHANGED dispatcherVars
  BY <1>1, Zenon DEF LaunchTransfer, AddChunk, PrepareTransfer, CancelPreparedTransfers, HwTransfer,
              HwAbort, Handler, Deactivate, Activate, CancelPending, BeginAborted,
              BeginCompleted, CompleteChunk, PopCompleted, LaunchPending, LaunchPendingFails,
              PopRefused, EndCompleted, CancelAborted
<1>2. ASSUME Interrupt \/ ThreadStep \/ ThreadFails \/ EndInterrupt PROVE InterruptsThread
  BY <1>2, Zenon DEF Interrupt, ThreadStep, ThreadFails, EndInterrupt, InterruptsThread
<1>3. ASSUME SwitchBegin \/ SetStateMachine \/ ActivateEnd \/ SwitchEnd \/ UNCHANGED vars
      PROVE  UNCHANGED dispatcherVars
  BY <1>3, Zenon DEF SwitchBegin, SetStateMachine, ActivateEnd, SwitchEnd, vars
<1>4. ASSUME StopDispatcher \/ StartDispatcher \/ Destroy PROVE Owner
  BY <1>4 DEF StopDispatcher, StartDispatcher, Destroy, Owner, ChannelInv, StartsGroup,
              SwitchTypes, CtlType
<1> QED
  BY <1>1, <1>2, <1>3, <1>4
  DEF Next, InterruptsThreadStep, Switching, DispatcherNext

(* No channel is reset. *)
HwKept == /\ hw' \in [Channels -> Hw]
          /\ \A d \in Channels : hw'[d].state = "off" => hw[d].state = "off"

(* The users of the channels and the device: no channel is reset. *)
LEMMA ChannelsPreserve ==
    ASSUME ChannelInv, NEW c \in Channels,
           \/ LaunchTransfer(c) \/ AddChunk(c) \/ PrepareTransfer(c)
           \/ CancelPreparedTransfers(c) \/ HwTransfer(c) \/ HwAbort(c)
    PROVE  ChannelInv'
<1>1. UNCHANGED <<dispatcherVars, handler, ctl>>
  BY DEF LaunchTransfer, AddChunk, PrepareTransfer, CancelPreparedTransfers, HwTransfer,
         HwAbort
<1>2. HwKept
  <2>1. hw \in [Channels -> Hw]
    BY DEF ChannelInv, SwitchTypes
  <2>2. CASE AddChunk(c)
    <3>1. hw' = hw \/ hw' = [hw EXCEPT ![c].left = @ + 1]
      BY <2>2 DEF AddChunk
    <3> QED BY <2>1, <3>1 DEF HwKept, Hw
  <2>3. CASE HwTransfer(c)
    BY <2>1, <2>3 DEF HwTransfer, HwKept, Hw
  <2>4. CASE HwAbort(c)
    BY <2>1, <2>4 DEF HwAbort, HwKept, Hw
  <2>5. CASE LaunchTransfer(c) \/ PrepareTransfer(c) \/ CancelPreparedTransfers(c)
    BY <2>1, <2>5 DEF LaunchTransfer, PrepareTransfer, CancelPreparedTransfers, HwKept
  <2> QED BY <2>2, <2>3, <2>4, <2>5
<1>3. SwitchTypes' /\ StartsGroup' /\ SwitchInv' /\ HandlerInv'
  BY <1>1, <1>2
  DEF ChannelInv, SwitchTypes, StartsGroup, SwitchInv, HandlerInv, HwKept, dispatcherVars
<1>4. ResetInv'
  BY <1>1, <1>2 DEF ChannelInv, ResetInv, HwKept, OpenNow, OfGroup, dispatcherVars
<1> QED BY <1>3, <1>4 DEF ChannelInv

(* The handler on the interrupts thread goes through the channels of its interrupt. *)
LEMMA HandlerPreserves ==
    ASSUME ChannelInv, NEW c \in Channels, Handler(c)
    PROVE  ChannelInv'
<1> USE DEF Handling
<1>t. hw \in [Channels -> Hw] /\ handler \in HandlerType /\ HandlerInv
  BY DEF ChannelInv, SwitchTypes
<1>1. UNCHANGED <<dispatcherVars, ctl>> /\ thread.pc = "process"
  BY DEF Handler, BeginAborted, BeginCompleted, CompleteChunk, PopCompleted,
         LaunchPending, LaunchPendingFails, PopRefused, EndCompleted, CancelAborted
<1>2. HwKept
  <2>1. hw' = hw \/ hw' = [hw EXCEPT ![c].left = @ + 1]
    BY DEF Handler, BeginAborted, BeginCompleted, CompleteChunk, PopCompleted,
           LaunchPending, LaunchPendingFails, PopRefused, EndCompleted, CancelAborted
  <2> QED BY <1>t, <2>1 DEF HwKept, Hw
<1>3. \/ UNCHANGED handler
      \/ handler' = NextChannel(c)
      \/ c \in handler.todo /\ handler' = [handler EXCEPT !.pc = "cancel", !.at = c]
      \/ /\ c \in handler.todo
         /\ handler' = [handler EXCEPT !.pc = "complete", !.at = c, !.left = handler.count[c],
                                       !.count[c] = 0]
      \/ /\ handler.pc # "next"
         /\ \E pc \in {"callback", "refused", "complete"} : handler' = [handler EXCEPT !.pc = pc]
      \/ handler.pc # "next" /\ handler' = [handler EXCEPT !.pc = "complete", !.left = @ - 1]
  BY DEF Handler, BeginAborted, BeginCompleted, CompleteChunk, PopCompleted,
         LaunchPending, LaunchPendingFails, PopRefused, EndCompleted, CancelAborted
<1>4. handler' \in HandlerType /\ HandlerInv'
  <2>1. CASE UNCHANGED handler
    BY <2>1, <1>t, <1>1 DEF HandlerType, HandlerInv, dispatcherVars
  <2>2. CASE handler' = NextChannel(c)
    <3>1. /\ handler'.pc = "next" /\ handler'.todo = handler.todo \ {c} /\ handler'.at = None
          /\ handler'.left = 0 /\ handler'.dead = handler.dead \ {c}
          /\ handler'.count = [handler.count EXCEPT ![c] = 0]
          /\ handler' = [pc |-> handler'.pc, todo |-> handler'.todo, count |-> handler'.count,
                         dead |-> handler'.dead, at |-> handler'.at, left |-> handler'.left]
      BY <1>t, <2>2, Zenon DEF NextChannel, HandlerType
    <3> QED BY <3>1, <1>t, <1>1 DEF HandlerType, HandlerInv, dispatcherVars
  <2>3. CASE c \in handler.todo /\ handler' = [handler EXCEPT !.pc = "cancel", !.at = c]
    BY <2>3, <1>t, <1>1, Zenon DEF HandlerType, HandlerInv, dispatcherVars
  <2>4. CASE /\ c \in handler.todo
             /\ handler' = [handler EXCEPT !.pc = "complete", !.at = c, !.left = handler.count[c],
                                           !.count[c] = 0]
    <3>1. /\ handler'.pc = "complete" /\ handler'.todo = handler.todo /\ handler'.at = c
          /\ handler'.left = handler.count[c] /\ handler'.dead = handler.dead
          /\ handler'.count = [handler.count EXCEPT ![c] = 0]
          /\ handler' = [pc |-> handler'.pc, todo |-> handler'.todo, count |-> handler'.count,
                         dead |-> handler'.dead, at |-> handler'.at, left |-> handler'.left]
      BY <1>t, <2>4, Zenon DEF HandlerType
    <3> QED BY <2>4, <3>1, <1>t, <1>1 DEF HandlerType, HandlerInv, dispatcherVars
  <2>5. CASE /\ handler.pc # "next"
             /\ \E pc \in {"callback", "refused", "complete"} : handler' = [handler EXCEPT !.pc = pc]
    BY <2>5, <1>t, <1>1 DEF HandlerType, HandlerInv, dispatcherVars
  <2>6. CASE handler.pc # "next" /\ handler' = [handler EXCEPT !.pc = "complete", !.left = @ - 1]
    <3>0. handler.left \in Int /\ handler.left - 1 \in Int
      BY <1>t DEF HandlerType
    <3> DEFINE left == handler.left - 1
    <3>1. handler' \in HandlerType
      <4>1. handler' = [handler EXCEPT !.pc = "complete", !.left = left]
        BY <2>6, <1>t DEF HandlerType
      <4> HIDE DEF left
      <4>2. left \in Int
        BY <3>0 DEF left
      <4> QED BY <4>1, <4>2, <1>t, Zenon DEF HandlerType
    <3>2. handler'.pc = "complete" /\ handler'.todo = handler.todo /\ handler'.at = handler.at
      BY <2>6, <1>t DEF HandlerType
    <3> QED BY <2>6, <3>1, <3>2, <1>t, <1>1 DEF HandlerInv, dispatcherVars
  <2> QED BY <1>3, <2>1, <2>2, <2>3, <2>4, <2>5, <2>6
<1>5. SwitchTypes' /\ StartsGroup' /\ SwitchInv'
  BY <1>1, <1>2, <1>4 DEF ChannelInv, SwitchTypes, StartsGroup, SwitchInv, HwKept, dispatcherVars
<1>6. ResetInv'
  BY <1>1, <1>2 DEF ChannelInv, ResetInv, HwKept, OpenNow, OfGroup, dispatcherVars
<1> QED BY <1>4, <1>5, <1>6 DEF ChannelInv
(* The other steps of the interrupts thread. *)
LEMMA ThreadKeepsChannels ==
    ASSUME DispatcherInv, ChannelInv, Interrupt \/ ThreadStep \/ ThreadFails \/ EndInterrupt
    PROVE  ChannelInv'
<1> USE DEF dispatcherVars, channelVars
<1>t. thread \in Thread /\ hw \in [Channels -> Hw] /\ handler \in HandlerType
  BY DEF DispatcherInv, DispatcherTypeOK, ChannelInv, SwitchTypes
<1>1. UNCHANGED <<context, call, ctl>>
  BY Zenon DEF Interrupt, ThreadStep, ThreadFails, EndInterrupt, WaitReturnsIrq, Wake,
         WaitReturnsEmpty, WaitFails, ProcessIrq, NothingToProcess, Processed
<1>2. HwKept /\ handler' \in HandlerType /\ HandlerInv'
  <2>1. CASE Interrupt
    <3> DEFINE dead == {c \in OfGroup(thread.group) : hw[c].state = "aborted"}
               completed == {c \in OfGroup(thread.group) : hw[c].done > 0}
               count == [c \in Channels |-> IF c \in completed THEN hw[c].done ELSE 0]
    <3>1. /\ thread.pc = "wait" /\ thread' = [thread EXCEPT !.pc = "got", !.result = "irq"]
          /\ handler' = [handler EXCEPT !.todo = dead \cup completed, !.dead = dead,
                                        !.count = count]
          /\ hw' = [c \in Channels |->
                       [hw[c] EXCEPT !.done = IF c \in completed THEN 0 ELSE @,
                                     !.state = IF c \in dead THEN "told" ELSE @]]
      BY <2>1, Zenon DEF Interrupt, WaitReturnsIrq
    <3>2. dead \subseteq OfGroup(thread.group) /\ completed \subseteq OfGroup(thread.group)
          /\ OfGroup(thread.group) \subseteq Channels /\ count \in [Channels -> Nat]
      BY <1>t DEF OfGroup, Hw
    <3> HIDE DEF dead, completed, count
    <3>3. HwKept
      BY <3>1, <1>t, Zenon DEF HwKept, Hw
    <3>4. handler.pc = "next"
      BY <3>1, Zenon DEF ChannelInv, HandlerInv
    <3> QED BY <3>1, <3>2, <3>3, <3>4, <1>t, Zenon DEF HandlerType, HandlerInv, Thread
  <2>2. CASE UNCHANGED <<hw, handler>> /\ thread' = LoopTop /\ handler.pc = "next"
    BY <2>2, <1>t, LoopTopAgrees DEF HwKept, HandlerInv
  <2>3. CASE ~Interrupt /\ UNCHANGED <<hw, handler>> /\ thread.pc # "process"
             /\ thread' # LoopTop
    <3>1. \/ thread' = [thread EXCEPT !.pc = "got", !.result = "empty"]
          \/ thread' = [thread EXCEPT !.pc = "exit"]
          \/ /\ thread.pc = "got" /\ thread.result = "irq"
             /\ thread' = [thread EXCEPT !.pc = "process"]
      BY <2>3 DEF ThreadStep, ThreadFails, EndInterrupt, WaitReturnsEmpty, WaitFails,
                        ProcessIrq, NothingToProcess, Processed, Wake
    <3> QED BY <2>3, <3>1, <1>t, Zenon DEF HwKept, HandlerInv, Thread, ChannelInv
  <2> QED
    BY <2>1, <2>2, <2>3
    DEF ThreadStep, ThreadFails, EndInterrupt, Handling, WaitReturnsEmpty, WaitFails, ProcessIrq,
        NothingToProcess, Processed, Wake, HandlerInv, ChannelInv
<1>3. SwitchTypes' /\ StartsGroup' /\ SwitchInv'
  BY <1>1, <1>2 DEF ChannelInv, SwitchTypes, StartsGroup, SwitchInv, HwKept
<1>4. ResetInv'
  BY <1>1, <1>2 DEF ChannelInv, ResetInv, HwKept, OpenNow, OfGroup
<1> QED BY <1>2, <1>3, <1>4 DEF ChannelInv
(* The steps of the switch: it resets channels while the dispatcher is stopped. *)
LEMMA SwitchPreserves ==
    ASSUME DispatcherInv, ChannelInv,
           SwitchBegin \/ Destroy \/ StopDispatcher \/ SetStateMachine \/ StartDispatcher
             \/ ActivateEnd \/ SwitchEnd
             \/ \E c \in Channels : Deactivate(c) \/ Activate(c) \/ CancelPending(c)
    PROVE  ChannelInv'
<1> USE DEF dispatcherVars, channelVars
<1>t. /\ call \in Call /\ thread \in Thread /\ context \in Groups \cup {None}
      /\ hw \in [Channels -> Hw] /\ handler \in HandlerType /\ ctl \in CtlType
  BY DEF DispatcherInv, DispatcherTypeOK, ChannelInv, SwitchTypes
<1>n. OfGroup(None) = {}
  BY ChannelsAssumption, NoneAssumption DEF OfGroup
<1>h. UNCHANGED <<thread, handler>>
  BY Zenon DEF SwitchBegin, Destroy, StopDispatcher, SetStateMachine, StartDispatcher, ActivateEnd,
         SwitchEnd, Deactivate, Activate, CancelPending, SignalThreadQuit, Joined, StopBegin,
         StopEnd, Start
<1>1. HandlerInv'
  BY <1>h DEF ChannelInv, HandlerInv
<1> SUFFICES SwitchTypes' /\ StartsGroup' /\ SwitchInv' /\ ResetInv'
  BY <1>1 DEF ChannelInv
<1> USE <1>t, <1>n, <1>h, NoneAssumption
    DEF ChannelInv, SwitchTypes, CtlType, StartsGroup, SwitchInv, ResetInv, OpenNow
<1>2. CASE SwitchBegin
  BY <1>2, ZenonT(40) DEF SwitchBegin, OfGroup
<1>3. CASE Destroy
  BY <1>3 DEF Destroy, SignalThreadQuit, Joined, Call
<1>4. CASE StopDispatcher
  BY <1>4 DEF StopDispatcher, StopBegin, StopEnd, Call, DispatcherInv, StateInv
<1>5. CASE SetStateMachine
  BY <1>5, Zenon DEF SetStateMachine, OfGroup, Hw
<1>6. CASE StartDispatcher
  BY <1>6, Zenon DEF StartDispatcher, Start, OfGroup
<1>7. CASE ActivateEnd
  BY <1>7, Zenon DEF ActivateEnd, OfGroup
<1>8. CASE SwitchEnd
  BY <1>8, Zenon DEF SwitchEnd
<1>9. ASSUME NEW c \in Channels, Deactivate(c) \/ Activate(c) \/ CancelPending(c)
      PROVE  SwitchTypes' /\ StartsGroup' /\ SwitchInv' /\ ResetInv'
  BY <1>9 DEF Deactivate, Activate, CancelPending
<1> QED BY <1>2, <1>3, <1>4, <1>5, <1>6, <1>7, <1>8, <1>9, Zenon

(* The invariant holds in every reachable state. *)
THEOREM ChannelsInductive == Spec => [](DispatcherInv /\ ChannelInv)
<1>1. DispatcherInv /\ ChannelInv /\ [Next]_vars => ChannelInv'
  <2> SUFFICES ASSUME DispatcherInv, ChannelInv, [Next]_vars PROVE ChannelInv'
    OBVIOUS
  <2>1. CASE UNCHANGED vars
    BY <2>1 DEF vars, dispatcherVars, channelVars, ChannelInv, SwitchTypes, StartsGroup,
                SwitchInv, HandlerInv, ResetInv, OpenNow
  <2> QED
    BY <2>1, ChannelsPreserve, HandlerPreserves, ThreadKeepsChannels, SwitchPreserves
    DEF Next, InterruptsThreadStep, Switching
<1>2. DispatcherInv /\ ChannelInv /\ [Next]_vars => DispatcherInv'
  <2>1. DispatcherInv /\ UNCHANGED dispatcherVars => DispatcherInv'
    BY DEF DispatcherInv, DispatcherTypeOK, StateInv, QuietAfterStop, dispatcherVars
  <2> QED BY <2>1, NextIsDispatcherNext, OwnerPreserves, ThreadPreserves DEF DispatcherNext
<1> QED BY <1>1, <1>2, InitChannelInv, PTL DEF Spec

(* The interrupts thread is quiet once stop has returned, whatever the channels do. *)
THEOREM SwitchIsQuiet == Spec => []QuietAfterStop
  BY ChannelsInductive, PTL DEF DispatcherInv

(* No chunk is launched on a channel the firmware has reset: the interrupts thread
   handles only channels of the group that is open, and set_state_machine resets the
   channels of a group that has been stopped. *)
THEOREM NoLaunchAfterReset == Spec => []LaunchesBeforeReset
<1>1. DispatcherInv /\ ChannelInv => LaunchesBeforeReset
  <2> SUFFICES ASSUME DispatcherInv, ChannelInv, NEW c \in Channels, HandlerHolds(c)
               PROVE  hw[c].state # "off"
    BY DEF LaunchesBeforeReset
  <2>1. c \in OfGroup(thread.group)
    BY DEF HandlerHolds, ChannelInv, HandlerInv
  <2>2. thread.group = OpenNow
    BY DEF HandlerHolds, DispatcherInv, QuietAfterStop, OpenNow
  <2> QED BY <2>1, <2>2 DEF ChannelInv, ResetInv
<1> QED BY <1>1, ChannelsInductive, PTL

(* The composed system implements the service of the dispatcher. *)
THEOREM ChannelsRefine == Spec => ImplementsService
<1>1. Init => Service!ServiceInit
  BY DEF Init, DispatcherInit, Service!ServiceInit
<1> QED
  BY <1>1, ChannelsInductive, NextIsDispatcherNext, StepRefines, PTL
  DEF Spec, ImplementsService, Service!ServiceSpec
=============================================================================
