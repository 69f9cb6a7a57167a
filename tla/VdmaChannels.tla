---------------------------- MODULE VdmaChannels ----------------------------
(***************************************************************************)
(* BoundaryChannel (vdma/channel/boundary_channel.cpp) below the threads   *)
(* that use it: those that launch transfers, the interrupts thread with    *)
(* complete_transfers, and the one that switches core ops (or activates    *)
(* and deactivates one, or closes a PcieSession, which go the same way).   *)
(*                                                                         *)
(* A critical section of BoundaryChannel::m_mutex without a loop is one    *)
(* step; Locked is true while a longer one is in progress.                 *)
(***************************************************************************)
EXTENDS InterruptsDispatcher, Sequences, FiniteSets, SequencesExt

CONSTANTS
    Channels,       \* the boundary channels
    GroupOf,        \* core op (or session) of each channel
    DescCount,      \* m_desc_list.count()
    PendingSize,    \* capacity of m_pending
    OngoingSize,    \* capacity of m_ongoing
    Splits,         \* num_descs of the chunks TransferSplitter makes of a request
    Failures,       \* what may fail: "launch" in the driver, "abort" of a channel
    Modes,          \* "scheduled": the thread that switches also launches;
                    \* "direct": other threads launch while it deactivates
    MaxTransfers    \* bound: transfers of each channel not called back

ASSUME ChannelsAssumption ==
    /\ None \notin Channels
    /\ GroupOf \in [Channels -> Groups]
    /\ DescCount \in Nat \ {0}
    /\ PendingSize \in Nat \ {0}
    /\ OngoingSize \in Nat \ {0}
    /\ Splits \subseteq Seq(1..(DescCount - 1)) \ {<<>>}
    /\ Failures \subseteq {"launch", "abort"}
    /\ Modes \subseteq {"scheduled", "direct"}

VARIABLES
    ch,         \* BoundaryChannel: active, free, pending, ongoing,
                \*   todo      chunks launch_transfer has yet to add
                \*   out       transfers accepted and not called back, oldest first
    hw,         \* the vDMA channel in the device: state ("told" when the driver has
                \*   reported that it is aborted),
                \*   left      chunks launched and not transferred
                \*   done      chunks transferred and not reported
    handler,    \* complete_transfers on the interrupts thread: pc,
                \*   todo      channels of the interrupt still to be handled
                \*   count     transfers_completed of each
                \*   dead      those reported as not active
                \*   at, left  the channel it is at, completions left
    ctl,        \* switch_core_op: pc, current, next, todo (channels of a loop)
    mode

channelVars == <<ch, hw, handler, ctl, mode>>
vars == <<dispatcherVars, channelVars>>

Elements(s) == {s[i] : i \in DOMAIN s}
Without(s, t) == SelectSeq(s, LAMBDA x : x # t)
OfGroup(g) == {c \in Channels : GroupOf[c] = g}

(* TransferChunk: t is the transfer its callback reports, 0 when it is not the
   last chunk of the transfer. *)
Chunk == [t : Nat, descs : Nat]

Init ==
    /\ DispatcherInit
    /\ ch = [c \in Channels |-> [active |-> FALSE, free |-> DescCount, pending |-> <<>>,
                                 ongoing |-> <<>>, todo |-> <<>>, out |-> <<>>]]
    /\ hw = [c \in Channels |-> [state |-> "off", left |-> 0, done |-> 0]]
    /\ handler = [pc |-> "next", todo |-> {}, count |-> [c \in Channels |-> 0], dead |-> {},
                  at |-> None, left |-> 0]
    /\ ctl = [pc |-> "ready", current |-> None, next |-> None, todo |-> {}]
    /\ mode \in Modes

(* m_mutex of channel c is held between two steps. *)
HandlerHolds(c) == thread.pc = "process" /\ handler.pc = "complete" /\ handler.at = c
Locked(c) == ch[c].todo # <<>> \/ HandlerHolds(c)

(* The callback of chunk x is called: nothing, unless it is a last chunk. *)
CalledBack(s, x) == [s EXCEPT !.out = Without(@, x.t)]

-----------------------------------------------------------------------------
(* launch_transfer *)

(* The transfer gets the first name not in use. *)
NewTransfer(c) ==
    CHOOSE t \in 1..MaxTransfers[c] : t \notin Elements(ch[c].out)
                                   /\ 1..(t - 1) \subseteq Elements(ch[c].out)

(* Who may call launch_transfer. *)
MayLaunch(c) ==
    mode = "scheduled" => ctl.pc = "ready" /\ ctl.current = GroupOf[c]

(* The lock, the check of m_is_activated and the split. *)
LaunchTransfer(c) ==
    /\ MayLaunch(c)
    /\ ~Locked(c)
    /\ ch[c].active
    /\ Len(ch[c].out) < MaxTransfers[c]
    /\ \E split \in Splits :
          ch' = [ch EXCEPT ![c].todo =
                   [i \in 1..Len(split) |-> [t |-> IF i = Len(split) THEN NewTransfer(c) ELSE 0,
                                             descs |-> split[i]]]]
    /\ UNCHANGED <<dispatcherVars, hw, handler, ctl, mode>>

(* The condition for a chunk to wait its turn, and a version that does not look at
   the chunks already waiting. *)
WaitsForRoom(s, x) == x.descs >= s.free \/ Len(s.ongoing) = OngoingSize
MustWait(s, x) == s.pending # <<>> \/ x.descs >= s.free \/ Len(s.ongoing) = OngoingSize

(* The chunk is added: after the last one the transfer is accepted. *)
Added(s) ==
    LET x == Head(s.todo)
    IN [s EXCEPT !.todo = Tail(@), !.out = IF x.t = 0 THEN @ ELSE Append(@, x.t)]

(* The driver refuses to launch on a channel that is aborted (HAILO_STREAM_ABORT), and
   for reasons of its own. *)
DriverRefuses(c) == hw[c].state # "on" \/ "launch" \in Failures

(* One iteration of the loop of launch_transfer. *)
AddChunk(c) ==
    /\ ch[c].todo # <<>>
    /\ LET x == Head(ch[c].todo)
           rejected == [ch[c] EXCEPT !.todo = <<>>]
           pending == [Added(ch[c]) EXCEPT !.pending = Append(@, x)]
           launched == [Added(ch[c]) EXCEPT !.ongoing = Append(@, x), !.free = @ - x.descs]
       IN \/ /\ MustWait(ch[c], x)
             /\ ch' = [ch EXCEPT ![c] = IF Len(ch[c].pending) = PendingSize THEN rejected
                                        ELSE pending]
             /\ UNCHANGED hw
          \/ /\ ~MustWait(ch[c], x)
             /\ hw[c].state = "on"
             /\ ch' = [ch EXCEPT ![c] = launched]
             /\ hw' = [hw EXCEPT ![c].left = @ + 1]
          \/ /\ ~MustWait(ch[c], x)
             /\ DriverRefuses(c)
             /\ ch' = [ch EXCEPT ![c] = rejected]
             /\ UNCHANGED hw
    /\ UNCHANGED <<dispatcherVars, handler, ctl, mode>>

-----------------------------------------------------------------------------
(* prepare_transfer and cancel_prepared_transfers, called for core ops that no device
   runs: the scheduler's preparing thread and shutdown_core_op. *)

NotRunning(c) == mode = "scheduled" /\ GroupOf[c] \notin {ctl.current, ctl.next}

PrepareTransfer(c) ==
    /\ NotRunning(c)
    /\ ~ch[c].active
    /\ \E total \in 1..(ch[c].free - 1) : ch' = [ch EXCEPT ![c].free = @ - total]
    /\ UNCHANGED <<dispatcherVars, hw, handler, ctl, mode>>

CancelPreparedTransfers(c) ==
    /\ NotRunning(c)
    /\ ch' = [ch EXCEPT ![c].free = DescCount]
    /\ UNCHANGED <<dispatcherVars, hw, handler, ctl, mode>>

-----------------------------------------------------------------------------
(* The device, and the interrupts it raises. *)

(* A chunk has been transferred. *)
HwTransfer(c) ==
    /\ hw[c].state = "on"
    /\ hw[c].left > 0
    /\ hw' = [hw EXCEPT ![c].left = @ - 1, ![c].done = @ + 1]
    /\ UNCHANGED <<dispatcherVars, ch, handler, ctl, mode>>

(* The channel is aborted by the other side. *)
HwAbort(c) ==
    /\ "abort" \in Failures
    /\ hw[c].state = "on"
    /\ hw' = [hw EXCEPT ![c].state = "aborted"]
    /\ UNCHANGED <<dispatcherVars, ch, handler, ctl, mode>>

(* vdma_interrupts_wait returns what happened since it returned last. *)
Interrupt ==
    /\ WaitReturnsIrq
    /\ LET dead == {c \in OfGroup(thread.group) : hw[c].state = "aborted"}
           completed == {c \in OfGroup(thread.group) : hw[c].done > 0}
       IN /\ dead \cup completed # {}
          /\ handler' = [handler EXCEPT !.todo = dead \cup completed, !.dead = dead,
                                        !.count = [c \in Channels |->
                                                     IF c \in completed THEN hw[c].done ELSE 0]]
          /\ hw' = [c \in Channels |->
                       [hw[c] EXCEPT !.done = IF c \in completed THEN 0 ELSE @,
                                     !.state = IF c \in dead THEN "told" ELSE @]]
    /\ UNCHANGED <<ch, ctl, mode>>

ThreadStep ==
    /\ Wake \/ WaitReturnsEmpty \/ ProcessIrq \/ NothingToProcess
    /\ UNCHANGED channelVars

ThreadFails ==
    /\ WaitFails
    /\ UNCHANGED channelVars

-----------------------------------------------------------------------------
(* ChannelsGroup::process_interrupts and complete_transfers. *)

Handling(pc) == thread.pc = "process" /\ handler.pc = pc

(* The channel of the handler is finished with. *)
NextChannel(c) ==
    [handler EXCEPT !.pc = "next", !.todo = @ \ {c}, !.at = None, !.left = 0,
                    !.count[c] = 0, !.dead = @ \ {c}]

(* complete_transfers with an error deactivates the channel first. *)
BeginAborted(c) ==
    /\ Handling("next")
    /\ c \in handler.todo \cap handler.dead
    /\ ~Locked(c)
    /\ ch' = [ch EXCEPT ![c].active = FALSE]
    /\ handler' = [handler EXCEPT !.pc = "cancel", !.at = c]
    /\ UNCHANGED <<dispatcherVars, hw, ctl, mode>>

(* The checks of complete_transfers. *)
BeginCompleted(c) ==
    /\ Handling("next")
    /\ c \in handler.todo \ handler.dead
    /\ ~Locked(c)
    /\ handler' = IF ch[c].active /\ handler.count[c] <= Len(ch[c].ongoing)
                  THEN [handler EXCEPT !.pc = "complete", !.at = c, !.left = handler.count[c],
                                       !.count[c] = 0]
                  ELSE NextChannel(c)
    /\ UNCHANGED <<dispatcherVars, ch, hw, ctl, mode>>

(* The first loop: the descriptors are freed and, without the lock, the callback is
   called; the chunk is still the first of m_ongoing. *)
CompleteChunk(c) ==
    /\ Handling("complete")
    /\ c = handler.at
    /\ handler.left > 0
    /\ LET x == Head(ch[c].ongoing)
       IN ch' = [ch EXCEPT ![c] = [CalledBack(ch[c], x) EXCEPT !.free = @ + x.descs]]
    /\ handler' = [handler EXCEPT !.pc = "callback"]
    /\ UNCHANGED <<dispatcherVars, hw, ctl, mode>>

(* The callback returned and the lock is taken again. *)
PopCompleted(c) ==
    /\ Handling("callback")
    /\ c = handler.at
    /\ ~Locked(c)
    /\ ch' = [ch EXCEPT ![c].ongoing = Tail(@)]
    /\ handler' = [handler EXCEPT !.pc = "complete", !.left = @ - 1]
    /\ UNCHANGED <<dispatcherVars, hw, ctl, mode>>

(* The conditions of the second loop; a version that lets the last descriptor go and
   one that leaves the last chunk waiting. *)
TakesLastDescriptor(s) ==
    /\ s.pending # <<>>
    /\ Len(s.ongoing) < OngoingSize
    /\ s.free >= Head(s.pending).descs
KeepsLastWaiting(s) ==
    /\ s.pending # <<>>
    /\ Len(s.ongoing) < OngoingSize
    /\ s.free > Head(s.pending).descs
    /\ Len(s.pending) > 1
CanLaunchPending(s) ==
    /\ s.pending # <<>>
    /\ Len(s.ongoing) < OngoingSize
    /\ s.free > Head(s.pending).descs

(* The second loop launches the chunks that waited ... *)
LaunchPending(c) ==
    /\ Handling("complete")
    /\ c = handler.at
    /\ handler.left = 0
    /\ CanLaunchPending(ch[c])
    /\ hw[c].state = "on"
    /\ LET x == Head(ch[c].pending)
       IN ch' = [ch EXCEPT ![c].pending = Tail(@), ![c].ongoing = Append(@, x),
                           ![c].free = @ - x.descs]
    /\ hw' = [hw EXCEPT ![c].left = @ + 1]
    /\ UNCHANGED <<dispatcherVars, handler, ctl, mode>>

(* ... and calls the callback of one the driver refuses, without the lock. *)
LaunchPendingFails(c) ==
    /\ DriverRefuses(c)
    /\ Handling("complete")
    /\ c = handler.at
    /\ handler.left = 0
    /\ CanLaunchPending(ch[c])
    /\ ch' = [ch EXCEPT ![c] = CalledBack(@, Head(ch[c].pending))]
    /\ handler' = [handler EXCEPT !.pc = "refused"]
    /\ UNCHANGED <<dispatcherVars, hw, ctl, mode>>

PopRefused(c) ==
    /\ Handling("refused")
    /\ c = handler.at
    /\ ~Locked(c)
    /\ ch' = [ch EXCEPT ![c].pending = Tail(@)]
    /\ handler' = [handler EXCEPT !.pc = "complete"]
    /\ UNCHANGED <<dispatcherVars, hw, ctl, mode>>

EndCompleted(c) ==
    /\ Handling("complete")
    /\ c = handler.at
    /\ handler.left = 0
    /\ ~CanLaunchPending(ch[c])
    /\ handler' = NextChannel(c)
    /\ UNCHANGED <<dispatcherVars, ch, hw, ctl, mode>>

(* cancel_pending_transfers: each chunk is removed and then called back; after the
   last one all descriptors are free. A version stops after m_ongoing. *)
CancelOne(s) ==
    LET x == Head(s.ongoing \o s.pending)
    IN CalledBack(IF s.ongoing # <<>> THEN [s EXCEPT !.ongoing = Tail(@)]
                  ELSE [s EXCEPT !.pending = Tail(@)], x)
OngoingCancelled(s) == s.ongoing = <<>>
Cancelled(s) == s.ongoing = <<>> /\ s.pending = <<>>

(* The cancellation of complete_transfers. *)
CancelAborted(c) ==
    /\ Handling("cancel")
    /\ c = handler.at
    /\ ~Locked(c)
    /\ IF Cancelled(ch[c])
       THEN /\ ch' = [ch EXCEPT ![c].free = DescCount]
            /\ handler' = NextChannel(c)
       ELSE /\ ch' = [ch EXCEPT ![c] = CancelOne(@)]
            /\ UNCHANGED handler
    /\ UNCHANGED <<dispatcherVars, hw, ctl, mode>>

EndInterrupt ==
    /\ Handling("next")
    /\ handler.todo = {}
    /\ Processed
    /\ UNCHANGED channelVars

-----------------------------------------------------------------------------
(* VdmaConfigManager::switch_core_op from current to next; with next = None this is
   also VdmaConfigCoreOp::deactivate_impl and PcieSession::close, with current = None
   activate_impl and PcieSession::create. *)

(* No request of the current core op is on the device, as switch_core_op of the
   scheduler asserts. *)
CurrentIsIdle == \A c \in OfGroup(ctl.current) : ch[c].out = <<>>

MaySwitch(next) ==
    IF mode = "scheduled"
    THEN /\ \A c \in Channels : ch[c].todo = <<>>
         /\ ctl.current # None /\ next # None => CurrentIsIdle
    ELSE ctl.current = None \/ next = None

SwitchBegin ==
    /\ ctl.pc = "ready"
    /\ \E next \in Groups \cup {None} :
          /\ ctl.current # None \/ next # None
          /\ MaySwitch(next)
          /\ ctl' = [ctl EXCEPT !.next = next, !.todo = OfGroup(ctl.current),
                                !.pc = IF ctl.current = None THEN "set" ELSE "deactivate"]
    /\ UNCHANGED <<dispatcherVars, ch, hw, handler, mode>>

(* deactivate_low_level_streams *)
Deactivate(c) ==
    /\ ctl.pc = "deactivate"
    /\ c \in ctl.todo
    /\ ~Locked(c)
    /\ ch' = [ch EXCEPT ![c].active = FALSE]
    /\ ctl' = [ctl EXCEPT !.todo = @ \ {c}]
    /\ UNCHANGED <<dispatcherVars, hw, handler, mode>>

(* stop_vdma_interrupts_dispatcher, and a version that forgets it *)
SkipsStop ==
    /\ ctl.pc = "deactivate" /\ ctl.todo = {}
    /\ ctl' = [ctl EXCEPT !.pc = "set"]
    /\ UNCHANGED <<dispatcherVars, ch, hw, handler, mode>>
StopDispatcher ==
    \/ /\ ctl.pc = "deactivate" /\ ctl.todo = {}
       /\ StopBegin
       /\ ctl' = [ctl EXCEPT !.pc = "stop"]
       /\ UNCHANGED <<ch, hw, handler, mode>>
    \/ /\ ctl.pc = "stop"
       /\ StopEnd
       /\ ctl' = [ctl EXCEPT !.pc = "set"]
       /\ UNCHANGED <<ch, hw, handler, mode>>

(* set_state_machine: the firmware resets the channels of current and enables those of
   next. *)
SetStateMachine ==
    /\ ctl.pc = "set"
    /\ hw' = [c \in Channels |->
                CASE GroupOf[c] = ctl.next -> [state |-> "on", left |-> 0, done |-> 0]
                  [] GroupOf[c] = ctl.current /\ ctl.current # ctl.next ->
                        [state |-> "off", left |-> 0, done |-> 0]
                  [] OTHER -> hw[c]]
    /\ ctl' = IF ctl.next = None THEN [ctl EXCEPT !.pc = "cancel", !.todo = OfGroup(ctl.current)]
              ELSE [ctl EXCEPT !.pc = "start"]
    /\ UNCHANGED <<dispatcherVars, ch, handler, mode>>

(* activate_host_resources of next *)
StartDispatcher ==
    /\ ctl.pc = "start"
    /\ Start(ctl.next)
    /\ ctl' = [ctl EXCEPT !.pc = "activate", !.todo = OfGroup(ctl.next)]
    /\ UNCHANGED <<ch, hw, handler, mode>>

(* activate gives the channel all its descriptors. *)
Activated(s) == [s EXCEPT !.active = TRUE, !.free = DescCount]

Activate(c) ==
    /\ ctl.pc = "activate"
    /\ c \in ctl.todo
    /\ ~Locked(c)
    /\ ch' = [ch EXCEPT ![c] = Activated(@)]
    /\ ctl' = [ctl EXCEPT !.todo = @ \ {c}]
    /\ UNCHANGED <<dispatcherVars, hw, handler, mode>>

ActivateEnd ==
    /\ ctl.pc = "activate"
    /\ ctl.todo = {}
    /\ ctl' = [ctl EXCEPT !.pc = "cancel", !.todo = OfGroup(ctl.current)]
    /\ UNCHANGED <<dispatcherVars, ch, hw, handler, mode>>

(* cancel_pending_transfers of current *)
CancelPending(c) ==
    /\ ctl.pc = "cancel"
    /\ c \in ctl.todo
    /\ ~Locked(c)
    /\ IF Cancelled(ch[c])
       THEN /\ ch' = [ch EXCEPT ![c].free = DescCount]
            /\ ctl' = [ctl EXCEPT !.todo = @ \ {c}]
       ELSE /\ ch' = [ch EXCEPT ![c] = CancelOne(@)]
            /\ UNCHANGED ctl
    /\ UNCHANGED <<dispatcherVars, hw, handler, mode>>

SwitchEnd ==
    /\ ctl.pc = "cancel"
    /\ ctl.todo = {}
    /\ ctl' = [ctl EXCEPT !.pc = "ready", !.current = ctl.next, !.next = None]
    /\ UNCHANGED <<dispatcherVars, ch, hw, handler, mode>>

(* ~InterruptsDispatcher, with nothing activated. *)
Destroy ==
    \/ /\ ctl.pc = "ready" /\ ctl.current = None
       /\ SignalThreadQuit
       /\ ctl' = [ctl EXCEPT !.pc = "gone"]
       /\ UNCHANGED <<ch, hw, handler, mode>>
    \/ Joined /\ UNCHANGED channelVars

-----------------------------------------------------------------------------
Handler(c) ==
    \/ BeginAborted(c) \/ BeginCompleted(c) \/ CompleteChunk(c) \/ PopCompleted(c)
    \/ LaunchPending(c) \/ LaunchPendingFails(c) \/ PopRefused(c) \/ EndCompleted(c)
    \/ CancelAborted(c)

InterruptsThreadStep ==
    Interrupt \/ ThreadStep \/ EndInterrupt \/ \E c \in Channels : Handler(c)

Switching ==
    \/ StopDispatcher \/ SetStateMachine \/ StartDispatcher \/ ActivateEnd \/ SwitchEnd
    \/ \E c \in Channels : Deactivate(c) \/ Activate(c) \/ CancelPending(c)

Next ==
    \/ \E c \in Channels : \/ LaunchTransfer(c) \/ AddChunk(c) \/ PrepareTransfer(c)
                           \/ CancelPreparedTransfers(c) \/ HwTransfer(c) \/ HwAbort(c)
    \/ InterruptsThreadStep
    \/ ThreadFails
    \/ SwitchBegin
    \/ Switching
    \/ Destroy

(* The threads run, and get a mutex that is free again and again; the device transfers
   what is launched; nobody has to begin a transfer or a switch. *)
Spec ==
    /\ Init
    /\ [][Next]_vars
    /\ \A c \in Channels : WF_vars(AddChunk(c)) /\ WF_vars(HwTransfer(c))
    /\ SF_vars(InterruptsThreadStep)
    /\ SF_vars(Switching)

-----------------------------------------------------------------------------
(* The variables have their types. *)
TypeOK ==
    /\ DispatcherTypeOK
    /\ ch \in [Channels -> [active : BOOLEAN, free : 0..DescCount, pending : Seq(Chunk),
                            ongoing : Seq(Chunk), todo : Seq(Chunk), out : Seq(Nat)]]
    /\ hw \in [Channels -> [state : {"off", "on", "aborted", "told"}, left : Nat, done : Nat]]
    /\ handler \in [pc : {"next", "complete", "callback", "refused", "cancel"},
                    todo : SUBSET Channels, count : [Channels -> Nat], dead : SUBSET Channels,
                    at : Channels \cup {None}, left : Nat]
    /\ ctl \in [pc : {"ready", "deactivate", "stop", "set", "start", "activate", "cancel",
                      "gone"},
                current : Groups \cup {None}, next : Groups \cup {None},
                todo : SUBSET Channels]
    /\ mode \in Modes

(* The handler runs the callback of the first chunk of m_ongoing, or of m_pending,
   which it removes only afterwards. *)
InCallback(c) == Handling("callback") /\ handler.at = c
InRefusal(c) == Handling("refused") /\ handler.at = c
OngoingNow(c) == IF InCallback(c) THEN Tail(ch[c].ongoing) ELSE ch[c].ongoing
PendingNow(c) == IF InRefusal(c) THEN Tail(ch[c].pending) ELSE ch[c].pending

(* The callback of an accepted transfer is called exactly once, and transfers complete
   in the order launch_transfer accepted them: those not called back are the ones in the
   queues, whatever completions, aborts, refusals by the driver and cancellations by
   the two threads interleave. *)
CalledBackOnce ==
    \A c \in Channels :
        LET last == SelectSeq(OngoingNow(c) \o PendingNow(c), LAMBDA x : x.t # 0)
        IN ch[c].out = [i \in 1..Len(last) |-> last[i].t]

(* Channel c is active, and neither thread is in the middle of resetting it. *)
InUse(c) ==
    /\ ch[c].active
    /\ ctl.pc \in {"ready", "deactivate"}
    /\ ~(Handling("cancel") /\ handler.at = c)

(* The descriptors of an active channel are free or belong to a chunk on the device,
   and one always stays free: "HW requires that we always leave 1 descriptor free"
   (transfer_splitter.hpp). m_free_descs is reset, added to and subtracted from at
   seven places, two of them while a callback runs without the lock.  (Checked
   together with the types.) *)
DescsOf(s) == FoldSeq(LAMBDA x, sum : x.descs + sum, 0, s)
DescriptorsAccounted ==
    /\ TypeOK
    /\ \A c \in Channels : InUse(c) =>
          ch[c].free + DescsOf(OngoingNow(c)) = DescCount /\ ch[c].free > 0

(* The host and the device agree on the transfers in progress, so that the CHECK of
   transfers_completed in complete_transfers never fails. *)
Reported(c) ==
    IF handler.at = c /\ thread.pc = "process" THEN handler.left
    ELSE IF thread.pc \in {"got", "process"} THEN handler.count[c] ELSE 0
CompletionsMatch ==
    \A c \in Channels : InUse(c) /\ hw[c].state = "on" =>
        Len(ch[c].ongoing) = hw[c].left + hw[c].done + Reported(c)

(* No chunk is launched on a channel the firmware has reset, although complete_transfers
   does not look at m_is_activated again after its callbacks. *)
LaunchesBeforeReset ==
    \A c \in Channels : HandlerHolds(c) => hw[c].state # "off"

(* Cancelling takes all there is and nothing more.  A channel that is not in use has
   called back every transfer and holds no chunk: the buffers are the user's again when
   deactivate or close returns.  And although switch_core_op from a core op to itself
   cancels a channel it has just activated ("Calling on an active channel will lead to
   undefined behaviour", boundary_channel.hpp), no transfer is there to be cancelled. *)
CancelsExactly ==
    \A c \in Channels :
        /\ GroupOf[c] \notin {ctl.current, ctl.next} =>
              ~ch[c].active /\ Cancelled(ch[c]) /\ ch[c].out = <<>>
        /\ ctl.pc = "cancel" /\ c \in ctl.todo /\ ch[c].active =>
              \A x \in Elements(ch[c].ongoing \o ch[c].pending) : x.t = 0

(* Every accepted transfer is called back: waiting chunks are launched when others
   complete. The exceptions are an interrupts thread that is gone because
   vdma_interrupts_wait failed, and one that a user keeps in the second loop of
   complete_transfers by launching again whenever the driver refused a waiting chunk. *)
TransfersFinish ==
    \A c \in Channels : \A t \in 1..MaxTransfers[c] :
        (t \in Elements(ch[c].out))
            ~> (t \notin Elements(ch[c].out) \/ thread.pc = "exit" \/ InRefusal(c))

(* A switch, an activation or a deactivation returns, with the same exception (stop then
   waits for a thread that is gone). *)
SwitchReturns == (ctl.pc # "ready") ~> (ctl.pc \in {"ready", "gone"} \/ thread.pc = "exit")
=============================================================================
