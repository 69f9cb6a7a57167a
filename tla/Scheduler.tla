----------------------------- MODULE Scheduler -----------------------------
(***************************************************************************)
(* CoreOpsScheduler (vdevice/scheduler/): the thread that multiplexes core *)
(* ops over the devices of a VDevice, its preparing thread, the oracle     *)
(* that takes its decisions, and the callers of its public functions.      *)
(*                                                                         *)
(* The state follows the structures of the code: core is ScheduledCoreOp   *)
(* with the queues of its requests, dev is ActiveDeviceInfo with what is   *)
(* on the device, th and prep are the two threads.  An action that takes   *)
(* m_scheduler_mutex exclusively is one step and needs NoReader.           *)
(***************************************************************************)
EXTENDS Integers, Sequences, FiniteSets

CONSTANTS
    CoreOps,            \* handles of the core ops
    None,               \* INVALID_CORE_OP_HANDLE
    NumDevices,         \* size of m_devices; devices are 1..NumDevices
    MaxBatch,           \* m_max_batch_size of each core op
    MaxOngoing,         \* m_max_ongoing_frames_per_device of each core op
    Dynamic,            \* core ops with use_dynamic_batch_flow()
    DefaultBatch,       \* core ops with is_default_batch_size()
    FastSwitch,         \* core ops with get_can_fast_batch_switch()
    IdleOpt,            \* HAILO_ENABLE_IDLE_OPT_ENV_VAR is on
    Priorities,         \* priorities the users set
    NormalPriority,     \* HAILO_SCHEDULER_PRIORITY_NORMAL
    Thresholds,         \* thresholds the users set
    Timeouts,           \* timeouts the users set: "zero", "finite", "infinite"
    Api,                \* the functions the users of this instance call
    ConfigureFirst,     \* the users call set_timeout only while nothing is queued
    Failures,           \* the calls to lower layers that may fail
    MaxInstances,       \* bound: instances of one core op
    Slots               \* bound: requests of op in the system are 1..Slots[op]

Devices == 1..NumDevices

ASSUME ConstantsAssumption ==
    /\ NumDevices \in Nat \ {0}
    /\ None \notin CoreOps
    /\ MaxBatch \in [CoreOps -> Nat \ {0}]
    /\ MaxOngoing \in [CoreOps -> Nat \ {0}]
    /\ Dynamic \subseteq CoreOps
    /\ DefaultBatch \subseteq CoreOps
    /\ FastSwitch \subseteq CoreOps
    /\ IdleOpt \in BOOLEAN
    /\ ConfigureFirst \in BOOLEAN
    /\ Priorities \subseteq Nat
    /\ NormalPriority \in Priorities
    /\ Thresholds \subseteq Nat
    /\ Timeouts \subseteq {"zero", "finite", "infinite"}
    /\ Slots \in [CoreOps -> Nat]

VARIABLES
    core,       \* m_scheduled_core_ops, m_pending_requests, m_ready_requests; per core op:
                \*   inst       m_instances_count, 0 also before add_core_op
                \*   prio, timeout, threshold, last (m_last_device_id)
                \*   expired    m_timeout has passed since m_last_run_time_stamp
                \*   pendingQ, readyQ   the queues; pending, ready the counters of each
                \*   pushed     enqueuers between the push and the increment
                \*   out        accepted requests not called back, oldest first
                \*   bypassed   runs in a row a peer got while this one was runnable
    groups,     \* m_core_op_to_run_priority and m_core_op_to_prepare_priority
    dev,        \* m_devices: current, batch, left (before stop streaming), ongoing,
                \*   next       next_core_op_handle while is_switching_core_op
                \*   hw         core op whose streams are activated
                \*   inflight   requests launched on the device, oldest first
                \*   irq        request whose callback the interrupt thread is in
    th,         \* the scheduler thread: pc, running (m_is_running),
                \*   execute    m_execute_worker_thread
                \*   closest    m_closest_threshold_timeout: "soon" or "never"
                \*   wait       duration of the current wait
                \*   todo, scan core ops and device its loops are at
                \*   decisions  oracle_decisions left
                \*   send       the running call of send_all_pending_buffers
    prep,       \* the preparing thread: pc, running, execute,
                \*   op         m_current_core_op_preparing
                \*   hand       the request it has dequeued
    setting,    \* core op a set_timeout call is in the middle of
    stopping    \* progress of shutdown()

vars == <<core, groups, dev, th, prep, setting, stopping>>

-----------------------------------------------------------------------------
(* Helpers on numbers, sequences and priority groups. *)

Minimum(a, b) == IF a <= b THEN a ELSE b

Elements(s) == {s[i] : i \in DOMAIN s}

Without(s, S) == SelectSeq(s, LAMBDA x : x \notin S)

(* PriorityGroup::add *)
GroupAdd(g, op) == [g EXCEPT !.ops = Append(@, op)]

(* PriorityGroup::erase: the round robin restarts from the front. A version
   only restarts. *)
GroupRestart(g, op) == [g EXCEPT !.next = 0]
GroupErase(g, op) == [ops |-> Without(g.ops, {op}), next |-> 0]

(* PriorityGroup::get, with a relative index that starts at 0. *)
GroupGet(g, i) == g.ops[((g.next + i) % Len(g.ops)) + 1]

(* PriorityGroup::set_next, and a version that forgets to move on. *)
GroupKeepNext(g, i) == g
GroupSetNext(g, i) == [g EXCEPT !.next = (@ + i) % Len(g.ops)]

(* The scan of choose_next_model_to_run and choose_next_model_to_prepare: from
   the highest priority down, and in each group from its next index, the first
   core op of S. *)
HasAny(g, S) == Elements(g.ops) \cap S # {}
TopPriority(gs, S) ==
    CHOOSE p \in Priorities :
        HasAny(gs[p], S) /\ \A q \in Priorities : HasAny(gs[q], S) => q <= p
FirstIndex(g, S) ==
    CHOOSE i \in 0..(Len(g.ops) - 1) :
        GroupGet(g, i) \in S /\ \A j \in 0..(i - 1) : GroupGet(g, j) \notin S

-----------------------------------------------------------------------------
(* Queries of the scheduler state. *)

Known(op) == op \in Elements(groups.run[core[op].prio].ops)
KnownCoreOps == {op \in CoreOps : Known(op)}

(* ScheduledCoreOp::get_burst_size *)
BurstSize(op) == IF op \in DefaultBatch THEN MaxOngoing[op] ELSE MaxBatch[op]

(* ScheduledCoreOp::get_threshold: 0 is DEFAULT_SCHEDULER_MIN_THRESHOLD. *)
GetThreshold(op) == IF core[op].threshold # 0 THEN core[op].threshold ELSE 1

(* ScheduledCoreOp::is_over_threshold_timeout *)
IsOverTimeout(op) ==
    core[op].timeout = "zero" \/ (core[op].timeout = "finite" /\ core[op].expired)

(* ActiveDeviceInfo::is_idle *)
IsIdle(d) == dev[d].ongoing = 0

(* The frames of op already on the device, as get_frames_ready_to_transfer
   counts them, and a version that forgets them. *)
NoOngoingFrames(op, d) == 0
OngoingFrames(op, d) == IF dev[d].current = op THEN dev[d].ongoing ELSE 0

(* get_frames_ready_to_transfer *)
FramesReady(op, d, useReadyQueue) ==
    IF core[op].inst = 0 THEN 0
    ELSE Minimum(core[op].ready + (IF useReadyQueue THEN 0 ELSE core[op].pending),
                 MaxOngoing[op] - OngoingFrames(op, d))

(* is_core_op_ready_for_run, and a version that ignores the preparing thread. *)
ReadyWhilePreparing(op, d, checkThreshold, useReadyQueue) ==
    /\ FramesReady(op, d, useReadyQueue) > 0
    /\ checkThreshold => \/ FramesReady(op, d, useReadyQueue) >= core[op].threshold
                         \/ IsOverTimeout(op)
IsReadyForRun(op, d, checkThreshold, useReadyQueue) ==
    /\ FramesReady(op, d, useReadyQueue) > 0
    /\ prep.op # op
    /\ checkThreshold => \/ FramesReady(op, d, useReadyQueue) >= core[op].threshold
                         \/ IsOverTimeout(op)

(* The condition prepare_transfers checks, and loops on. *)
HasRoomToPrepare(op) == core[op].ready < BurstSize(op) /\ core[op].pending > 0

(* is_core_op_ready_for_prepare *)
IsReadyForPrepare(op, d) ==
    core[op].inst # 0 /\ dev[d].current # op /\ HasRoomToPrepare(op)

(* CoreOpsSchedulerOracle::is_core_op_active *)
IsActive(op) == \E d \in Devices : dev[d].current = op

(* CoreOpsSchedulerOracle::should_stop_streaming *)
ShouldStopStreaming(p, d) ==
    /\ dev[d].left = 0
    /\ \E q \in Priorities : \E op \in Elements(groups.run[q].ops) :
          q >= p /\ ~IsActive(op) /\ IsReadyForRun(op, d, TRUE, TRUE)

(* Nobody holds m_scheduler_mutex shared. *)
NoReader ==
    /\ th.pc \in {"loop", "wait", "exit"}
    /\ prep.pc \in {"wait", "start", "exit"}
    /\ \A op \in CoreOps : core[op].pushed = 0
    /\ setting = None
    /\ stopping \in {"no", "done"}

(* update_closest_threshold_timeout, and a version that forgets the timeouts. *)
NoClosestTimeout == "never"
ClosestTimeout ==
    IF \E op \in CoreOps : core[op].inst > 0 /\ core[op].timeout = "finite"
    THEN "soon" ELSE "never"

-----------------------------------------------------------------------------
NoGroup == [ops |-> <<>>, next |-> 0]

NoSend == [op |-> None, device |-> 0, left |-> 0, back |-> "optimize"]

Init ==
    /\ core = [op \in CoreOps |->
                 [inst |-> 0, prio |-> NormalPriority, timeout |-> "zero", threshold |-> 0,
                  expired |-> FALSE, last |-> NumDevices, pendingQ |-> <<>>, readyQ |-> <<>>,
                  pending |-> 0, ready |-> 0, pushed |-> 0, out |-> <<>>, bypassed |-> 0]]
    /\ groups = [run |-> [p \in Priorities |-> NoGroup], prep |-> [p \in Priorities |-> NoGroup]]
    /\ dev = [d \in Devices |->
                 [current |-> None, next |-> None, batch |-> 0, left |-> 0, ongoing |-> 0,
                  hw |-> None, inflight |-> <<>>, irq |-> <<>>]]
    /\ th = [pc |-> "loop", running |-> TRUE, execute |-> FALSE, closest |-> "never",
             wait |-> "never", todo |-> {}, scan |-> 1, decisions |-> <<>>, send |-> NoSend]
    /\ prep = [pc |-> IF NumDevices > 1 THEN "exit" ELSE "wait", running |-> TRUE,
               execute |-> FALSE, op |-> None, hand |-> <<>>]
    /\ setting = None
    /\ stopping = "no"

-----------------------------------------------------------------------------
(* The users of the scheduler. They stop calling it once it is destroyed. *)

Calls(f) == f \in Api /\ stopping = "no"

(* add_core_op: a new core op joins both groups, a known one gets an instance. *)
AddCoreOp(op) ==
    /\ Calls("add_core_op")
    /\ NoReader
    /\ core[op].inst < MaxInstances
    /\ core' = [core EXCEPT ![op].inst = @ + 1, ![op].expired = @ /\ Known(op)]
    /\ groups' = IF Known(op) THEN groups
                 ELSE [groups EXCEPT !.run[NormalPriority] = GroupAdd(@, op),
                                     !.prep[NormalPriority] = GroupAdd(@, op)]
    /\ UNCHANGED <<dev, th, prep, setting, stopping>>

(* remove_core_op: its requests are dropped by the scheduler thread later. *)
RemoveCoreOp(op) ==
    /\ Calls("remove_core_op")
    /\ NoReader
    /\ core[op].inst > 0
    /\ core' = [core EXCEPT ![op].inst = @ - 1]
    /\ th' = [th EXCEPT !.execute = TRUE]
    /\ UNCHANGED <<groups, dev, prep, setting, stopping>>

(* enqueue_infer_request up to the push. An instance enqueues one request at a
   time, under the mutex of its accumulator. *)
PushRequest(op) ==
    /\ Calls("enqueue_infer_request")
    /\ ConfigureFirst => setting = None
    /\ core[op].pushed < core[op].inst
    /\ \E r \in 1..Slots[op] :
          /\ r \notin Elements(core[op].out)
          /\ 1..(r - 1) \subseteq Elements(core[op].out)
          /\ core' = [core EXCEPT ![op].pendingQ = Append(@, r),
                                  ![op].out = Append(@, r),
                                  ![op].pushed = @ + 1,
                                  ![op].expired = @ /\ core[op].pending # 0]
    /\ UNCHANGED <<groups, dev, th, prep, setting, stopping>>

(* enqueue_infer_request from the increment on. *)
CountRequest(op) ==
    /\ core[op].pushed > 0
    /\ core' = [core EXCEPT ![op].pushed = @ - 1, ![op].pending = @ + 1]
    /\ th' = [th EXCEPT !.execute = TRUE]
    /\ UNCHANGED <<groups, dev, prep, setting, stopping>>

(* set_timeout up to the first assignment of update_closest_threshold_timeout. *)
SetTimeout(op) ==
    /\ Calls("set_timeout")
    /\ ConfigureFirst => \A o \in CoreOps : core[o].out = <<>>
    /\ Known(op)
    /\ setting = None
    /\ \E t \in Timeouts :
          core' = [core EXCEPT ![op].timeout = t, ![op].expired = @ /\ t = core[op].timeout]
    /\ th' = [th EXCEPT !.closest = "never"]
    /\ setting' = op
    /\ UNCHANGED <<groups, dev, prep, stopping>>

(* The rest of set_timeout: signal(false) assigns the flag. *)
SetTimeoutEnd ==
    /\ setting # None
    /\ th' = [th EXCEPT !.closest = ClosestTimeout, !.execute = FALSE]
    /\ setting' = None
    /\ UNCHANGED <<core, groups, dev, prep, stopping>>

(* set_threshold *)
SetThreshold(op) ==
    /\ Calls("set_threshold")
    /\ Known(op)
    /\ \E n \in Thresholds :
          /\ op \in Dynamic => n <= MaxBatch[op]
          /\ core' = [core EXCEPT ![op].threshold = n]
    /\ UNCHANGED <<groups, dev, th, prep, setting, stopping>>

(* set_priority: the core op moves to the end of its new group. *)
Moved(gs, op, p) ==
    LET erased == [gs EXCEPT ![core[op].prio] = GroupErase(@, op)]
    IN [erased EXCEPT ![p] = GroupAdd(@, op)]
SetPriority(op) ==
    /\ Calls("set_priority")
    /\ NoReader
    /\ Known(op)
    /\ \E p \in Priorities :
          /\ groups' = [run |-> Moved(groups.run, op, p), prep |-> Moved(groups.prep, op, p)]
          /\ core' = [o \in CoreOps |->
                        [core[o] EXCEPT !.prio = IF o = op THEN p ELSE @, !.bypassed = 0]]
    /\ UNCHANGED <<dev, th, prep, setting, stopping>>

(* Time passes: the timeout of a core op is over. *)
Expire(op) ==
    /\ core[op].timeout = "finite"
    /\ ~core[op].expired
    /\ core' = [core EXCEPT ![op].expired = TRUE]
    /\ UNCHANGED <<groups, dev, th, prep, setting, stopping>>

-----------------------------------------------------------------------------
(* The device and its interrupt thread: the callback infer_async installs. *)

(* core without the requests R of op in out: their callbacks were called. *)
CalledBack(c, op, R) == [c EXCEPT ![op].out = Without(@, R)]

(* A launched request completes: ongoing_infer_requests is decremented ... *)
CompleteRequest(d) ==
    /\ dev[d].irq = <<>>
    /\ dev[d].inflight # <<>>
    /\ dev[d].hw = Head(dev[d].inflight).op
    /\ dev' = [dev EXCEPT ![d].irq = <<Head(dev[d].inflight)>>,
                          ![d].inflight = Tail(@),
                          ![d].ongoing = @ - 1]
    /\ UNCHANGED <<core, groups, th, prep, setting, stopping>>

(* ... then the scheduler is signalled and the original callback is called. *)
CallOriginal(d) ==
    /\ dev[d].irq # <<>>
    /\ core' = CalledBack(core, Head(dev[d].irq).op, {Head(dev[d].irq).r})
    /\ dev' = [dev EXCEPT ![d].irq = <<>>]
    /\ th' = [th EXCEPT !.execute = TRUE]
    /\ UNCHANGED <<groups, prep, setting, stopping>>

-----------------------------------------------------------------------------
(* The scheduler thread: worker_thread_main and schedule(). *)

(* The loop condition; the wait takes its duration when it starts. *)
BeginWait ==
    /\ th.pc = "loop"
    /\ th' = [th EXCEPT !.pc = IF th.running THEN "wait" ELSE "exit", !.wait = th.closest]
    /\ UNCHANGED <<core, groups, dev, prep, setting, stopping>>

(* The wait ends because the flag is set or because its time is over; schedule()
   starts with the streaming optimization of every core op. *)
EndWait ==
    /\ th.pc = "wait"
    /\ th.execute \/ th.wait = "soon"
    /\ th' = [th EXCEPT !.execute = FALSE, !.todo = KnownCoreOps,
                        !.pc = IF th.running THEN "optimize" ELSE "exit"]
    /\ UNCHANGED <<core, groups, dev, prep, setting, stopping>>

(* m_devices.upper_bound(get_last_device()), around the end of the map. *)
NextDevice(op) == (core[op].last % NumDevices) + 1

(* The burst of optimize_streaming_if_enabled. *)
StreamingBurst(op) == IF IdleOpt THEN 1 ELSE GetThreshold(op)

(* The conditions of optimize_streaming_if_enabled. *)
CanStream(op, d) ==
    /\ op \notin Dynamic
    /\ dev[d].current = op
    /\ dev[d].next = None
    /\ ~ShouldStopStreaming(core[op].prio, d)
    /\ FramesReady(op, d, FALSE) >= StreamingBurst(op)

(* optimize_streaming_if_enabled for one core op. *)
OptimizeStreaming(op) ==
    /\ th.pc = "optimize"
    /\ op \in th.todo
    /\ LET d == NextDevice(op)
           after == [th EXCEPT !.todo = @ \ {op}]
       IN th' = IF CanStream(op, d)
                THEN [after EXCEPT !.pc = "send",
                                   !.send = [op |-> op, device |-> d,
                                             left |-> StreamingBurst(op), back |-> "optimize"]]
                ELSE after
    /\ UNCHANGED <<core, groups, dev, prep, setting, stopping>>

(* After the last core op the oracle is asked, from the first device on. *)
AskOracle ==
    /\ th.pc = "optimize"
    /\ th.todo = {}
    /\ th' = [th EXCEPT !.pc = "decide"]
    /\ UNCHANGED <<core, groups, dev, prep, setting, stopping>>

(* The core ops choose_next_model_to_run accepts on device d; with the idle
   optimization a second scan ignores the thresholds. *)
Runnable(d) ==
    LET over == {op \in CoreOps : IsReadyForRun(op, d, TRUE, TRUE)}
        any == {op \in CoreOps : IsReadyForRun(op, d, FALSE, TRUE)}
    IN IF over = {} /\ IdleOpt THEN any ELSE over

(* Device d is given to the first runnable core op. *)
ChoosesRunnable(d) == dev[d].next = None /\ IsIdle(d) /\ Runnable(d) # {}

(* What get_oracle_run_decisions decides for device d, None for nothing. *)
Decision(d) ==
    CASE dev[d].next # None -> dev[d].next
      [] ChoosesRunnable(d) ->
            LET g == groups.run[TopPriority(groups.run, Runnable(d))]
            IN GroupGet(g, FirstIndex(g, Runnable(d)))
      [] /\ dev[d].next = None /\ IsIdle(d) /\ Runnable(d) = {}
         /\ dev[d].current # None /\ IsReadyForRun(dev[d].current, d, TRUE, FALSE) ->
            dev[d].current
      [] OTHER -> None

(* choose_next_model_to_run moves the group it chose from past the choice. *)
AdvanceRunGroup(d) ==
    IF ChoosesRunnable(d)
    THEN LET p == TopPriority(groups.run, Runnable(d))
             Passed(o) == o \in Runnable(d) \ {Decision(d)} /\ core[o].prio = p
         IN /\ groups' = [groups EXCEPT !.run[p] =
                            GroupSetNext(@, FirstIndex(@, Runnable(d)) + 1)]
            /\ core' = [o \in CoreOps |->
                          [core[o] EXCEPT !.bypassed = IF Passed(o) THEN @ + 1 ELSE 0]]
    ELSE UNCHANGED <<core, groups>>

(* One device of get_oracle_run_decisions. *)
DecideRun ==
    /\ th.pc = "decide"
    /\ AdvanceRunGroup(th.scan)
    /\ LET d == th.scan
           decided == IF Decision(d) = None THEN <<>> ELSE <<[op |-> Decision(d), device |-> d]>>
       IN /\ dev' = [dev EXCEPT ![d].next = Decision(d)]
          /\ th' = [th EXCEPT !.decisions = @ \o decided,
                              !.scan = (@ % NumDevices) + 1,
                              !.pc = IF d = NumDevices THEN "switch" ELSE "decide"]
    /\ UNCHANGED <<prep, setting, stopping>>

(* The loop of schedule() over the core ops without instances comes next. *)
EndSwitches ==
    /\ th.pc = "switch"
    /\ th.decisions = <<>>
    /\ th' = [th EXCEPT !.pc = "shutdown", !.todo = KnownCoreOps]
    /\ UNCHANGED <<core, groups, dev, prep, setting, stopping>>

(* frames_count and hw_batch_size of switch_core_op *)
SwitchFrames(op, d) == Minimum(FramesReady(op, d, FALSE), BurstSize(op))
SwitchBatch(op, d) == IF op \in Dynamic THEN SwitchFrames(op, d) ELSE 1

(* switch_core_op calls VdmaConfigManager::set_core_op. *)
NeedsSetCoreOp(op, d) == op # dev[d].current \/ dev[d].batch # SwitchBatch(op, d)

(* set_core_op is fast_batch_switch, which leaves the streams alone. *)
IsFastSwitch(op, d) == op = dev[d].current /\ op \in FastSwitch

(* What switch_core_op assigns to the device before set_core_op, and the time
   stamp of the core op that leaves. *)
PreparedDevice(op, d) ==
    [dev[d] EXCEPT !.next = None, !.batch = SwitchBatch(op, d), !.left = BurstSize(op)]
StampLeaving(op, d) ==
    IF NeedsSetCoreOp(op, d) /\ dev[d].current # None
    THEN [core EXCEPT ![dev[d].current].expired = @ /\ core[dev[d].current].pending = 0]
    ELSE core

(* switch_core_op succeeds. Stopping the interrupts dispatcher of the core op
   that leaves waits for the callback its interrupt thread is in. *)
SwitchCoreOp ==
    /\ th.pc = "switch"
    /\ th.decisions # <<>>
    /\ LET op == Head(th.decisions).op
           d == Head(th.decisions).device
           restarts == NeedsSetCoreOp(op, d) /\ ~IsFastSwitch(op, d)
           rest == [th EXCEPT !.decisions = Tail(@)]
       IN IF SwitchFrames(op, d) = 0
          THEN /\ dev' = [dev EXCEPT ![d].next = None]
               /\ th' = rest
               /\ UNCHANGED core
          ELSE /\ restarts => dev[d].irq = <<>>
               /\ dev' = [dev EXCEPT ![d] =
                            [PreparedDevice(op, d) EXCEPT !.current = op,
                                                          !.hw = IF restarts THEN op ELSE @]]
               /\ core' = StampLeaving(op, d)
               /\ th' = [rest EXCEPT !.pc = "send",
                                     !.send = [op |-> op, device |-> d,
                                               left |-> SwitchFrames(op, d), back |-> "switch"]]
    /\ UNCHANGED <<groups, prep, setting, stopping>>

(* set_core_op fails, with the streams of the previous core op deactivated
   unless it was a fast batch switch: schedule() leaves its loop. *)
SwitchFails ==
    /\ "set_core_op" \in Failures
    /\ th.pc = "switch"
    /\ th.decisions # <<>>
    /\ LET op == Head(th.decisions).op
           d == Head(th.decisions).device
       IN /\ SwitchFrames(op, d) > 0
          /\ NeedsSetCoreOp(op, d)
          /\ dev[d].irq = <<>>
          /\ dev' = [dev EXCEPT ![d] =
                       [PreparedDevice(op, d) EXCEPT !.hw = IF IsFastSwitch(op, d) THEN @
                                                            ELSE None]]
          /\ core' = StampLeaving(op, d)
    /\ th' = [th EXCEPT !.decisions = <<>>]
    /\ UNCHANGED <<groups, prep, setting, stopping>>

(* dequeue_infer_request: the requests that are ready are older than the pending
   ones. One version prefers the pending ones, one counts every request as ready. *)
TakesNewest(op) == core[op].pendingQ = <<>>
TakesReady(op) == core[op].readyQ # <<>>
Oldest(op) == Head(IF TakesReady(op) THEN core[op].readyQ ELSE core[op].pendingQ)
Dequeued(op) ==
    IF TakesReady(op)
    THEN [core EXCEPT ![op].readyQ = Tail(@), ![op].ready = @ - 1]
    ELSE [core EXCEPT ![op].pendingQ = Tail(@), ![op].pending = @ - 1]

(* Each iteration of send_all_pending_buffers counts the frame down, whatever
   becomes of it. *)
CountedDown(d) == [dev[d] EXCEPT !.left = IF @ > 0 THEN @ - 1 ELSE 0]

(* vdma_core_op->infer_async launches the transfers of the request. *)
SendFrame ==
    /\ th.pc = "send"
    /\ th.send.left > 0
    /\ LET op == th.send.op
           d == th.send.device
       IN /\ dev[d].hw = op
          /\ core' = Dequeued(op)
          /\ dev' = [dev EXCEPT ![d] =
                       [CountedDown(d) EXCEPT !.inflight = Append(@, [op |-> op, r |-> Oldest(op)]),
                                              !.ongoing = @ + 1]]
    /\ th' = [th EXCEPT !.send.left = @ - 1]
    /\ UNCHANGED <<groups, prep, setting, stopping>>

(* A stream refuses the transfer (always when it is not activated): infer_async
   calls every callback with the error, and still returns success. *)
SendRefused ==
    /\ th.pc = "send"
    /\ th.send.left > 0
    /\ LET op == th.send.op
           d == th.send.device
       IN /\ dev[d].hw # op \/ "infer_async" \in Failures
          /\ core' = CalledBack(Dequeued(op), op, {Oldest(op)})
          /\ dev' = [dev EXCEPT ![d] = CountedDown(d)]
    /\ th' = [th EXCEPT !.send.left = @ - 1, !.execute = TRUE]
    /\ UNCHANGED <<groups, prep, setting, stopping>>

(* infer_async itself fails (out of memory): the callback is called without a
   signal, the rest of the burst stays queued and the caller gives up. *)
SendFails ==
    /\ "out_of_memory" \in Failures
    /\ th.pc = "send"
    /\ th.send.left > 0
    /\ core' = CalledBack(Dequeued(th.send.op), th.send.op, {Oldest(th.send.op)})
    /\ dev' = [dev EXCEPT ![th.send.device] = CountedDown(th.send.device)]
    /\ th' = [th EXCEPT !.decisions = <<>>, !.pc = th.send.back, !.send = NoSend]
    /\ UNCHANGED <<groups, prep, setting, stopping>>

(* send_all_pending_buffers returns to optimize_streaming or switch_core_op. *)
EndSend ==
    /\ th.pc = "send"
    /\ th.send.left = 0
    /\ core' = [core EXCEPT ![th.send.op].last = th.send.device]
    /\ th' = [th EXCEPT !.pc = th.send.back, !.send = NoSend]
    /\ UNCHANGED <<groups, dev, prep, setting, stopping>>

(* deactivate_core_op on the devices of D: their streams are deactivated, the
   interrupt threads joined and the launched requests called back. *)
DeactivateDevices(D) ==
    /\ \A d \in D : dev[d].irq = <<>>
    /\ dev' = [d \in Devices |->
                 IF d \in D
                 THEN [dev[d] EXCEPT !.current = None, !.hw = None, !.inflight = <<>>,
                                     !.ongoing = @ - Len(dev[d].inflight)]
                 ELSE dev[d]]

(* Each of those callbacks signals the scheduler thread. *)
Signalled(D) == [th EXCEPT !.execute = @ \/ \E d \in D : dev[d].inflight # <<>>]

(* The requests of op launched on the devices of D. *)
LaunchedOn(op, D) ==
    {r \in 1..Slots[op] : \E d \in D : [op |-> op, r |-> r] \in Elements(dev[d].inflight)}

(* The loop of shutdown_core_op: every queued request is called back. *)
QueuesCancelled(op) ==
    LET queued == Elements(core[op].pendingQ) \cup Elements(core[op].readyQ)
    IN CalledBack([core EXCEPT ![op].pendingQ = <<>>, ![op].pending = 0,
                               ![op].readyQ = <<>>, ![op].ready = 0], op, queued)

(* The condition of schedule() for shutdown_core_op. *)
MustShutdown(op) == core[op].inst = 0 /\ prep.op = None

(* shutdown_core_op of a core op without instances. *)
ShutdownCoreOp(op) ==
    /\ th.pc = "shutdown"
    /\ op \in th.todo
    /\ MustShutdown(op)
    /\ LET D == {d \in Devices : dev[d].current = op}
       IN /\ DeactivateDevices(D)
          /\ core' = CalledBack(QueuesCancelled(op), op, LaunchedOn(op, D))
          /\ th' = [Signalled(D) EXCEPT !.todo = @ \ {op}]
    /\ UNCHANGED <<groups, prep, setting, stopping>>

(* The same when deactivate_core_op fails after it deactivated the streams. *)
ShutdownFails(op) ==
    /\ "deactivate_core_op" \in Failures
    /\ th.pc = "shutdown"
    /\ op \in th.todo
    /\ MustShutdown(op)
    /\ \E d \in Devices : dev[d].current = op
    /\ \A d \in Devices : dev[d].current = op => dev[d].irq = <<>>
    /\ dev' = [d \in Devices |-> IF dev[d].current = op THEN [dev[d] EXCEPT !.hw = None]
                                 ELSE dev[d]]
    /\ core' = QueuesCancelled(op)
    /\ th' = [th EXCEPT !.todo = @ \ {op}]
    /\ UNCHANGED <<groups, prep, setting, stopping>>

(* A core op that is in use, or any one while a preparation runs, is kept. *)
KeepCoreOp(op) ==
    /\ th.pc = "shutdown"
    /\ op \in th.todo
    /\ ~MustShutdown(op)
    /\ th' = [th EXCEPT !.todo = @ \ {op}]
    /\ UNCHANGED <<core, groups, dev, prep, setting, stopping>>

(* The core ops choose_next_model_to_prepare accepts: none while one is being
   prepared. *)
Preparable == {op \in CoreOps : prep.op = None /\ IsReadyForPrepare(op, 1)}

(* The end of schedule(): choose_next_model_to_prepare,
   update_closest_threshold_timeout. *)
ChoosePrepare ==
    /\ th.pc = "shutdown"
    /\ th.todo = {}
    /\ IF Preparable = {}
       THEN UNCHANGED <<groups, prep>>
       ELSE LET p == TopPriority(groups.prep, Preparable)
                i == FirstIndex(groups.prep[p], Preparable)
            IN /\ groups' = [groups EXCEPT !.prep[p] = GroupSetNext(@, i)]
               /\ prep' = [prep EXCEPT !.op = GroupGet(groups.prep[p], i), !.execute = TRUE]
    /\ th' = [th EXCEPT !.pc = "loop", !.closest = ClosestTimeout]
    /\ UNCHANGED <<core, dev, setting, stopping>>

-----------------------------------------------------------------------------
(* The preparing thread: prepare_worker_thread_main and prepare_transfers. *)

PrepEndWait ==
    /\ prep.pc = "wait"
    /\ prep.execute
    /\ prep' = [prep EXCEPT !.execute = FALSE, !.pc = IF prep.running THEN "start" ELSE "exit"]
    /\ UNCHANGED <<core, groups, dev, th, setting, stopping>>

(* prepare_transfers takes m_scheduler_mutex and checks its preconditions. *)
PrepStart ==
    /\ prep.pc = "start"
    /\ prep' = [prep EXCEPT !.pc = IF IsReadyForPrepare(prep.op, 1) THEN "prepare" ELSE "reset"]
    /\ UNCHANGED <<core, groups, dev, th, setting, stopping>>

(* The loop dequeues the oldest pending request ... *)
PrepDequeue ==
    /\ prep.pc = "prepare"
    /\ HasRoomToPrepare(prep.op)
    /\ prep' = [prep EXCEPT !.pc = "bind", !.hand = <<Head(core[prep.op].pendingQ)>>]
    /\ core' = [core EXCEPT ![prep.op].pendingQ = Tail(@), ![prep.op].pending = @ - 1]
    /\ UNCHANGED <<groups, dev, th, setting, stopping>>

(* ... and enqueues it as ready also if binding its buffers failed, and in a
   version only if it did not fail. *)
DropOnFailure(status) == IF status = "success" THEN prep.hand ELSE <<>>
EnqueuedReady(status) == prep.hand
PrepBind ==
    /\ prep.pc = "bind"
    /\ \E status \in {"success"} \cup ({"prepare_transfers"} \cap Failures) :
          /\ prep' = [prep EXCEPT !.pc = IF status = "success" THEN "prepare" ELSE "reset",
                                  !.hand = <<>>]
          /\ core' = [core EXCEPT ![prep.op].readyQ = @ \o EnqueuedReady(status),
                                  ![prep.op].ready = @ + Len(EnqueuedReady(status))]
    /\ UNCHANGED <<groups, dev, th, setting, stopping>>

PrepEndLoop ==
    /\ prep.pc = "prepare"
    /\ ~HasRoomToPrepare(prep.op)
    /\ prep' = [prep EXCEPT !.pc = "reset"]
    /\ UNCHANGED <<core, groups, dev, th, setting, stopping>>

(* ~ResetPreparing: the handle is reset, then the scheduler thread signalled. *)
PrepReset ==
    /\ prep.pc = "reset"
    /\ prep' = [prep EXCEPT !.op = None, !.pc = "signal"]
    /\ UNCHANGED <<core, groups, dev, th, setting, stopping>>

PrepSignal ==
    /\ prep.pc = "signal"
    /\ th' = [th EXCEPT !.execute = TRUE]
    /\ prep' = [prep EXCEPT !.pc = IF prep.running THEN "wait" ELSE "exit"]
    /\ UNCHANGED <<core, groups, dev, setting, stopping>>

-----------------------------------------------------------------------------
(* shutdown(): both threads are stopped and joined, then the devices are
   deactivated. It is called when no other call is running. A version stops the
   scheduler thread without the signal. *)

ShutdownBeginSilently ==
    /\ Calls("shutdown")
    /\ setting = None /\ \A op \in CoreOps : core[op].pushed = 0
    /\ th' = [th EXCEPT !.running = FALSE]
    /\ stopping' = "join_scheduler"
    /\ UNCHANGED <<core, groups, dev, prep, setting>>
ShutdownBegin ==
    /\ Calls("shutdown")
    /\ setting = None /\ \A op \in CoreOps : core[op].pushed = 0
    /\ th' = [th EXCEPT !.running = FALSE, !.execute = TRUE]
    /\ stopping' = "join_scheduler"
    /\ UNCHANGED <<core, groups, dev, prep, setting>>

ShutdownJoinScheduler ==
    /\ stopping = "join_scheduler"
    /\ th.pc = "exit"
    /\ prep' = [prep EXCEPT !.running = FALSE, !.execute = TRUE]
    /\ stopping' = "join_preparing"
    /\ UNCHANGED <<core, groups, dev, th, setting>>

ShutdownDevices ==
    /\ stopping = "join_preparing"
    /\ prep.pc = "exit"
    /\ LET D == {d \in Devices : dev[d].current # None}
       IN /\ DeactivateDevices(D)
          /\ core' = [op \in CoreOps |->
                        [core[op] EXCEPT !.out = Without(@, LaunchedOn(op, D))]]
          /\ th' = Signalled(D)
    /\ stopping' = "done"
    /\ UNCHANGED <<groups, prep, setting>>

-----------------------------------------------------------------------------
User(op) ==
    \/ AddCoreOp(op) \/ RemoveCoreOp(op) \/ PushRequest(op) \/ SetTimeout(op)
    \/ SetThreshold(op) \/ SetPriority(op)

Device(d) == CompleteRequest(d) \/ CallOriginal(d)

Thread ==
    \/ BeginWait \/ EndWait \/ AskOracle \/ DecideRun \/ EndSwitches \/ SwitchCoreOp
    \/ SwitchFails \/ SendFrame \/ SendRefused \/ SendFails \/ EndSend \/ ChoosePrepare
    \/ \E op \in CoreOps : \/ OptimizeStreaming(op) \/ ShutdownCoreOp(op)
                           \/ ShutdownFails(op) \/ KeepCoreOp(op)

PrepThread ==
    \/ PrepEndWait \/ PrepStart \/ PrepDequeue \/ PrepBind \/ PrepEndLoop \/ PrepReset
    \/ PrepSignal

Destructor == ShutdownBegin \/ ShutdownJoinScheduler \/ ShutdownDevices

Next ==
    \/ \E op \in CoreOps : User(op) \/ CountRequest(op) \/ Expire(op)
    \/ SetTimeoutEnd
    \/ \E d \in Devices : Device(d)
    \/ Thread
    \/ PrepThread
    \/ Destructor

(* Threads run, devices complete what was launched, time passes; the users owe
   nothing beyond finishing a call they have begun. *)
Fairness ==
    /\ \A op \in CoreOps : WF_vars(CountRequest(op)) /\ WF_vars(Expire(op))
    /\ WF_vars(SetTimeoutEnd)
    /\ \A d \in Devices : WF_vars(Device(d))
    /\ WF_vars(Thread)
    /\ WF_vars(PrepThread)
    /\ WF_vars(ShutdownJoinScheduler)
    /\ WF_vars(ShutdownDevices)

Spec == Init /\ [][Next]_vars

FairSpec == Spec /\ Fairness

-----------------------------------------------------------------------------
(* The variables have their types. *)
Request == [op : CoreOps, r : Nat]
Group == [ops : Seq(CoreOps), next : Nat]
Core == [inst : Nat, prio : Priorities, timeout : {"zero", "finite", "infinite"},
         threshold : Nat, expired : BOOLEAN, last : Devices, pendingQ : Seq(Nat),
         readyQ : Seq(Nat), pending : Nat, ready : Nat, pushed : Nat, out : Seq(Nat),
         bypassed : Nat]
ActiveDeviceInfo ==
    [current : CoreOps \cup {None}, next : CoreOps \cup {None}, batch : Nat, left : Nat,
     ongoing : Nat, hw : CoreOps \cup {None}, inflight : Seq(Request), irq : Seq(Request)]
Send == [op : CoreOps \cup {None}, device : 0..NumDevices, left : Nat,
         back : {"optimize", "switch"}]
SchedulerThread ==
    [pc : {"loop", "wait", "optimize", "decide", "switch", "send", "shutdown", "exit"},
     running : BOOLEAN, execute : BOOLEAN, closest : {"soon", "never"},
     wait : {"soon", "never"}, todo : SUBSET CoreOps, scan : Devices,
     decisions : Seq([op : CoreOps, device : Devices]), send : Send]
PreparingThread ==
    [pc : {"wait", "start", "prepare", "bind", "reset", "signal", "exit"}, running : BOOLEAN,
     execute : BOOLEAN, op : CoreOps \cup {None}, hand : Seq(Nat)]
TypeOK ==
    /\ core \in [CoreOps -> Core]
    /\ groups \in [run : [Priorities -> Group], prep : [Priorities -> Group]]
    /\ dev \in [Devices -> ActiveDeviceInfo]
    /\ th \in SchedulerThread
    /\ prep \in PreparingThread
    /\ setting \in CoreOps \cup {None}
    /\ stopping \in {"no", "join_scheduler", "join_preparing", "done"}

(* assert(ongoing_frames <= max_ongoing_frames) in get_frames_ready_to_transfer:
   otherwise the unsigned subtraction after it wraps around and the scheduler
   would launch more frames than the channels of the core op can hold. And
   send_all_pending_buffers never asks dequeue_infer_request for more requests
   than the two queues hold, although users, the preparing thread and the
   callbacks move requests and counters while the burst is being sent. *)
BurstsFit ==
    /\ \A d \in Devices : dev[d].current # None => dev[d].ongoing <= MaxOngoing[dev[d].current]
    /\ th.pc = "send" =>
          th.send.left <= Len(core[th.send.op].readyQ) + Len(core[th.send.op].pendingQ)

(* While the preparing thread moves requests of a core op from one queue to the
   other, no device runs that core op (prepare_transfer fails on an activated
   channel, and a request in the hand of the thread would be overtaken). And the
   CHECK in prepare_transfers never fails: what schedule() saw when it chose the core
   op to prepare still holds when the preparing thread gets the lock.  Nor does
   assert(curr_device_info->is_idle()) in switch_core_op: a core op leaves a device
   only when none of its requests is on it. *)
ThreadsApart ==
    /\ prep.pc \in {"prepare", "bind"} => \A d \in Devices : dev[d].current # prep.op
    /\ prep.pc = "start" =>
          /\ prep.op # None
          /\ core[prep.op].inst > 0 => IsReadyForPrepare(prep.op, 1)
    /\ th.pc = "switch" /\ th.decisions # <<>> => dev[Head(th.decisions).device].ongoing = 0

(* Requests of a core op are launched in the order enqueue_infer_request accepted
   them: what has not been launched is ready, then in the hand of the preparing
   thread, then pending, and in that order the newest part of what is accepted. *)
NotLaunched(op) ==
    core[op].readyQ \o (IF prep.op = op THEN prep.hand ELSE <<>>) \o core[op].pendingQ
LaunchedInOrder(op) ==
    LET s == NotLaunched(op)
        out == core[op].out
    IN Len(s) <= Len(out) /\ SubSeq(out, Len(out) - Len(s) + 1, Len(out)) = s

(* Requests are launched in order and none is lost or duplicated: every accepted
   request that has not been called back is in exactly one queue, on one device or in
   one callback, through failed preparations, refused launches, removals and failed
   switches. *)
ExactlyOnce ==
    \A op \in CoreOps :
        LET OnDevice(d) == {x.r : x \in {y \in Elements(dev[d].inflight \o dev[d].irq) : y.op = op}}
            launched == UNION {OnDevice(d) : d \in Devices}
            out == core[op].out
        IN /\ LaunchedInOrder(op)
           /\ Elements(out) = launched \cup Elements(NotLaunched(op))
           /\ launched \cap Elements(NotLaunched(op)) = {}
           /\ Cardinality(Elements(out)) = Len(out)

(* Every known core op is in one run group and one prepare group, those of its
   priority, once in each: set_priority asserts it of the group it erases from, and a
   core op in no group, or in two, would starve or run out of turn.  (Checked together
   with the types.) *)
GroupsConsistent ==
    /\ TypeOK
    /\ \A gs \in {groups.run, groups.prep} : \A op \in KnownCoreOps : \A p \in Priorities :
          Len(SelectSeq(gs[p].ops, LAMBDA x : x = op)) = IF p = core[op].prio THEN 1 ELSE 0

(* The round robin of a priority group is fair: between two runs of a core op that
   has requests ready every peer runs at most once, however requests, preparations
   and completions interleave. *)
BoundedBypass == \A op \in CoreOps : core[op].bypassed < Cardinality(CoreOps)

(* Every accepted request is called back, as long as no core op loses its last
   instance and the scheduler is not destroyed: no wakeup of the scheduler thread or
   of the preparing thread is lost. (A core op that is removed and added for ever can
   keep the preparing thread from the others.)  The requests of a core op whose last
   instance was removed are called back as well, unless it gets an instance again or the
   scheduler is destroyed first: VDeviceCoreOp::shutdown_impl waits for it. *)
RequestsFinish ==
    \A op \in CoreOps :
        /\ \A r \in 1..Slots[op] :
              (r \in Elements(core[op].out))
                  ~> \/ r \notin Elements(core[op].out)
                     \/ \E o \in KnownCoreOps : core[o].inst = 0
                     \/ stopping # "no"
        /\ (core[op].inst = 0) ~> (core[op].inst > 0 \/ core[op].out = <<>> \/ stopping # "no")

(* A request of a core op with a finite timeout is called back, whether or not the
   threshold is reached, once the calls of set_timeout are over: "the maximum time
   period that may pass before receiving run time" (network_group.hpp). *)
TimeoutServed ==
    \A op \in CoreOps : \A r \in 1..Slots[op] :
        (r \in Elements(core[op].out) /\ core[op].timeout = "finite" /\ setting = None)
            ~> (r \notin Elements(core[op].out) \/ setting # None)

(* Once the timeout of a core op is over while requests wait, it stays over until the
   core op gets run time or the timeout is changed: "measured from the time the first
   frame enters the queue. It resets when a switch occurs" (hailort.h). *)
TimeoutFromFirstFrame ==
    [][\A op \in CoreOps :
          core[op].expired /\ ~core'[op].expired /\ core[op].pending + core[op].ready > 0
              => core'[op].timeout # core[op].timeout \/ th.pc = "switch"]_vars

(* shutdown() returns: neither join waits forever. *)
ShutdownReturns == (stopping # "no") ~> (stopping = "done")
=============================================================================
