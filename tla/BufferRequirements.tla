------------------------- MODULE BufferRequirements -------------------------
(***************************************************************************)
(* BufferSizesRequirements (vdma/memory/buffer_requirements.cpp): the page *)
(* size and the length of the descriptor list of a buffer, searched for    *)
(* within the limits of the driver.  One step is one turn of a loop.       *)
(***************************************************************************)
EXTENDS Naturals, FiniteSetsExt

CONSTANTS
    MinPage, DefaultPage, MaxPage,  \* DescSizesParams: page sizes, powers of 2
    MinDescs, MaxDescsCount,        \*   and numbers of descriptors, powers of 2
    CoreQueue,      \* NN_CORE_QUEUE_SIZE_IN_BYTES
    MinScale,       \* MIN_ACTIVE_TRANSFERS_SCALE
    MaxScale,       \* MAX_ACTIVE_TRANSFERS_SCALE
    QueueLimit,     \* UINT16_MAX, the largest queue_size
    MaxTransfer,    \* bound: size of a transfer
    Shmifos,        \* sizes of a stream (max_shmifo_size)
    Batches,        \* batch sizes of a network
    PerFrame        \* transfers of a frame

VARIABLES
    call,   \* the buffer: its transfer and batch sizes and the flags of its caller
    sizes   \* ceiling (max_page_size), page, and descs and status of the result

(* The transfers a boundary channel can queue; queue_size is a uint16_t. *)
MinActive(c) == c.perFrame * MinScale * c.batch
QueueSize(c) ==
    LET most == Max({MinActive(c), c.perFrame * MaxScale})
        optimal == Min({CoreQueue \div (c.perFrame * c.transfer), QueueLimit})
    IN Max({MinActive(c), Min({optimal, most})}) % (QueueLimit + 1)

(* Batch sizes the search must, or should, fit and the one the list is made for. *)
MinBatch == IF call.boundary THEN MinScale ELSE call.batch
MaxBatch == IF call.boundary THEN QueueSize(call) ELSE call.batch

(* The callers: a boundary channel, an inter-context or cache buffer, a DDR buffer and
   a configuration buffer. *)
Caller(boundary, ddr, forceDefault) ==
    [transfer : 1..MaxTransfer, batch : Batches, boundary : {boundary}, ddr : {ddr},
     forceDefault : {forceDefault}, shmifo : IF boundary THEN Shmifos ELSE {0},
     perFrame : IF boundary THEN PerFrame ELSE {1}]
Calls == Caller(TRUE, FALSE, FALSE) \cup Caller(FALSE, FALSE, FALSE)
         \cup Caller(FALSE, TRUE, FALSE)
         \cup {c \in Caller(FALSE, FALSE, TRUE) : c.batch = 1}

Circular == call.boundary \/ call.ddr
ForceBatch == ~call.boundary
Aligned == ~call.boundary

SizesInit ==
    /\ call \in Calls
    /\ sizes = [ceiling |-> IF call.boundary THEN DefaultPage ELSE MaxPage,
                page |-> 0, descs |-> 0, status |-> "search"]

DivUp(n, m) == (n + m - 1) \div m

(* get_nearest_powerof_2 *)
PowerOf2(n, least) ==
    LET from[p \in Nat] == IF n > p THEN from[2 * p] ELSE p IN from[least]

(* get_required_descriptor_count; a version forgets the one that stays free. *)
RequiredTight(page) == DivUp(call.transfer, page)
Required(page) == DivUp(call.transfer, page) + (IF call.ddr THEN 0 ELSE 1)

(* find_initial_desc_page_size *)
InitialPage ==
    IF DefaultPage > call.transfer /\ ~call.forceDefault
    THEN PowerOf2(call.transfer, MinPage)
    ELSE DefaultPage

(* A ceiling equal to the size of the stream is halved. *)
Ceiling == IF call.boundary /\ sizes.ceiling = call.shmifo
           THEN sizes.ceiling \div 2 ELSE sizes.ceiling

(* HAILO_CANT_MEET_BUFFER_REQUIREMENTS: a boundary channel tries larger pages; a version
   tries the same ones. *)
CantMeetTriesAgain(ceiling) ==
    sizes' = IF call.boundary
             THEN [sizes EXCEPT !.ceiling = ceiling, !.status = "search"]
             ELSE [sizes EXCEPT !.status = "cant_meet"]
CantMeet(ceiling) ==
    sizes' = IF call.boundary
             THEN [sizes EXCEPT !.ceiling = 2 * ceiling, !.status = "search"]
             ELSE [sizes EXCEPT !.status = "cant_meet"]

(* The loop of get_buffer_requirements_for_boundary_channels gives up. *)
CeilingExceeded ==
    /\ sizes.status = "search" /\ sizes.ceiling > MaxPage
    /\ sizes' = [sizes EXCEPT !.status = "cant_meet"]
    /\ UNCHANGED call

(* A turn of it, or the call of another buffer, as far as the loop over page sizes. *)
Search ==
    /\ sizes.status = "search" /\ sizes.ceiling <= MaxPage
    /\ IF InitialPage > Ceiling \/ InitialPage < MinPage
       THEN sizes' = [sizes EXCEPT !.status = "internal_failure"]
       ELSE IF Required(Ceiling) > MaxDescsCount
       THEN CantMeet(Ceiling)
       ELSE sizes' = [sizes EXCEPT !.ceiling = Ceiling, !.page = InitialPage, !.status = "grow"]
    /\ UNCHANGED call

BatchFits(page) == Required(page) * MinBatch <= MaxDescsCount - 1

(* Too many descriptors: pages of twice the size, or of the largest one if a smaller
   batch is acceptable.  Twice MaxPage fits in a uint16_t. *)
DoublePage ==
    /\ sizes.status = "grow" /\ ~BatchFits(sizes.page) /\ 2 * sizes.page <= sizes.ceiling
    /\ sizes' = [sizes EXCEPT !.page = 2 * @]
    /\ UNCHANGED call

LargestPage ==
    /\ sizes.status = "grow" /\ ~BatchFits(sizes.page) /\ 2 * sizes.page > sizes.ceiling
    /\ IF ForceBatch
       THEN CantMeet(sizes.ceiling)
       ELSE sizes' = [sizes EXCEPT !.page = sizes.ceiling, !.status = "found"]
    /\ UNCHANGED call

(* The batch fits; a version doubles the page once more. *)
PageFoundOneLate ==
    /\ sizes.status = "grow" /\ BatchFits(sizes.page)
    /\ sizes' = [sizes EXCEPT !.page = Min({2 * @, sizes.ceiling}), !.status = "found"]
    /\ UNCHANGED call
PageFound ==
    /\ sizes.status = "grow" /\ BatchFits(sizes.page)
    /\ sizes' = [sizes EXCEPT !.status = "found"]
    /\ UNCHANGED call

(* The length of the list for the page size found (get_buffer_requirements_single_transfer,
   after the last check of get_buffer_requirements_multiple_transfers). *)
Measure ==
    /\ sizes.status = "found"
    /\ LET page == sizes.page
           perTransfer == DivUp(call.transfer, page) + (IF Aligned THEN 0 ELSE 1)
           descs == Max({Min({perTransfer * MaxBatch + 1, MaxDescsCount}), MinDescs})
       IN IF Circular /\ PowerOf2(Required(page), MinDescs) > MaxDescsCount
          THEN CantMeet(sizes.ceiling)
          ELSE sizes' = [sizes EXCEPT !.status = "success",
                                      !.descs = IF Circular THEN PowerOf2(descs, MinDescs)
                                                            ELSE descs]
    /\ UNCHANGED call

SizesNext == CeilingExceeded \/ Search \/ DoublePage \/ LargestPage \/ PageFound \/ Measure

-----------------------------------------------------------------------------
Sized == sizes.status = "success"
Powers == {2^k : k \in 0..16}

(* The batch of frames of a boundary channel is too large for queue_size, a uint16_t. *)
Truncated == call.boundary /\ MinActive(call) > QueueLimit

(* The sizes found work, and none is missed.  They are within the limits of the driver,
   and a circular list is a power of 2 (DescriptorList::create refuses another); one
   descriptor stays free when the whole batch of an internal buffer is in the list, and
   when the whole queue of a boundary channel is, if the driver allows a list for it;
   and the pages are not the size of the stream, "invalid solution", for a stream of at
   least a default page.  No page size the search passed over holds the batch, and a
   buffer is refused only if the largest pages do not hold its batch (of a boundary
   channel, one transfer).  An internal failure is left to a stream of exactly a default
   page: the ceiling is halved for it, and the first page size tried is not. *)
SizesAreRight ==
    /\ Sized =>
        /\ sizes.page \in Powers \cap MinPage..MaxPage
        /\ sizes.descs \in MinDescs..MaxDescsCount
        /\ Circular => sizes.descs \in Powers
        /\ ~call.boundary => DivUp(call.transfer, sizes.page) * call.batch < sizes.descs
        /\ call.boundary => \/ (DivUp(call.transfer, sizes.page) + 1) * QueueSize(call) < sizes.descs
                            \/ sizes.descs = MaxDescsCount
        /\ call.boundary /\ call.shmifo >= DefaultPage => sizes.page # call.shmifo
        /\ \A p \in Powers : p \in InitialPage..(sizes.page - 1) => ~BatchFits(p)
    /\ sizes.status = "cant_meet" =>
           IF call.boundary THEN Required(MaxPage) > MaxDescsCount ELSE ~BatchFits(MaxPage)
    /\ sizes.status = "internal_failure" => call.boundary /\ call.shmifo = DefaultPage

(* Doubled and halved for ever: the pages a transfer needs are those of the size of the
   stream, or larger. *)
Endless ==
    /\ call.boundary
    /\ call.shmifo \in Powers \cap (2 * DefaultPage)..MaxPage
    /\ Required(call.shmifo \div 2) > MaxDescsCount

(* The search for the page size ends, with sizes or with an error, unless it is Endless. *)
SearchEnds == Endless \/ <>(sizes.status \notin {"search", "grow", "found"})
=============================================================================
