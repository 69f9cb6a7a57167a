-------------------------- MODULE BoundaryChannel ---------------------------
(***************************************************************************)
(* ResourcesManager::create_boundary_vdma_channel and the first launch: a  *)
(* descriptor list of the sizes BufferRequirements finds for a stream is   *)
(* the one TransferSplitter splits its transfers for.  The sizes of the    *)
(* other buffers, and the splits for a list a PcieSession made itself, are *)
(* behaviours of the two parts alone.                                      *)
(***************************************************************************)
EXTENDS TransferSplitter, BufferRequirements

NoCall == [boundary |-> FALSE]
NoSizes == [status |-> "none"]

allVars == <<vars, call, sizes>>

BoundaryInit ==
    \/ Init /\ call = NoCall /\ sizes = NoSizes
    \/ /\ SizesInit
       /\ job = [request |-> <<>>] /\ rest = <<>> /\ chunk = <<>> /\ chunks = <<>>
       /\ remaining = 0 /\ status = "idle"

(* launch_transfer of one frame: its buffer is not split (should_split_buffers is false). *)
LaunchTransfer ==
    /\ call.boundary /\ Sized /\ status = "idle"
    /\ job' = [request |-> <<call.transfer>>, bySize |-> FALSE,
               pageSize |-> sizes.page, descCount |-> sizes.descs]
    /\ rest' = job'.request
    /\ status' = "split"
    /\ UNCHANGED <<chunk, remaining, chunks, call, sizes>>

BoundaryNext ==
    \/ SizesNext /\ UNCHANGED vars
    \/ LaunchTransfer
    \/ Next /\ UNCHANGED <<call, sizes>>

BoundarySpec == BoundaryInit /\ [][BoundaryNext]_allVars /\ WF_allVars(BoundaryNext)

-----------------------------------------------------------------------------
(* A channel that could be created takes a frame: the descriptors the splitter counts
   for it leave one of the list free, whatever pages were found, capped list or not.
   The exception: queue_size was truncated. *)
FrameIsTaken == call.boundary /\ status = "invalid_argument" => Truncated

(* The search of this module's calls ends; a split has none. *)
SizingEnds == call = NoCall \/ SearchEnds
=============================================================================
