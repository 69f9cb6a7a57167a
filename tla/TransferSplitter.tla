-------------------------- MODULE TransferSplitter --------------------------
(***************************************************************************)
(* TransferSplitter (vdma/channel/transfer_splitter.cpp): the chunks a     *)
(* transfer request is launched in.  A buffer is its size in bytes, a      *)
(* chunk the sequence of its buffers; one step is one turn of a loop.      *)
(***************************************************************************)
EXTENDS Naturals, Sequences, SequencesExt

CONSTANTS
    Alignment,      \* m_dma_alignment
    MaxBuffers,     \* MAX_BUFFERS_IN_REQUEST
    Division,       \* CHUNKS_DIVISION_FACTOR
    PageSizes,      \* page sizes
    DescCounts,     \*   and numbers of descriptors of a list
    MaxBytes,       \* bound: size of a buffer
    MaxLength       \* bound: buffers of a request

VARIABLES
    job,        \* the call: request, the list's pageSize and descCount, and bySize when
                \*   the buffers are memviews and m_should_split_buffers is set
    rest,       \* the buffers from idx (chunk_begin) on
    chunk,      \* current_chunk_buffers
    remaining,  \* descs_remaining
    chunks,     \* the chunks made
    status      \* "split" inside the loop, "success" or "invalid_argument" after it

vars == <<job, rest, chunk, remaining, chunks, status>>

(* m_desc_page_size, m_optimal_descs_in_chunk and m_max_descs_in_chunk *)
PageSize == job.pageSize
OptimalDescs == job.descCount \div Division
MaxDescs == job.descCount - 1

Requests == UNION {[1..n -> 1..MaxBytes] : n \in 1..MaxLength}

(* The optimal chunk covers the alignment, as that of a PcieSession does (otherwise
   split_buffers_by_size never gets to the end of a large buffer). *)
Init ==
    /\ job \in [request : Requests, bySize : BOOLEAN, pageSize : PageSizes, descCount : DescCounts]
    /\ OptimalDescs * PageSize >= Alignment
    /\ rest = job.request
    /\ chunk = <<>>
    /\ remaining = OptimalDescs
    /\ chunks = <<>>
    /\ status = "split"

(* DescriptorList::descriptors_in_buffer *)
DescsInBuffer(b) == (b + PageSize - 1) \div PageSize

(* num_descs of create_transfer_chunk *)
NumDescs(s) == FoldSeq(LAMBDA b, sum : DescsInBuffer(b) + sum, 0, s)

(* HailoRTCommon::align_down *)
AlignDown(n) == n - (n % Alignment)

(* A chunk that has as many buffers as it may have has no room; a version does not
   count them. *)
CountsDescsOnly == remaining
Room == IF Len(chunk) = MaxBuffers THEN 0 ELSE remaining

BySize == status = "split" /\ job.bySize

(* split_buffers_by_size: the next buffer fits. *)
TakeBuffer ==
    /\ BySize /\ rest # <<>>
    /\ DescsInBuffer(Head(rest)) <= Room
    /\ chunk' = Append(chunk, Head(rest))
    /\ remaining' = Room - DescsInBuffer(Head(rest))
    /\ rest' = Tail(rest)
    /\ UNCHANGED <<job, chunks, status>>

(* It does not: its head ends the chunk, if some aligned part fits. *)
CloseChunk ==
    /\ BySize /\ rest # <<>>
    /\ DescsInBuffer(Head(rest)) > Room
    /\ LET bytes == AlignDown(Room * PageSize)
       IN IF bytes > 0
          THEN /\ chunks' = Append(chunks, Append(chunk, bytes))
               /\ rest' = <<Head(rest) - bytes>> \o Tail(rest)
          ELSE /\ chunks' = Append(chunks, chunk)
               /\ UNCHANGED rest
    /\ chunk' = <<>>
    /\ remaining' = OptimalDescs
    /\ UNCHANGED <<job, status>>

LastChunk ==
    /\ BySize /\ rest = <<>>
    /\ chunks' = Append(chunks, chunk)
    /\ chunk' = <<>>
    /\ status' = "success"
    /\ UNCHANGED <<job, rest, remaining>>

(* split_buffers_by_count: the next MAX_BUFFERS_IN_REQUEST buffers, or all that are left. *)
TakeChunk ==
    /\ status = "split" /\ ~job.bySize /\ rest # <<>>
    /\ LET n == IF Len(rest) < MaxBuffers THEN Len(rest) ELSE MaxBuffers
           next == SubSeq(rest, 1, n)
       IN IF NumDescs(next) <= MaxDescs
          THEN /\ chunks' = Append(chunks, next)
               /\ rest' = SubSeq(rest, n + 1, Len(rest))
               /\ UNCHANGED status
          ELSE status' = "invalid_argument" /\ UNCHANGED <<chunks, rest>>
    /\ UNCHANGED <<job, chunk, remaining>>

LastTaken ==
    /\ status = "split" /\ ~job.bySize /\ rest = <<>>
    /\ status' = "success"
    /\ UNCHANGED <<job, rest, chunk, remaining, chunks>>

Next == TakeBuffer \/ CloseChunk \/ LastChunk \/ TakeChunk \/ LastTaken

Spec == Init /\ [][Next]_vars

-----------------------------------------------------------------------------
Bytes(s) == FoldSeq(LAMBDA b, sum : b + sum, 0, s)

(* The offset in the request of the end of each buffer of s. *)
Ends(s) == {Bytes(SubSeq(s, 1, i)) : i \in DOMAIN s}

(* At every turn the chunks made, the current one and the buffers left are the request,
   byte for byte and in order: no boundary of a buffer is lost, and none is added but at
   a multiple of the DMA alignment from the start of its buffer.  No chunk is empty (so
   that the loop ends), nor has more buffers or descriptors than the driver takes: a chunk
   of all the descriptors would wait in m_pending for ever, as one always stays free. *)
SplitIsRight ==
    LET pieces == FlattenSeq(chunks) \o chunk \o rest
        bounds == {0} \cup Ends(job.request)
        Start(n) == CHOOSE m \in bounds : m < n /\ \A k \in bounds : k < n => k <= m
    IN /\ Bytes(pieces) = Bytes(job.request)
       /\ Ends(job.request) \subseteq Ends(pieces)
       /\ \A n \in Ends(pieces) \ bounds : (n - Start(n)) % Alignment = 0
       /\ \A i \in DOMAIN chunks :
             Len(chunks[i]) \in 1..MaxBuffers /\ NumDescs(chunks[i]) \in 1..MaxDescs
=============================================================================
