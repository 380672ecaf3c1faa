---------------------------- MODULE DecodeSurfaces ----------------------------
(***************************************************************************)
(* The index surfaces of one row of a decode are built twice in the code:  *)
(* eagerly from the batch (EagerSurfaces), and by a kernel inside the CUDA *)
(* graph, from page tables copied into buffers that outlive the forward    *)
(* (kernel/triton/deepseek_v4.py).  The pages a table lists are taken as   *)
(* they are (DecodeTables says whose they are).  The captured row is one   *)
(* row of a capture of one context class; other rows do the same.          *)
(***************************************************************************)
EXTENDS EagerSurfaces

CONSTANTS
  ContextWidth,  \* context width of the captured class
  Sources        \* what a row of a decode batch may be (Legal)

(* What the theorems assume of the configuration and of the batches.         *)
Sensible ==
  /\ Configured
  /\ ContextWidth \in 1 .. MaxSeqLen
  /\ \A s \in Sources : Legal(s)

-------------------------------------------------------------------------------
(* The surfaces of the captured graph.                                       *)

CapturedLen == TableLen(ContextWidth)
\* _empty_decode_metadata
GraphC128Width == Aligned(Greatest(DivCeil(ContextWidth, 128), 1))

\* _copy_2d with fill = -1
Copied(table, width) ==
  [i \in Cells(CapturedLen) |-> IF i < Least(width, CapturedLen) THEN table[i] ELSE -1]

CopyOf(s) ==
  LET width == TableLen(s.maxLen)
  IN  [c4 |-> Copied(s.c4, width), c128 |-> Copied(s.c128, width),
       indexer |-> Copied(s.indexer, width)]

\* A masked load of the kernel.
Load(table, width, i) == IF i \in Cells(width) THEN table[i] ELSE -1

\* The kernel's translation of a full location.
Mapped(s, full) ==
  LET page == full \div PageSize
      swaPage == IF full >= 0 THEN Load(s.swa, NumPages, page) ELSE -1
  IN  IF full = DummyToken THEN DummyPage * PageSize
      ELSE IF full >= 0 /\ swaPage >= 0 THEN swaPage * PageSize + (full - page * PageSize) ELSE -1

GraphSwa(s) ==
  [j \in Cells(Aligned(Window)) |->
     IF j < Window /\ s.pos - j >= 0 THEN Mapped(s, Load(s.ctx, MaxSeqLen, s.pos - j)) ELSE -1]

Entry(table, size, raw) ==
  LET page == Load(table, CapturedLen, raw \div size)
  IN  IF page >= 0 THEN page * size + (raw - (raw \div size) * size) ELSE -1

GraphC4Raw(len) ==
  [j \in Cells(Aligned(IndexTopk)) |->
     IF j < Least(len, IndexTopk) THEN Greatest(len - IndexTopk, 0) + j ELSE -1]

GraphC128(table, len) ==
  [j \in Cells(GraphC128Width) |-> IF j < len THEN Entry(table, C128PageSize, j) ELSE -1]

GraphWrite(table, size, ratio, len) ==
  IF len % ratio = 0 THEN Entry(table, size, len \div ratio - 1) ELSE -1

\* _prep_decode_metadata_in_graph_kernel
Graph(s, copy) ==
  LET len == s.pos + 1
  IN  [swaLen |-> Least(len, Window),
       swa |-> GraphSwa(s),
       swaOut |-> Mapped(s, s.outLoc),
       c128Len |-> Greatest(len \div 128, 1),
       c128 |-> GraphC128(copy.c128, len \div 128),
       c4Out |-> GraphWrite(copy.c4, C4PageSize, 4, len),
       c128Out |-> GraphWrite(copy.c128, C128PageSize, 128, len),
       indexerOut |-> GraphWrite(copy.indexer, C4PageSize, 4, len)]

GraphSparse(s, copy) ==
  LET len == (s.pos + 1) \div 4
      raw == GraphC4Raw(len)
  IN  [len |-> Least(len, IndexTopk),
       raw |-> raw,
       page |-> [j \in DOMAIN raw |->
                   IF j < Least(len, IndexTopk) THEN Entry(copy.c4, C4PageSize, raw[j]) ELSE -1]]

-------------------------------------------------------------------------------
VARIABLES
  mode,      \* "none", or how the running forward was launched: "eager", "graph"
  source,    \* its row
  tables,    \* the component tables of the captured row
  surface,   \* what its attention and its stores read
  sparse     \* the columns of its C4 attention

vars == <<mode, source, tables, surface, sparse>>

Zeros == [i \in Cells(CapturedLen) |-> 0]     \* torch.zeros

Init ==
  /\ mode = "none" /\ source = "none" /\ surface = "none" /\ sparse = "none"
  /\ tables = [c4 |-> Zeros, c128 |-> Zeros, indexer |-> Zeros]

(* A forward that is not captured, or too long for the capture.              *)
RunEager(s) ==
  /\ mode' = "eager" /\ source' = s
  /\ surface' = Eager(s) /\ sparse' = EagerSparse(s)
  /\ UNCHANGED tables

(* _copy_raw_decode_graph_metadata_for_replay raises for a batch that is     *)
(* longer than the class; such a batch is routed to eager decode before.     *)
Replay(s) ==
  /\ s.maxLen <= ContextWidth
  /\ mode' = "graph" /\ source' = s
  /\ tables' = CopyOf(s)
  /\ surface' = Graph(s, tables') /\ sparse' = GraphSparse(s, tables')

\* The component tables in the metadata of the running forward.
CoreTable == IF mode = "graph" THEN tables.c4 ELSE source.c4
CoreWidth == IF mode = "graph" THEN CapturedLen ELSE TableLen(source.maxLen)
Entries == (source.pos + 1) \div 4

(* select_indexer_fp8, once in each C4 layer: the entries the indexer has     *)
(* scored highest replace the recent ones and are looked up again.           *)
Chosen(choice) ==
  [j \in Cells(Aligned(IndexTopk)) |-> IF j \in DOMAIN choice THEN choice[j] ELSE -1]

Select ==
  /\ mode # "none"
  /\ \E choice \in [Cells(Least(Entries, IndexTopk)) -> Cells(Entries)] :
       /\ \A i, j \in DOMAIN choice : choice[i] = choice[j] => i = j
       /\ sparse' = [len |-> Least(Entries, IndexTopk),
                     raw |-> Chosen(choice),
                     page |-> [j \in Cells(Aligned(IndexTopk)) |->
                       ComponentLoc(CoreTable, CoreWidth, C4PageSize, Chosen(choice)[j])]]
  /\ UNCHANGED <<mode, source, tables, surface>>

(* A row with a score that is not finite is rejected (TopK): it gets no entry *)
(* and the length -1, with which the attention reads none (SparseAttention).  *)
NoColumn == [j \in Cells(Aligned(IndexTopk)) |-> -1]
RejectedRow == [len |-> -1, raw |-> NoColumn, page |-> NoColumn]

SelectNone ==
  /\ mode # "none" /\ Entries > 0
  /\ sparse' = RejectedRow
  /\ UNCHANGED <<mode, source, tables, surface>>

Next ==
  \/ \E s \in Sources : RunEager(s) \/ Replay(s)
  \/ Select \/ SelectNone

Spec == Init /\ [][Next]_vars

-------------------------------------------------------------------------------
(* Whatever earlier forwards have left in the capture, and however long they  *)
(* were, a replayed forward finds its window and its long-range entries, and  *)
(* stores its token and its entries, where an eager one would.                *)
LikeEager ==
  mode # "none" =>
    LET e == Eager(source)
    IN  /\ surface.swaLen = e.swaLen /\ surface.c128Len = e.c128Len
        /\ \A j \in Cells(e.swaLen) : surface.swa[j] = e.swa[j]
        /\ \A j \in Cells(e.c128Len) : surface.c128[j] = e.c128[j]
        /\ surface.swaOut = e.swaOut /\ surface.indexerOut = e.indexerOut
        /\ surface.c4Out = e.c4Out /\ surface.c128Out = e.c128Out

(* A compressed entry is looked up where the forward that completed it has    *)
(* stored it: the column of entry i holds the store location of the token     *)
(* that ended group i, for the indexer's choice as for the recent entries.    *)
EntriesAreWhereWritten ==
  mode # "none" =>
    LET width == TableLen(source.maxLen)
    IN  /\ \A j \in Cells(sparse.len) :
             /\ sparse.raw[j] \in Cells(Entries)
             /\ sparse.page[j] = WriteLoc(source.c4, width, C4PageSize, 4, sparse.raw[j] * 4 + 3)
        /\ \A j \in Cells((source.pos + 1) \div 128) :
             surface.c128[j] = WriteLoc(source.c128, width, C128PageSize, 128, j * 128 + 127)

(* The pages of a row up to its position are there, the SWA pages of its      *)
(* window too.                                                                *)
Filled(s) ==
  /\ \A i \in Cells(DivCeil(s.pos + 1, PageSize)) : s.c4[i] >= 0 /\ s.c128[i] >= 0
  /\ \A p \in Greatest(0, s.pos + 1 - Window) .. s.pos :
       /\ s.ctx[p] \in Cells(NumPages * PageSize)
       /\ s.swa[s.ctx[p] \div PageSize] >= 0

(* No surface is too narrow and no column is cut: with its pages in place, a  *)
(* forward reads no hole below its lengths, and it attends to as many entries *)
(* as there are, up to IndexTopk, or, if it was rejected, to none.  The       *)
(* length of the C128 surface is at least 1; before the first group has ended *)
(* its one column is masked.                                                  *)
NoHoles ==
  mode # "none" /\ Filled(source) =>
    /\ \A j \in Cells(surface.swaLen) : surface.swa[j] >= 0
    /\ sparse.len = Least(Entries, IndexTopk) \/ sparse = RejectedRow
    /\ \A j \in Cells(sparse.len) : sparse.page[j] >= 0
    /\ \A j \in Cells((source.pos + 1) \div 128) : surface.c128[j] >= 0
    /\ source.pos + 1 < 128 => surface.c128Len = 1 /\ surface.c128[0] = -1
===============================================================================
