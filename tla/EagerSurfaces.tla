----------------------------- MODULE EagerSurfaces -----------------------------
(***************************************************************************)
(* The index surfaces that DSV4AttentionBackend._build_metadata makes for  *)
(* one row of a forward (attention/deepseek_v4.py): where its attention    *)
(* finds the sliding window and the compressed entries, and where its own  *)
(* token and entries are stored.  -1 stands for no location.  DecodeSurfaces *)
(* compares them with those of a captured graph, PrefillSurfaces puts the  *)
(* rows of a prefill batch together.                                       *)
(*                                                                         *)
(* The full locations of the entries, which nothing reads, are left out.   *)
(***************************************************************************)
EXTENDS Integers

CONSTANTS
  Window,        \* window_size
  IndexTopk,     \* index_topk
  MaxSeqLen,     \* width of a row of the context's page table, in tokens
  NumPages,      \* full pages of the pool
  DummyToken,    \* _dummy_token_start
  DummyPage      \* _swa_dummy_page

PageSize == 256
C4PageSize == PageSize \div 4
C128PageSize == PageSize \div 128
Alignment == 64

Least(a, b) == IF a <= b THEN a ELSE b
Greatest(a, b) == IF a >= b THEN a ELSE b
DivCeil(a, b) == (a + b - 1) \div b
Aligned(width) == DivCeil(width, Alignment) * Alignment
TableLen(maxLen) == DivCeil(Greatest(maxLen, 1), PageSize)
Cells(n) == 0 .. n - 1

(* One row of a batch: its position, the location its token is stored at,   *)
(* its row of the context's page table, the SWA page of each full page, the *)
(* component tables built for it, and the longest length in the batch.      *)
Legal(s) ==
  /\ s.maxLen \in 1 .. MaxSeqLen /\ s.pos \in 0 .. s.maxLen - 1
  /\ s.outLoc \in Int
  /\ s.ctx \in [Cells(MaxSeqLen) -> Int]
  /\ s.swa \in [Cells(NumPages) -> Int]
  /\ \A t \in {s.c4, s.c128, s.indexer} : t \in [Cells(TableLen(s.maxLen)) -> Int]

(* What the theorems assume of the configuration.                            *)
Configured ==
  /\ Window \in Nat \ {0} /\ IndexTopk \in Nat \ {0}
  /\ MaxSeqLen \in Nat \ {0} /\ NumPages \in Nat \ {0}
  /\ DummyToken \in Nat /\ DummyPage \in Nat

-------------------------------------------------------------------------------
(* The eager surfaces.                                                       *)

\* _gather_full_locs
FullLoc(s, p) == IF p >= 0 THEN s.ctx[p] ELSE -1

\* translate_full_locs_to_swa_locs
Translated(s, full) ==
  LET page == full \div PageSize
      swaPage == s.swa[Greatest(0, Least(page, NumPages - 1))]
  IN  IF full = DummyToken THEN DummyPage * PageSize
      ELSE IF full >= 0 /\ page < NumPages /\ swaPage >= 0
           THEN swaPage * PageSize + (full % PageSize)
           ELSE -1

\* _compressed_raw_to_component_locs: the index is clamped, then masked.
ComponentLoc(table, width, size, raw) ==
  LET at == Greatest(raw, 0)
      page == table[Least(at \div size, width - 1)]
  IN  IF raw >= 0 /\ at \div size < width /\ page >= 0 THEN page * size + (at % size) ELSE -1

\* _component_write_locs_from_page_table.  The code returns the rows that end
\* a group; a row that ends none has no location here.
WriteLoc(table, width, size, ratio, pos) ==
  LET raw == pos \div ratio
  IN  IF (pos + 1) % ratio = 0 /\ raw \div size < width /\ table[raw \div size] >= 0
      THEN table[raw \div size] * size + (raw % size) ELSE -1

\* _make_sparse_compressed_indices, padded.
RecentRaw(len) ==
  [j \in Cells(Aligned(IndexTopk)) |->
     IF j < IndexTopk /\ j < Least(len, IndexTopk) THEN Greatest(len - IndexTopk, 0) + j ELSE -1]

\* _aligned_c128_prefill_width
EagerC128Width(maxLen) == Aligned(Greatest(maxLen \div 128, 1))

\* _c128_prefill_page_indices_kernel
LongEntry(s, len, j) ==
  LET at == j \div C128PageSize
  IN  IF j < len /\ at < TableLen(s.maxLen) /\ s.c128[at] >= 0
      THEN s.c128[at] * C128PageSize + (j % C128PageSize) ELSE -1

\* _build_release_eager_c128_one_surface
EagerC128(s, len) == [j \in Cells(EagerC128Width(s.maxLen)) |-> LongEntry(s, len, j)]

\* _make_swa_indices_direct_token_metadata
TokenWindow(s) == [j \in Cells(Window) |-> Translated(s, FullLoc(s, s.pos - j))]

\* _make_swa_out_loc_for_store
StoreLoc(s) == Translated(s, s.outLoc)

\* _build_metadata
Eager(s) ==
  LET len == s.pos + 1
      width == TableLen(s.maxLen)
  IN  [swaLen |-> Least(len, Window),
       swa |-> TokenWindow(s),
       swaOut |-> StoreLoc(s),
       c128Len |-> Greatest(len \div 128, 1),
       c128 |-> EagerC128(s, len \div 128),
       c4Out |-> WriteLoc(s.c4, width, C4PageSize, 4, s.pos),
       c128Out |-> WriteLoc(s.c128, width, C128PageSize, 128, s.pos),
       indexerOut |-> WriteLoc(s.indexer, width, C4PageSize, 4, s.pos)]

\* and of C4, the part the indexer will replace
EagerSparse(s) ==
  LET raw == RecentRaw((s.pos + 1) \div 4)
  IN  [len |-> Least((s.pos + 1) \div 4, IndexTopk),
       raw |-> raw,
       page |-> [j \in DOMAIN raw |->
                   ComponentLoc(s.c4, TableLen(s.maxLen), C4PageSize, raw[j])]]
===============================================================================
