------------------------- MODULE SurfacesProofs -------------------------
(* A replayed decode forward sees the surfaces an eager one would build, and   *)
(* both see the entries where they were stored, for every window, top-k,       *)
(* context class, pool and history of forwards; a prefill finds its window and *)
(* its entries where they are, whatever pages have moved; and what those       *)
(* entries hold is what a compressor would compute that sees the whole text.   *)
EXTENDS DecodeSurfaces, PrefillSurfaces, SparseAttention, Compressor, FiniteSetTheorems,
        SequenceTheorems, TLAPS

\* The table of a batch has a cell for each page up to its longest length.
LEMMA TableCovers ==
  ASSUME NEW n \in Nat \ {0}, NEW p \in 0 .. n - 1
  PROVE  /\ TableLen(n) \in Nat \ {0}
         /\ p \div PageSize \in Cells(TableLen(n))
         /\ DivCeil(p + 1, PageSize) <= TableLen(n)
BY DEF TableLen, DivCeil, Greatest, PageSize, Cells

LEMMA CopyFits ==
  ASSUME Sensible, NEW n \in 1 .. ContextWidth
  PROVE  TableLen(n) <= CapturedLen /\ CapturedLen \in Nat
BY DEF Configured, Sensible, CapturedLen, TableLen, DivCeil, Greatest, PageSize

\* The two translations of a full location into an SWA location agree.
LEMMA MappedIsTranslated ==
  ASSUME Sensible, NEW s \in Sources, NEW full \in Int
  PROVE  Mapped(s, full) = Translated(s, full)
<1>1. s.swa \in [Cells(NumPages) -> Int] /\ NumPages \in Nat \ {0}
  BY DEF Configured, Sensible, Legal
<1>2. ~(full >= 0) => Mapped(s, full) = Translated(s, full)
  BY <1>1 DEF Mapped, Translated
<1>3. ASSUME full >= 0 PROVE Mapped(s, full) = Translated(s, full)
  <2>1. full \div PageSize \in Nat /\ full % PageSize = full - (full \div PageSize) * PageSize
    BY <1>3 DEF PageSize
  <2>2. CASE full \div PageSize < NumPages
    <3>1. Greatest(0, Least(full \div PageSize, NumPages - 1)) = full \div PageSize
      BY <2>1, <2>2, <1>1 DEF Greatest, Least
    <3>2. Load(s.swa, NumPages, full \div PageSize) = s.swa[full \div PageSize]
      BY <2>1, <2>2, <1>1 DEF Load, Cells
    <3> QED BY <3>1, <3>2, <2>1, <2>2, <1>3 DEF Mapped, Translated
  <2>3. CASE ~(full \div PageSize < NumPages)
    <3>1. Load(s.swa, NumPages, full \div PageSize) = -1
      BY <2>1, <2>3, <1>1 DEF Load, Cells
    <3> QED BY <3>1, <2>3, <1>3 DEF Mapped, Translated
  <2> QED BY <2>2, <2>3
<1> QED BY <1>2, <1>3

\* A copied table gives an entry the location the table itself gives it.
LEMMA EntryIsComponentLoc ==
  ASSUME Sensible, NEW n \in 1 .. ContextWidth,
         NEW t \in [Cells(TableLen(n)) -> Int],
         NEW size \in {C4PageSize, C128PageSize}, NEW raw \in Nat
  PROVE  Entry(Copied(t, TableLen(n)), size, raw) = ComponentLoc(t, TableLen(n), size, raw)
<1> DEFINE W == TableLen(n)
           cell == raw \div size
<1>1. W <= CapturedLen /\ CapturedLen \in Nat /\ W \in Nat \ {0}
  BY CopyFits, TableCovers DEF Configured, Sensible
<1>2. size \in Nat \ {0} /\ cell \in Nat /\ raw % size = raw - cell * size
  BY DEF C4PageSize, C128PageSize, PageSize
<1>3. Greatest(raw, 0) = raw
  BY DEF Greatest
<1>4. CASE cell < W
  <2>1. Load(Copied(t, W), CapturedLen, cell) = t[cell]
    BY <1>1, <1>2, <1>4 DEF Load, Copied, Cells, Least
  <2>2. t[Least(cell, W - 1)] = t[cell]
    BY <1>1, <1>2, <1>4 DEF Least
  <2> HIDE DEF W
  <2> QED BY <2>1, <2>2, <1>2, <1>3, <1>4 DEF Entry, ComponentLoc, W
<1>5. CASE ~(cell < W)
  <2>1. Load(Copied(t, W), CapturedLen, cell) = -1
    BY <1>1, <1>2, <1>5 DEF Load, Copied, Cells, Least
  <2> HIDE DEF W
  <2> QED BY <2>1, <1>3, <1>5 DEF Entry, ComponentLoc, W
<1> QED BY <1>4, <1>5

\* The store location of a token that ends a group is that of the group's entry.
LEMMA GroupEnd ==
  ASSUME NEW pos \in Nat, NEW ratio \in {4, 128}, (pos + 1) % ratio = 0
  PROVE  (pos + 1) \div ratio - 1 = pos \div ratio /\ pos \div ratio \in Nat
OBVIOUS

LEMMA WritesAgree ==
  ASSUME Sensible, NEW n \in 1 .. ContextWidth, NEW pos \in 0 .. n - 1,
         NEW t \in [Cells(TableLen(n)) -> Int],
         NEW size \in {C4PageSize, C128PageSize}, NEW ratio \in {4, 128}
  PROVE  GraphWrite(Copied(t, TableLen(n)), size, ratio, pos + 1)
           = WriteLoc(t, TableLen(n), size, ratio, pos)
<1> DEFINE W == TableLen(n)
           raw == pos \div ratio
<1>1. CASE (pos + 1) % ratio = 0
  <2>1. raw \in Nat /\ (pos + 1) \div ratio - 1 = raw
    BY <1>1, GroupEnd
  <2>2. GraphWrite(Copied(t, W), size, ratio, pos + 1) = ComponentLoc(t, W, size, raw)
    BY <1>1, <2>1, EntryIsComponentLoc DEF GraphWrite
  <2>3. Greatest(raw, 0) = raw /\ W \in Nat \ {0}
    BY <2>1, TableCovers DEF Greatest, Sensible
  <2>4. size \in Nat \ {0} /\ raw \div size \in Nat
    BY <2>1 DEF C4PageSize, C128PageSize, PageSize
  <2>5. raw \div size < W => Least(raw \div size, W - 1) = raw \div size
    BY <2>3, <2>4 DEF Least
  <2> HIDE DEF W, raw
  <2>6. ComponentLoc(t, W, size, raw) =
          IF raw \div size < W /\ t[raw \div size] >= 0
          THEN t[raw \div size] * size + (raw % size) ELSE -1
    BY <2>1, <2>3, <2>4, <2>5 DEF ComponentLoc
  <2> QED BY <1>1, <2>2, <2>6 DEF WriteLoc, raw, W
<1>2. CASE ~((pos + 1) % ratio = 0)
  BY <1>2 DEF GraphWrite, WriteLoc
<1> QED BY <1>1, <1>2

LEMMA LocIsWriteLoc ==
  ASSUME NEW n \in Nat \ {0}, NEW t \in [Cells(TableLen(n)) -> Int],
         NEW size \in {C4PageSize, C128PageSize}, NEW ratio \in {4, 128}, NEW raw \in Nat
  PROVE  ComponentLoc(t, TableLen(n), size, raw)
           = WriteLoc(t, TableLen(n), size, ratio, raw * ratio + (ratio - 1))
<1> DEFINE W == TableLen(n)
           last == raw * ratio + (ratio - 1)
<1>1. last \in Nat /\ (last + 1) % ratio = 0 /\ last \div ratio = raw
  OBVIOUS
<1>2. Greatest(raw, 0) = raw /\ W \in Nat \ {0}
  BY TableCovers DEF Greatest
<1>3. size \in Nat \ {0} /\ raw \div size \in Nat
  BY DEF C4PageSize, C128PageSize, PageSize
<1>4. raw \div size < W => Least(raw \div size, W - 1) = raw \div size
  BY <1>2, <1>3 DEF Least
<1> HIDE DEF W, last
<1> QED BY <1>1, <1>2, <1>3, <1>4 DEF ComponentLoc, WriteLoc, W, last

-------------------------------------------------------------------------------
(* Every column a length admits is inside its surface.                         *)
LEMMA Widths ==
  ASSUME Sensible, NEW s \in Sources
  PROVE  /\ \A j \in Cells(Least(s.pos + 1, Window)) :
              /\ j \in Nat /\ s.pos - j \in 0 .. s.pos
              /\ j \in Cells(Window) /\ j \in Cells(Aligned(Window))
         /\ \A j \in Cells(Greatest((s.pos + 1) \div 128, 1)) :
              /\ j \in Nat /\ j \in Cells(EagerC128Width(s.maxLen))
              /\ s.maxLen <= ContextWidth => j \in Cells(GraphC128Width)
         /\ \A j \in Cells(Least((s.pos + 1) \div 4, IndexTopk)) :
              j \in Nat /\ j \in Cells(IndexTopk) /\ j \in Cells(Aligned(IndexTopk))
<1>1. /\ s.pos \in Nat /\ s.maxLen \in Nat /\ s.pos < s.maxLen
      /\ Window \in Nat \ {0} /\ IndexTopk \in Nat \ {0} /\ ContextWidth \in Nat
  BY DEF Configured, Sensible, Legal
<1>2. \A j \in Cells(Least(s.pos + 1, Window)) :
         /\ j \in Nat /\ s.pos - j \in 0 .. s.pos
         /\ j \in Cells(Window) /\ j \in Cells(Aligned(Window))
  BY <1>1 DEF Cells, Least, Aligned, DivCeil, Alignment
<1>3. \A j \in Cells(Greatest((s.pos + 1) \div 128, 1)) :
         /\ j \in Nat /\ j \in Cells(EagerC128Width(s.maxLen))
         /\ s.maxLen <= ContextWidth => j \in Cells(GraphC128Width)
  BY <1>1 DEF Cells, Greatest, Aligned, DivCeil, Alignment, EagerC128Width, GraphC128Width
<1>4. \A j \in Cells(Least((s.pos + 1) \div 4, IndexTopk)) :
         j \in Nat /\ j \in Cells(IndexTopk) /\ j \in Cells(Aligned(IndexTopk))
  BY <1>1 DEF Cells, Least, Aligned, DivCeil, Alignment
<1> QED BY <1>2, <1>3, <1>4

LEMMA SourceTypes ==
  ASSUME Sensible, NEW s \in Sources
  PROVE  /\ s.pos \in Nat /\ s.maxLen \in Nat \ {0} /\ s.pos \in 0 .. s.maxLen - 1
         /\ s.maxLen <= MaxSeqLen /\ MaxSeqLen \in Nat
         /\ s.outLoc \in Int /\ s.ctx \in [Cells(MaxSeqLen) -> Int]
         /\ s.swa \in [Cells(NumPages) -> Int]
         /\ s.c4 \in [Cells(TableLen(s.maxLen)) -> Int]
         /\ s.c128 \in [Cells(TableLen(s.maxLen)) -> Int]
         /\ s.indexer \in [Cells(TableLen(s.maxLen)) -> Int]
         /\ s.maxLen <= ContextWidth => s.maxLen \in 1 .. ContextWidth
         /\ IndexTopk \in Nat \ {0} /\ Window \in Nat \ {0} /\ ContextWidth \in Nat
BY DEF Configured, Sensible, Legal

\* The C128 column of an ended group, eagerly built, is that group's entry.
LEMMA EagerLongEntry ==
  ASSUME Sensible, NEW s \in Sources, NEW j \in Cells((s.pos + 1) \div 128)
  PROVE  /\ j \in Cells(EagerC128Width(s.maxLen)) /\ j \in Nat
         /\ EagerC128(s, (s.pos + 1) \div 128)[j]
              = ComponentLoc(s.c128, TableLen(s.maxLen), C128PageSize, j)
<1> DEFINE W == TableLen(s.maxLen)
<1>1. j \in Nat /\ s.pos \in Nat /\ W \in Nat \ {0}
  <2>1. s.pos \in Nat /\ s.maxLen \in Nat \ {0} /\ s.pos \in 0 .. s.maxLen - 1
    BY SourceTypes
  <2>2. W \in Nat \ {0}
    BY <2>1, TableCovers
  <2>3. j \in Nat
    BY <2>1 DEF Cells
  <2> QED BY <2>1, <2>2, <2>3
<1>2. j \in Cells(Greatest((s.pos + 1) \div 128, 1)) /\ j < (s.pos + 1) \div 128
  BY <1>1 DEF Cells, Greatest
<1>3. j \in Cells(EagerC128Width(s.maxLen))
  BY <1>2, Widths
<1>4. Greatest(j, 0) = j /\ j \div C128PageSize \in Nat
  BY <1>1 DEF Greatest, C128PageSize, PageSize
<1>5. j \div C128PageSize < W => Least(j \div C128PageSize, W - 1) = j \div C128PageSize
  BY <1>1, <1>4 DEF Least
<1> HIDE DEF W
<1>6. EagerC128(s, (s.pos + 1) \div 128)[j] =
        IF j \div C128PageSize < W /\ s.c128[j \div C128PageSize] >= 0
        THEN s.c128[j \div C128PageSize] * C128PageSize + (j % C128PageSize) ELSE -1
  BY <1>2, <1>3 DEF EagerC128, LongEntry, W
<1>7. ComponentLoc(s.c128, W, C128PageSize, j) =
        IF j \div C128PageSize < W /\ s.c128[j \div C128PageSize] >= 0
        THEN s.c128[j \div C128PageSize] * C128PageSize + (j % C128PageSize) ELSE -1
  BY <1>1, <1>4, <1>5 DEF ComponentLoc
<1> QED BY <1>1, <1>3, <1>6, <1>7 DEF W

\* What a replay builds agrees with what an eager forward builds.
LEMMA SurfacesAgree ==
  ASSUME Sensible, NEW s \in Sources, s.maxLen <= ContextWidth
  PROVE  LET g == Graph(s, CopyOf(s))
             e == Eager(s)
         IN  /\ g.swaLen = e.swaLen /\ g.c128Len = e.c128Len
             /\ \A j \in Cells(e.swaLen) : g.swa[j] = e.swa[j]
             /\ \A j \in Cells(e.c128Len) : g.c128[j] = e.c128[j]
             /\ g.swaOut = e.swaOut /\ g.indexerOut = e.indexerOut
             /\ g.c4Out = e.c4Out /\ g.c128Out = e.c128Out
<1> DEFINE W == TableLen(s.maxLen)
           len == s.pos + 1
<1>1. s.maxLen \in 1 .. ContextWidth /\ s.pos \in 0 .. s.maxLen - 1
  BY SourceTypes
<1>2. Graph(s, CopyOf(s)).swaLen = Eager(s).swaLen /\ Graph(s, CopyOf(s)).c128Len = Eager(s).c128Len
  BY DEF Graph, Eager
<1>3. ASSUME NEW j \in Cells(Least(len, Window))
      PROVE  GraphSwa(s)[j] = Translated(s, FullLoc(s, s.pos - j))
  <2>1. /\ j \in Nat /\ s.pos - j \in 0 .. s.pos
        /\ j \in Cells(Window) /\ j \in Cells(Aligned(Window))
    BY Widths
  <2>2. s.pos - j \in Cells(MaxSeqLen) /\ s.pos - j >= 0 /\ j < Window
    BY <2>1, SourceTypes DEF Cells
  <2>3. Load(s.ctx, MaxSeqLen, s.pos - j) = FullLoc(s, s.pos - j)
    BY <2>2 DEF Load, FullLoc
  <2>4. FullLoc(s, s.pos - j) \in Int
    BY <2>2, SourceTypes DEF FullLoc
  <2> QED BY <2>1, <2>2, <2>3, <2>4, MappedIsTranslated DEF GraphSwa
<1>4. \A j \in Cells(Eager(s).swaLen) : Graph(s, CopyOf(s)).swa[j] = Eager(s).swa[j]
  <2>1. Eager(s).swaLen = Least(len, Window) /\ Graph(s, CopyOf(s)).swa = GraphSwa(s)
    BY DEF Eager, Graph
  <2>2. \A j \in Cells(Window) : Eager(s).swa[j] = Translated(s, FullLoc(s, s.pos - j))
    BY DEF Eager, TokenWindow, StoreLoc
  <2> QED BY <1>3, <2>1, <2>2, Widths
<1>5. ASSUME NEW j \in Cells(Greatest(len \div 128, 1))
      PROVE  GraphC128(CopyOf(s).c128, len \div 128)[j] = EagerC128(s, len \div 128)[j]
  <2>1. /\ j \in Nat /\ j \in Cells(EagerC128Width(s.maxLen))
        /\ j \in Cells(GraphC128Width)
    BY Widths
  <2>2. CASE j < len \div 128
    <3>1. j \in Cells(len \div 128)
      BY <2>1, <2>2, SourceTypes DEF Cells
    <3>2. EagerC128(s, len \div 128)[j] = ComponentLoc(s.c128, W, C128PageSize, j)
      BY <3>1, EagerLongEntry
    <3>3. GraphC128(CopyOf(s).c128, len \div 128)[j] = Entry(Copied(s.c128, W), C128PageSize, j)
      BY <2>1, <2>2 DEF GraphC128, CopyOf
    <3> QED BY <1>1, <2>1, <3>2, <3>3, SourceTypes, EntryIsComponentLoc
  <2>3. CASE ~(j < len \div 128)
    BY <2>1, <2>3 DEF GraphC128, EagerC128, LongEntry
  <2> QED BY <2>2, <2>3
<1>6. \A j \in Cells(Eager(s).c128Len) : Graph(s, CopyOf(s)).c128[j] = Eager(s).c128[j]
  BY <1>5 DEF Eager, Graph
<1>7. Mapped(s, s.outLoc) = Translated(s, s.outLoc)
  BY SourceTypes, MappedIsTranslated
<1>8. Graph(s, CopyOf(s)).swaOut = Eager(s).swaOut
  BY <1>7 DEF Eager, TokenWindow, StoreLoc, Graph
<1>9. /\ Graph(s, CopyOf(s)).indexerOut = Eager(s).indexerOut
      /\ Graph(s, CopyOf(s)).c4Out = Eager(s).c4Out
      /\ Graph(s, CopyOf(s)).c128Out = Eager(s).c128Out
  <2>1. /\ CopyOf(s).c4 = Copied(s.c4, W) /\ CopyOf(s).c128 = Copied(s.c128, W)
        /\ CopyOf(s).indexer = Copied(s.indexer, W)
    BY DEF CopyOf
  <2>2. GraphWrite(CopyOf(s).indexer, C4PageSize, 4, len) = WriteLoc(s.indexer, W, C4PageSize, 4, s.pos)
    BY <1>1, <2>1, SourceTypes, WritesAgree
  <2>3. GraphWrite(CopyOf(s).c4, C4PageSize, 4, len) = WriteLoc(s.c4, W, C4PageSize, 4, s.pos)
    BY <1>1, <2>1, SourceTypes, WritesAgree
  <2>4. GraphWrite(CopyOf(s).c128, C128PageSize, 128, len) = WriteLoc(s.c128, W, C128PageSize, 128, s.pos)
    BY <1>1, <2>1, SourceTypes, WritesAgree
  <2> QED BY <2>2, <2>3, <2>4 DEF Eager, Graph
<1> QED BY <1>2, <1>4, <1>6, <1>8, <1>9

-------------------------------------------------------------------------------
(* The running forward's surfaces are the ones its launch builds, the captured *)
(* tables are its tables, and the C4 columns are entries of its own text,      *)
(* whoever chose them.                                                         *)
Built ==
  /\ source \in Sources
  /\ mode = "eager" => surface = Eager(source)
  /\ mode = "graph" => /\ source.maxLen <= ContextWidth
                       /\ tables = CopyOf(source)
                       /\ surface = Graph(source, tables)

Sparse ==
  /\ sparse.len = Least(Entries, IndexTopk) \/ sparse = RejectedRow
  /\ \A j \in Cells(sparse.len) :
       /\ sparse.raw[j] \in Cells(Entries)
       /\ sparse.page[j] = ComponentLoc(source.c4, TableLen(source.maxLen), C4PageSize,
                                        sparse.raw[j])

IInv ==
  /\ mode \in {"none", "eager", "graph"}
  /\ mode # "none" => Built /\ Sparse

LEMMA InitHolds == Init => IInv
BY DEF Init, IInv

\* The most recent entries, in either form.
LEMMA RecentEntries ==
  ASSUME Sensible, NEW s \in Sources,
         NEW j \in Cells(Least((s.pos + 1) \div 4, IndexTopk))
  PROVE  /\ j \in Cells(Aligned(IndexTopk)) /\ j < Least((s.pos + 1) \div 4, IndexTopk)
         /\ RecentRaw((s.pos + 1) \div 4)[j] = GraphC4Raw((s.pos + 1) \div 4)[j]
         /\ RecentRaw((s.pos + 1) \div 4)[j] \in Cells((s.pos + 1) \div 4)
         /\ RecentRaw((s.pos + 1) \div 4)[j] \in Nat
<1>1. j \in Nat /\ j \in Cells(IndexTopk) /\ j \in Cells(Aligned(IndexTopk))
  BY Widths
<1>2. s.pos \in Nat /\ IndexTopk \in Nat \ {0}
  BY SourceTypes
<1>3. j < Least((s.pos + 1) \div 4, IndexTopk) /\ j < IndexTopk
  BY <1>1, <1>2 DEF Cells, Least
<1>4. /\ RecentRaw((s.pos + 1) \div 4)[j] = Greatest((s.pos + 1) \div 4 - IndexTopk, 0) + j
      /\ GraphC4Raw((s.pos + 1) \div 4)[j] = Greatest((s.pos + 1) \div 4 - IndexTopk, 0) + j
  BY <1>1, <1>3 DEF RecentRaw, GraphC4Raw
<1>5. /\ Greatest((s.pos + 1) \div 4 - IndexTopk, 0) + j \in Cells((s.pos + 1) \div 4)
      /\ Greatest((s.pos + 1) \div 4 - IndexTopk, 0) + j \in Nat
  BY <1>1, <1>2, <1>3 DEF Cells, Greatest, Least
<1> QED BY <1>1, <1>3, <1>4, <1>5

LEMMA RunEagerStep ==
  ASSUME Sensible, IInv, NEW s \in Sources, RunEager(s)
  PROVE  IInv'
<1>1. mode' = "eager" /\ source' = s /\ surface' = Eager(s) /\ sparse' = EagerSparse(s)
  BY DEF RunEager
<1>2. Built'
  BY <1>1 DEF Built
<1>3. sparse'.len = Least((s.pos + 1) \div 4, IndexTopk)
  BY <1>1 DEF EagerSparse
<1>4. ASSUME NEW j \in Cells(Least((s.pos + 1) \div 4, IndexTopk))
      PROVE  /\ sparse'.raw[j] \in Cells((s.pos + 1) \div 4)
             /\ sparse'.page[j] = ComponentLoc(s.c4, TableLen(s.maxLen), C4PageSize, sparse'.raw[j])
  <2>1. sparse'.raw = RecentRaw((s.pos + 1) \div 4)
    BY <1>1 DEF EagerSparse
  <2>2. DOMAIN RecentRaw((s.pos + 1) \div 4) = Cells(Aligned(IndexTopk))
    BY DEF RecentRaw
  <2>3. j \in Cells(Aligned(IndexTopk))
    BY RecentEntries
  <2>4. sparse'.page[j] = ComponentLoc(s.c4, TableLen(s.maxLen), C4PageSize, sparse'.raw[j])
    BY <1>1, <2>1, <2>2, <2>3 DEF EagerSparse
  <2> QED BY <2>1, <2>4, RecentEntries
<1>5. Sparse'
  BY <1>1, <1>3, <1>4 DEF Sparse, Entries
<1> QED BY <1>1, <1>2, <1>5 DEF IInv

LEMMA ReplayStep ==
  ASSUME Sensible, IInv, NEW s \in Sources, Replay(s)
  PROVE  IInv'
<1>1. /\ mode' = "graph" /\ source' = s /\ s.maxLen <= ContextWidth /\ tables' = CopyOf(s)
      /\ surface' = Graph(s, CopyOf(s)) /\ sparse' = GraphSparse(s, CopyOf(s))
  BY DEF Replay
<1>2. Built'
  BY <1>1 DEF Built
<1>3. sparse'.len = Least((s.pos + 1) \div 4, IndexTopk)
  BY <1>1 DEF GraphSparse
<1>4. ASSUME NEW j \in Cells(Least((s.pos + 1) \div 4, IndexTopk))
      PROVE  /\ sparse'.raw[j] \in Cells((s.pos + 1) \div 4)
             /\ sparse'.page[j] = ComponentLoc(s.c4, TableLen(s.maxLen), C4PageSize, sparse'.raw[j])
  <2>1. sparse'.raw = GraphC4Raw((s.pos + 1) \div 4)
    BY <1>1 DEF GraphSparse
  <2>2. DOMAIN GraphC4Raw((s.pos + 1) \div 4) = Cells(Aligned(IndexTopk))
    BY DEF GraphC4Raw
  <2>3. /\ j \in Cells(Aligned(IndexTopk)) /\ j < Least((s.pos + 1) \div 4, IndexTopk)
        /\ sparse'.raw[j] \in Cells((s.pos + 1) \div 4) /\ sparse'.raw[j] \in Nat
    BY <2>1, RecentEntries
  <2>4. sparse'.page[j] = Entry(CopyOf(s).c4, C4PageSize, sparse'.raw[j])
    BY <1>1, <2>1, <2>2, <2>3 DEF GraphSparse
  <2>5. CopyOf(s).c4 = Copied(s.c4, TableLen(s.maxLen))
    BY DEF CopyOf
  <2>6. s.maxLen \in 1 .. ContextWidth /\ s.c4 \in [Cells(TableLen(s.maxLen)) -> Int]
    BY <1>1, SourceTypes
  <2> QED BY <2>3, <2>4, <2>5, <2>6, EntryIsComponentLoc
<1>5. Sparse'
  BY <1>1, <1>3, <1>4 DEF Sparse, Entries
<1> QED BY <1>1, <1>2, <1>5 DEF IInv

\* The copied table and the table itself look an entry up alike.
LEMMA CopyLooksUpAlike ==
  ASSUME Sensible, NEW s \in Sources, s.maxLen <= ContextWidth, NEW raw \in Nat
  PROVE  ComponentLoc(CopyOf(s).c4, CapturedLen, C4PageSize, raw)
           = ComponentLoc(s.c4, TableLen(s.maxLen), C4PageSize, raw)
<1> DEFINE W == TableLen(s.maxLen)
           cell == raw \div C4PageSize
<1>1. s.maxLen \in 1 .. ContextWidth /\ s.maxLen \in Nat \ {0} /\ s.pos \in 0 .. s.maxLen - 1
  BY SourceTypes
<1>2. W <= CapturedLen /\ CapturedLen \in Nat /\ W \in Nat \ {0}
  BY <1>1, CopyFits, TableCovers
<1>3. Greatest(raw, 0) = raw /\ cell \in Nat
  BY DEF Greatest, C4PageSize, PageSize
<1>4. CopyOf(s).c4 = Copied(s.c4, W)
  BY DEF CopyOf
<1>5. CASE cell < W
  <2>1. Least(cell, W - 1) = cell /\ Least(cell, CapturedLen - 1) = cell /\ cell < CapturedLen
    BY <1>2, <1>3, <1>5 DEF Least
  <2>2. Copied(s.c4, W)[cell] = s.c4[cell]
    BY <1>2, <1>3, <1>5, <2>1 DEF Copied, Cells, Least
  <2> HIDE DEF W
  <2> QED BY <1>3, <1>4, <1>5, <2>1, <2>2 DEF ComponentLoc, W
<1>6. CASE ~(cell < W) /\ cell < CapturedLen
  <2>1. Least(cell, CapturedLen - 1) = cell
    BY <1>2, <1>3, <1>6 DEF Least
  <2>2. Copied(s.c4, W)[cell] = -1
    BY <1>2, <1>3, <1>6 DEF Copied, Cells, Least
  <2> HIDE DEF W
  <2> QED BY <1>3, <1>4, <1>6, <2>1, <2>2 DEF ComponentLoc, W
<1>7. CASE ~(cell < W) /\ ~(cell < CapturedLen)
  <2> HIDE DEF W
  <2> QED BY <1>3, <1>7 DEF ComponentLoc, W
<1> QED BY <1>5, <1>6, <1>7

LEMMA SelectStep ==
  ASSUME Sensible, IInv, Select
  PROVE  IInv'
<1>1. /\ mode # "none" /\ mode' = mode /\ source' = source /\ tables' = tables
      /\ surface' = surface /\ Built /\ source \in Sources
  BY DEF Select, IInv, Built
<1>2. PICK choice \in [Cells(Least(Entries, IndexTopk)) -> Cells(Entries)] :
        sparse' = [len |-> Least(Entries, IndexTopk),
                   raw |-> Chosen(choice),
                   page |-> [j \in Cells(Aligned(IndexTopk)) |->
                     ComponentLoc(CoreTable, CoreWidth, C4PageSize, Chosen(choice)[j])]]
  BY DEF Select
<1>3. Built' /\ Entries' = Entries
  BY <1>1 DEF Built, Entries
<1>4. source.pos \in Nat /\ IndexTopk \in Nat \ {0}
  BY <1>1, SourceTypes
<1>5. ASSUME NEW j \in Cells(Least(Entries, IndexTopk))
      PROVE  /\ sparse'.raw[j] \in Cells(Entries)
             /\ sparse'.page[j] = ComponentLoc(source.c4, TableLen(source.maxLen), C4PageSize,
                                               sparse'.raw[j])
  <2>1. j \in Cells(Aligned(IndexTopk))
    BY <1>1, Widths DEF Entries
  <2>2. Chosen(choice)[j] = choice[j] /\ choice[j] \in Cells(Entries)
    BY <2>1 DEF Chosen
  <2>3. choice[j] \in Nat
    BY <2>2, <1>4 DEF Cells, Entries
  <2>4. sparse'.raw[j] = choice[j]
    BY <1>2, <2>2
  <2>5. sparse'.page[j] = ComponentLoc(CoreTable, CoreWidth, C4PageSize, choice[j])
    BY <1>2, <2>1, <2>2
  <2>6. CASE mode = "graph"
    <3>1. CoreTable = CopyOf(source).c4 /\ CoreWidth = CapturedLen /\ source.maxLen <= ContextWidth
      BY <1>1, <2>6 DEF Built, CoreTable, CoreWidth
    <3> QED BY <1>1, <2>2, <2>3, <2>4, <2>5, <3>1, CopyLooksUpAlike
  <2>7. CASE mode # "graph"
    BY <2>2, <2>4, <2>5, <2>7 DEF CoreTable, CoreWidth
  <2> QED BY <2>6, <2>7
<1>6. Sparse'
  <2>1. sparse'.len = Least(Entries, IndexTopk)
    BY <1>2
  <2> QED BY <1>1, <1>3, <1>5, <2>1 DEF Sparse
<1> QED BY <1>1, <1>3, <1>6 DEF IInv

LEMMA SelectNoneStep ==
  ASSUME Sensible, IInv, SelectNone
  PROVE  IInv'
<1>1. /\ mode # "none" /\ mode' = mode /\ source' = source /\ tables' = tables
      /\ surface' = surface /\ Built /\ sparse' = RejectedRow
  BY DEF SelectNone, IInv
<1>2. Built'
  BY <1>1 DEF Built
<1>3. RejectedRow.len = -1 /\ Cells(-1) = {}
  BY DEF RejectedRow, Cells
<1>4. Sparse'
  BY <1>1, <1>3 DEF Sparse, RejectedRow, NoColumn
<1> QED BY <1>1, <1>2, <1>4 DEF IInv

LEMMA NextHolds == ASSUME Sensible, IInv, [Next]_vars PROVE IInv'
<1>1. ASSUME NEW s \in Sources, RunEager(s) \/ Replay(s) PROVE IInv'
  BY <1>1, RunEagerStep, ReplayStep
<1>2. CASE Select
  BY <1>2, SelectStep
<1>3. CASE SelectNone
  BY <1>3, SelectNoneStep
<1>4. CASE UNCHANGED vars
  BY <1>4 DEF vars, IInv, Built, Sparse, Entries
<1> QED BY <1>1, <1>2, <1>3, <1>4 DEF Next

LEMMA Invariance == ASSUME Sensible PROVE Spec => []IInv
<1>1. IInv /\ [Next]_vars => IInv'
  BY NextHolds
<1> QED BY <1>1, InitHolds, PTL DEF Spec

-------------------------------------------------------------------------------
(* Whatever earlier forwards have left in the capture, a replayed decode       *)
(* forward finds its window and long-range entries, and stores its token and   *)
(* its entries, where _build_metadata would have put them.                     *)
THEOREM ReplayIsLikeEager == ASSUME Sensible PROVE Spec => []LikeEager
<1>1. IInv => LikeEager
  <2> SUFFICES ASSUME IInv, mode # "none"
               PROVE  LikeEager
    BY DEF LikeEager
  <2>1. source \in Sources /\ Built
    BY DEF IInv, Built
  <2>2. CASE mode = "eager"
    BY <2>1, <2>2 DEF Built, LikeEager
  <2>3. CASE mode = "graph"
    <3>1. source.maxLen <= ContextWidth /\ surface = Graph(source, CopyOf(source))
      BY <2>1, <2>3 DEF Built
    <3> QED BY <2>1, <3>1, SurfacesAgree DEF LikeEager
  <2> QED BY <2>2, <2>3 DEF IInv
<1> QED BY <1>1, Invariance, PTL

(* An entry is looked up where the forward that completed its group stored it, *)
(* in an eager forward and in a replay, whichever entries the indexer chose.   *)
THEOREM EntriesFound == ASSUME Sensible PROVE Spec => []EntriesAreWhereWritten
<1>1. IInv => EntriesAreWhereWritten
  <2> SUFFICES ASSUME IInv, mode # "none"
               PROVE  EntriesAreWhereWritten
    BY DEF EntriesAreWhereWritten
  <2>1. source \in Sources /\ Built /\ Sparse
    BY DEF IInv, Built
  <2> DEFINE W == TableLen(source.maxLen)
  <2>2. /\ source.pos \in Nat /\ source.maxLen \in Nat \ {0}
        /\ source.c4 \in [Cells(W) -> Int] /\ source.c128 \in [Cells(W) -> Int]
    BY <2>1, SourceTypes
  <2>3. ASSUME NEW j \in Cells(sparse.len)
        PROVE  /\ sparse.raw[j] \in Cells(Entries)
               /\ sparse.page[j] = WriteLoc(source.c4, W, C4PageSize, 4, sparse.raw[j] * 4 + 3)
    <3>1. /\ sparse.raw[j] \in Cells(Entries)
          /\ sparse.page[j] = ComponentLoc(source.c4, W, C4PageSize, sparse.raw[j])
      BY <2>1 DEF Sparse
    <3>2. sparse.raw[j] \in Nat
      BY <2>2, <3>1 DEF Cells, Entries
    <3>3. ComponentLoc(source.c4, W, C4PageSize, sparse.raw[j])
            = WriteLoc(source.c4, W, C4PageSize, 4, sparse.raw[j] * 4 + (4 - 1))
      BY <2>2, <3>2, LocIsWriteLoc
    <3>4. sparse.raw[j] * 4 + (4 - 1) = sparse.raw[j] * 4 + 3
      BY <3>2
    <3> QED BY <3>1, <3>3, <3>4
  <2>4. ASSUME NEW j \in Cells((source.pos + 1) \div 128)
        PROVE  surface.c128[j] = WriteLoc(source.c128, W, C128PageSize, 128, j * 128 + 127)
    <3>1. j \in Nat /\ j \in Cells(Greatest((source.pos + 1) \div 128, 1))
      BY <2>2 DEF Cells, Greatest
    <3>2. surface.c128[j] = Eager(source).c128[j]
      <4>1. Eager(source).c128Len = Greatest((source.pos + 1) \div 128, 1)
        BY DEF Eager
      <4>2. CASE mode = "eager"
        BY <2>1, <4>2 DEF Built
      <4>3. CASE mode = "graph"
        <5>1. source.maxLen <= ContextWidth /\ surface = Graph(source, CopyOf(source))
          BY <2>1, <4>3 DEF Built
        <5> QED BY <2>1, <3>1, <4>1, <5>1, SurfacesAgree
      <4> QED BY <4>2, <4>3 DEF IInv
    <3>3. Eager(source).c128 = EagerC128(source, (source.pos + 1) \div 128)
      BY DEF Eager
    <3>4. EagerC128(source, (source.pos + 1) \div 128)[j]
            = ComponentLoc(source.c128, W, C128PageSize, j)
      BY <2>1, EagerLongEntry
    <3>5. ComponentLoc(source.c128, W, C128PageSize, j)
            = WriteLoc(source.c128, W, C128PageSize, 128, j * 128 + (128 - 1))
      <4>1. /\ source.maxLen \in Nat \ {0} /\ source.c128 \in [Cells(W) -> Int] /\ j \in Nat
            /\ C128PageSize \in {C4PageSize, C128PageSize} /\ 128 \in {4, 128}
        BY <2>2, <3>1
      <4> QED BY ONLY <4>1, LocIsWriteLoc
    <3>6. j * 128 + (128 - 1) = j * 128 + 127
      BY <3>1
    <3> QED BY <3>2, <3>3, <3>4, <3>5, <3>6
  <2> QED BY <2>3, <2>4 DEF EntriesAreWhereWritten
<1> QED BY <1>1, Invariance, PTL

\* An entry whose group has ended lies on a page the row's text reaches.
LEMMA PageOfEntry ==
  ASSUME NEW n \in Nat \ {0}, NEW pos \in 0 .. n - 1, NEW t \in [Cells(TableLen(n)) -> Int],
         \A i \in Cells(DivCeil(pos + 1, PageSize)) : t[i] >= 0
  PROVE  /\ \A raw \in Cells((pos + 1) \div 4) : ComponentLoc(t, TableLen(n), C4PageSize, raw) >= 0
         /\ \A raw \in Cells((pos + 1) \div 128) :
              ComponentLoc(t, TableLen(n), C128PageSize, raw) >= 0
<1> DEFINE W == TableLen(n)
           reach == DivCeil(pos + 1, PageSize)
<1>1. pos \in Nat /\ W \in Nat \ {0} /\ reach \in Nat /\ reach <= W
  BY TableCovers DEF DivCeil, PageSize
<1>2. C4PageSize = 64 /\ C128PageSize = 2
  BY DEF C4PageSize, C128PageSize, PageSize
<1>3. ASSUME NEW raw \in Nat, NEW size \in {2, 64}, raw \div size < reach
      PROVE  ComponentLoc(t, W, size, raw) >= 0
  <2>1. raw \div size \in Cells(reach) /\ raw \div size \in Cells(W) /\ raw % size \in Nat
    BY <1>1, <1>3 DEF Cells
  <2>2. t[raw \div size] \in Int /\ t[raw \div size] >= 0
    BY <2>1
  <2>3. Greatest(raw, 0) = raw /\ raw \div size < W /\ Least(raw \div size, W - 1) = raw \div size
    BY <1>1, <2>1 DEF Greatest, Least, Cells
  <2>4. ComponentLoc(t, W, size, raw) = t[raw \div size] * size + (raw % size)
    BY <2>2, <2>3 DEF ComponentLoc
  <2>5. t[raw \div size] * size \in Nat
    BY <2>2
  <2> QED BY <2>1, <2>4, <2>5
<1>4. ASSUME NEW raw \in Cells((pos + 1) \div 4) PROVE raw \in Nat /\ raw \div 64 < reach
  BY <1>1 DEF Cells, DivCeil, PageSize
<1>5. ASSUME NEW raw \in Cells((pos + 1) \div 128) PROVE raw \in Nat /\ raw \div 2 < reach
  BY <1>1 DEF Cells, DivCeil, PageSize
<1> QED BY <1>2, <1>3, <1>4, <1>5

\* A position of the window of a row whose pages are in place has an SWA location.
LEMMA WindowHasLocations ==
  ASSUME Sensible, NEW s \in Sources, Filled(s), NEW j \in Cells(Least(s.pos + 1, Window))
  PROVE  Translated(s, FullLoc(s, s.pos - j)) >= 0
<1> DEFINE p == s.pos - j
           full == s.ctx[p]
<1>1. /\ p \in Greatest(0, s.pos + 1 - Window) .. s.pos /\ p >= 0
  BY SourceTypes DEF Cells, Least, Greatest
<1>2. full \in Cells(NumPages * PageSize) /\ s.swa[full \div PageSize] >= 0
  BY <1>1 DEF Filled
<1>3. NumPages \in Nat \ {0} /\ s.swa \in [Cells(NumPages) -> Int] /\ DummyPage \in Nat
  BY SourceTypes DEF Configured, Sensible
<1>4. /\ full \in Nat /\ full \div PageSize \in Cells(NumPages) /\ full % PageSize \in Nat
      /\ full \div PageSize < NumPages
  BY <1>2, <1>3, SMTT(30) DEF Cells, PageSize
<1>5. Greatest(0, Least(full \div PageSize, NumPages - 1)) = full \div PageSize
  BY <1>3, <1>4 DEF Greatest, Least, Cells
<1>6. s.swa[full \div PageSize] \in Int
  BY <1>3, <1>4
<1>7. /\ s.swa[full \div PageSize] * PageSize + (full % PageSize) >= 0
      /\ DummyPage * PageSize >= 0
  BY <1>2, <1>3, <1>4, <1>6 DEF PageSize
<1>8. FullLoc(s, p) = full
  BY <1>1 DEF FullLoc
<1> HIDE DEF full, p
<1>9. Translated(s, full) >= 0
  BY <1>2, <1>4, <1>5, <1>7 DEF Translated
<1> QED BY <1>8, <1>9 DEF p

(* No surface is too narrow: with the pages of its text in place, a forward of *)
(* any length, eager or replayed, reads no hole below its lengths, and before  *)
(* the first C128 group has ended its one column is masked.                    *)
THEOREM NothingIsCut == ASSUME Sensible PROVE Spec => []NoHoles
<1>1. IInv => NoHoles
  <2> SUFFICES ASSUME IInv, mode # "none", Filled(source)
               PROVE  NoHoles
    BY DEF NoHoles
  <2> DEFINE W == TableLen(source.maxLen)
             ended == (source.pos + 1) \div 128
  <2>1. source \in Sources /\ Built /\ Sparse
    BY DEF IInv, Built
  <2>2. /\ source.maxLen \in Nat \ {0} /\ source.pos \in 0 .. source.maxLen - 1 /\ source.pos \in Nat
        /\ source.c4 \in [Cells(W) -> Int] /\ source.c128 \in [Cells(W) -> Int]
    BY <2>1, SourceTypes
  <2>3. /\ surface.swaLen = Eager(source).swaLen /\ surface.c128Len = Eager(source).c128Len
        /\ \A j \in Cells(Eager(source).swaLen) : surface.swa[j] = Eager(source).swa[j]
        /\ \A j \in Cells(Eager(source).c128Len) : surface.c128[j] = Eager(source).c128[j]
    <3>1. CASE mode = "eager"
      BY <2>1, <3>1 DEF Built
    <3>2. CASE mode = "graph"
      <4>1. source.maxLen <= ContextWidth /\ surface = Graph(source, CopyOf(source))
        BY <2>1, <3>2 DEF Built
      <4> QED BY <2>1, <4>1, SurfacesAgree
    <3> QED BY <3>1, <3>2 DEF IInv
  <2>4. ASSUME NEW j \in Cells(surface.swaLen) PROVE surface.swa[j] >= 0
    <3>1. j \in Cells(Least(source.pos + 1, Window))
      BY <2>3 DEF Eager, TokenWindow, StoreLoc
    <3>2. j \in Cells(Window)
      BY <2>1, <3>1, Widths
    <3>3. surface.swa[j] = Translated(source, FullLoc(source, source.pos - j))
      BY <2>3, <3>2 DEF Eager, TokenWindow, StoreLoc
    <3> QED BY <2>1, <3>1, <3>3, WindowHasLocations
  <2>5. sparse.len = Least(Entries, IndexTopk) \/ sparse = RejectedRow
    BY <2>1 DEF Sparse
  <2>6. ASSUME NEW j \in Cells(sparse.len) PROVE sparse.page[j] >= 0
    <3>1. /\ sparse.raw[j] \in Cells((source.pos + 1) \div 4)
          /\ sparse.page[j] = ComponentLoc(source.c4, W, C4PageSize, sparse.raw[j])
      BY <2>1 DEF Sparse, Entries
    <3>2. \A i \in Cells(DivCeil(source.pos + 1, PageSize)) : source.c4[i] >= 0
      BY DEF Filled
    <3> QED BY <2>2, <3>1, <3>2, PageOfEntry
  <2>7. /\ Eager(source).c128Len = Greatest(ended, 1)
        /\ Eager(source).c128 = EagerC128(source, ended)
    BY DEF Eager
  <2>8. ASSUME NEW j \in Cells(ended) PROVE surface.c128[j] >= 0
    <3>1. j \in Cells(Greatest(ended, 1))
      BY <2>2 DEF Cells, Greatest
    <3>2. surface.c128[j] = ComponentLoc(source.c128, W, C128PageSize, j)
      BY <2>1, <2>3, <2>7, <3>1, EagerLongEntry
    <3>3. \A i \in Cells(DivCeil(source.pos + 1, PageSize)) : source.c128[i] >= 0
      BY DEF Filled
    <3> QED BY <2>2, <3>2, <3>3, PageOfEntry
  <2>9. source.pos + 1 < 128 => surface.c128Len = 1 /\ surface.c128[0] = -1
    <3> SUFFICES ASSUME source.pos + 1 < 128
                 PROVE  surface.c128Len = 1 /\ surface.c128[0] = -1
      OBVIOUS
    <3>1. ended = 0 /\ Greatest(ended, 1) = 1 /\ 0 \in Cells(1)
      BY <2>2 DEF Greatest, Cells
    <3>2. 0 \in Cells(Greatest(ended, 1))
      BY <3>1
    <3>3. 0 \in Cells(EagerC128Width(source.maxLen))
      BY <2>1, <3>2, Widths
    <3>4. EagerC128(source, ended)[0] = -1
      BY <3>1, <3>3 DEF EagerC128, LongEntry
    <3> HIDE DEF ended
    <3> QED BY <2>3, <2>7, <3>1, <3>2, <3>4
  <2> QED BY <2>4, <2>5, <2>6, <2>8, <2>9 DEF NoHoles
<1> QED BY <1>1, Invariance, PTL

-------------------------------------------------------------------------------
(* Prefill, from its batch to the attention of its last layer.                *)

LEMMA BatchTypes ==
  ASSUME PrefillSensible, NEW b \in Batches, NEW x \in Rows(b)
  PROVE  LET r == b.reqs[x[1]]
         IN  /\ x[1] \in DOMAIN b.reqs /\ x[1] \in Nat /\ x[2] \in Nat
             /\ x = <<x[1], x[2]>>
             /\ b.maxLen \in 1 .. MaxSeqLen /\ MaxSeqLen \in Nat \ {0}
             /\ LegalRequest(r, b.maxLen)
             /\ r.len \in Nat \ {0} /\ r.len <= b.maxLen
             /\ Pos(b, x) \in Nat /\ Pos(b, x) < r.len /\ x[2] < r.len - r.cached
<1>1. LegalBatch(b)
  BY DEF PrefillSensible
<1>2. PICK n \in Nat \ {0} : DOMAIN b.reqs = Cells(n)
  BY <1>1 DEF LegalBatch
<1>3. /\ x \in (DOMAIN b.reqs) \X Cells(MaxSeqLen)
      /\ x[2] < b.reqs[x[1]].len - b.reqs[x[1]].cached
  BY DEF Rows
<1>4. MaxSeqLen \in Nat \ {0}
  BY DEF PrefillSensible, Configured
<1>5. x[1] \in DOMAIN b.reqs /\ x[1] \in Nat /\ x[2] \in Nat /\ x = <<x[1], x[2]>>
  BY <1>2, <1>3, <1>4 DEF Cells
<1>6. LegalRequest(b.reqs[x[1]], b.maxLen) /\ b.maxLen \in 1 .. MaxSeqLen
  BY <1>1, <1>5 DEF LegalBatch
<1>7. /\ b.reqs[x[1]].len \in 1 .. b.maxLen
      /\ b.reqs[x[1]].cached \in 0 .. b.reqs[x[1]].len - 1
  BY <1>6 DEF LegalRequest
<1>8. Pos(b, x) = b.reqs[x[1]].cached + x[2]
  BY DEF Pos
<1> QED BY <1>3, <1>4, <1>5, <1>6, <1>7, <1>8

\* The number of cells of a request's table.
LEMMA PagesFit ==
  ASSUME NEW n \in Nat \ {0}, NEW len \in 1 .. n
  PROVE  /\ DivCeil(len, PageSize) \in Nat \ {0} /\ DivCeil(len, PageSize) <= TableLen(n)
         /\ TableLen(n) \in Nat \ {0}
         /\ \A i \in Cells(TableLen(n)) : i * PageSize \in Cells(n)
         /\ \A p \in Cells(len) : /\ p \div PageSize \in Cells(DivCeil(len, PageSize))
                                  /\ p \div PageSize \in Cells(TableLen(n))
BY DEF DivCeil, TableLen, Greatest, PageSize, Cells

LEMMA TablesAreTyped ==
  ASSUME PrefillSensible, NEW b \in Batches, NEW k \in DOMAIN b.reqs, NEW m \in Mappings
  PROVE  /\ SwaTable(b.reqs[k], m, TableLen(b.maxLen)) \in [Cells(TableLen(b.maxLen)) -> Int]
         /\ \A c \in Caches :
              ComponentTable(b.reqs[k], c, m, TableLen(b.maxLen)) \in [Cells(TableLen(b.maxLen)) -> Int]
<1> DEFINE r == b.reqs[k]
           W == TableLen(b.maxLen)
<1>1. LegalBatch(b) /\ LegalMapping(m) /\ NumPages \in Nat \ {0} /\ DummyPage \in Nat
      /\ MaxSeqLen \in Nat \ {0}
  BY DEF PrefillSensible, Configured
<1>2. LegalRequest(r, b.maxLen) /\ b.maxLen \in 1 .. MaxSeqLen
  BY <1>1 DEF LegalBatch
<1>3. /\ r.len \in 1 .. b.maxLen /\ r.ctx \in [Cells(MaxSeqLen) -> Int] /\ r.pages \in Nat
      /\ r.handle \in [Caches \cup {"swa"} -> [Cells(r.pages) -> Int]]
  BY <1>2 DEF LegalRequest
<1>4. /\ W \in Nat \ {0}
      /\ \A i \in Cells(W) : i \in Nat /\ r.ctx[i * PageSize] \in Int
  <2>1. b.maxLen \in Nat \ {0} /\ b.maxLen <= MaxSeqLen
    BY <1>1, <1>2
  <2>2. W \in Nat \ {0} /\ \A i \in Cells(W) : i * PageSize \in Cells(b.maxLen)
    BY <2>1, <1>3, PagesFit
  <2>3. \A p \in Cells(b.maxLen) : p \in Cells(MaxSeqLen)
    BY <2>1, <1>1 DEF Cells
  <2>4. \A i \in Cells(W) : r.ctx[i * PageSize] \in Int
    BY <2>2, <2>3, <1>3
  <2>5. \A i \in Cells(W) : i \in Nat
    BY <2>2 DEF Cells
  <2> QED BY <2>2, <2>4, <2>5
<1>5. ASSUME NEW c \in Caches \cup {"swa"}, NEW active \in [Cells(W) -> Int]
      PROVE  Filling(r, r.handle[c], W, active) \in [Cells(W) -> Int]
  <2>1. r.handle[c] \in [Cells(r.pages) -> Int]
    BY <1>3
  <2>2. \A i \in Cells(W) : i < r.pages => r.handle[c][i] \in Int
    BY <2>1, <1>3, <1>4, SMTT(30) DEF Cells
  <2>3. \A i \in Cells(W) : active[i] \in Int
    OBVIOUS
  <2> QED BY <2>2, <2>3 DEF Filling
<1>6. ASSUME NEW c \in Caches \cup {"swa"}, NEW start \in Int
      PROVE  PageFrom(m[c], start) \in Int
  <2>1. m[c] \in [Cells(NumPages) -> Int]
    BY <1>1 DEF LegalMapping
  <2>2. start >= 0 => start \div PageSize \in Nat
    BY DEF PageSize
  <2> QED BY <2>1, <2>2, <1>1 DEF PageFrom, Cells
<1>7. [i \in Cells(W) |-> SwaPageFrom(m["swa"], r.ctx[i * PageSize])] \in [Cells(W) -> Int]
  BY <1>1, <1>4, <1>6 DEF SwaPageFrom
<1>8. \A c \in Caches :
        [i \in Cells(W) |-> PageFrom(m[c], r.ctx[i * PageSize])] \in [Cells(W) -> Int]
  BY <1>4, <1>6
<1> QED BY <1>5, <1>7, <1>8 DEF SwaTable, ComponentTable

LEMMA RowTypes ==
  ASSUME PrefillSensible, NEW b \in Batches, NEW x \in Rows(b), NEW m \in Mappings
  PROVE  LET s == RowOf(b, m, x)
             W == TableLen(b.maxLen)
         IN  /\ s.pos = Pos(b, x) /\ s.pos \in 0 .. b.maxLen - 1 /\ s.pos \in Nat
             /\ s.maxLen = b.maxLen /\ s.maxLen \in Nat \ {0}
             /\ s.swaTable \in [Cells(W) -> Int] /\ s.c4 \in [Cells(W) -> Int]
             /\ s.c128 \in [Cells(W) -> Int] /\ s.indexer \in [Cells(W) -> Int]
<1>1. /\ x[1] \in DOMAIN b.reqs /\ b.maxLen \in 1 .. MaxSeqLen /\ MaxSeqLen \in Nat
      /\ Pos(b, x) \in Nat /\ Pos(b, x) < b.reqs[x[1]].len /\ b.reqs[x[1]].len \in Nat
      /\ b.reqs[x[1]].len <= b.maxLen
  BY BatchTypes
<1>2. /\ SwaTable(b.reqs[x[1]], m, TableLen(b.maxLen)) \in [Cells(TableLen(b.maxLen)) -> Int]
      /\ \A c \in Caches :
           ComponentTable(b.reqs[x[1]], c, m, TableLen(b.maxLen)) \in [Cells(TableLen(b.maxLen)) -> Int]
  BY <1>1, TablesAreTyped
<1> QED BY <1>1, <1>2 DEF RowOf, Caches

LEMMA RowsAreFinite ==
  ASSUME PrefillSensible, NEW b \in Batches
  PROVE  IsFiniteSet(Rows(b)) /\ Rows(b) \subseteq Nat \X Nat
<1>1. PICK n \in Nat \ {0} : DOMAIN b.reqs = Cells(n)
  BY DEF PrefillSensible, LegalBatch
<1>2. MaxSeqLen \in Nat \ {0}
  BY DEF PrefillSensible, Configured
<1>3. IsFiniteSet(Cells(n)) /\ IsFiniteSet(Cells(MaxSeqLen))
  <2>1. IsFiniteSet(0 .. n - 1) /\ IsFiniteSet(0 .. MaxSeqLen - 1)
    BY <1>1, <1>2, FS_Interval
  <2> QED BY <2>1 DEF Cells
<1>4. IsFiniteSet(Cells(n) \X Cells(MaxSeqLen))
  BY <1>3, FS_Product
<1>5. Rows(b) \subseteq Cells(n) \X Cells(MaxSeqLen)
  BY <1>1 DEF Rows
<1>6. IsFiniteSet(Rows(b))
  BY <1>4, <1>5, FS_Subset
<1> QED BY <1>5, <1>6, <1>1, <1>2 DEF Cells

\* The order of the rows numbers a set of them from 0.
LEMMA PlacesDiffer ==
  ASSUME NEW S, IsFiniteSet(S), S \subseteq Nat \X Nat
  PROVE  /\ Cardinality(S) \in Nat
         /\ \A x \in S : Place(S, x) \in Cells(Cardinality(S))
         /\ \A x, y \in S : Place(S, x) = Place(S, y) => x = y
<1> DEFINE Below(x) == {y \in S : Before(y, x)}
<1>1. ASSUME NEW x \in S PROVE x[1] \in Nat /\ x[2] \in Nat /\ x = <<x[1], x[2]>>
  OBVIOUS
<1>2. ASSUME NEW x \in S
      PROVE  /\ IsFiniteSet(Below(x)) /\ Cardinality(Below(x)) \in Nat
             /\ Place(S, x) = Cardinality(Below(x))
  <2>1. Below(x) \in SUBSET S
    OBVIOUS
  <2>2. IsFiniteSet(Below(x))
    BY <2>1, FS_Subset
  <2> QED BY <2>2, FS_CardinalityType DEF Place
<1>3. ASSUME NEW x \in S, NEW T, IsFiniteSet(T), x \in T, Below(x) \subseteq T
      PROVE  Cardinality(T) \in Nat /\ Cardinality(Below(x)) < Cardinality(T)
  <2>1. x \notin Below(x)
    BY <1>1 DEF Before
  <2>2. Below(x) \in SUBSET (T \ {x})
    BY <1>3, <2>1
  <2>3. /\ IsFiniteSet(T \ {x}) /\ Cardinality(T) \in Nat
        /\ Cardinality(T \ {x}) = Cardinality(T) - 1
    BY <1>3, FS_RemoveElement, FS_CardinalityType
  <2>4. Cardinality(Below(x)) <= Cardinality(T \ {x})
    BY <2>2, <2>3, FS_Subset
  <2> QED BY <2>3, <2>4, <1>2
<1>4. ASSUME NEW x \in S, NEW y \in S, Before(x, y)
      PROVE  Cardinality(Below(x)) < Cardinality(Below(y))
  <2>1. x \in Below(y)
    BY <1>4
  <2>2. Below(x) \subseteq Below(y)
    BY <1>4, <1>1 DEF Before
  <2> QED BY <2>1, <2>2, <1>2, <1>3
<1>5. ASSUME NEW x \in S, NEW y \in S, x # y PROVE Before(x, y) \/ Before(y, x)
  BY <1>1, <1>5 DEF Before
<1>6. \A x \in S : Cardinality(Below(x)) < Cardinality(S)
  BY <1>3
<1>7. Cardinality(S) \in Nat
  BY FS_CardinalityType
<1>8. \A x \in S : Place(S, x) \in Cells(Cardinality(S))
  <2> SUFFICES ASSUME NEW x \in S PROVE Place(S, x) \in Cells(Cardinality(S))
    OBVIOUS
  <2>1. Place(S, x) \in Nat /\ Place(S, x) < Cardinality(S)
    BY <1>2, <1>6
  <2> QED BY <2>1, <1>7 DEF Cells
<1>9. ASSUME NEW x \in S, NEW y \in S, Place(S, x) = Place(S, y), x # y PROVE FALSE
  <2>1. Place(S, x) \in Nat /\ Place(S, y) \in Nat
    BY <1>2
  <2>2. Place(S, x) < Place(S, y) \/ Place(S, y) < Place(S, x)
    BY <1>2, <1>4, <1>5, <1>9
  <2> QED BY <2>1, <2>2, <1>9
<1> QED BY <1>7, <1>8, <1>9

LEMMA ListedInOrder ==
  ASSUME NEW S, IsFiniteSet(S), S \subseteq Nat \X Nat
  PROVE  /\ DOMAIN Listed(S) = Cells(Cardinality(S))
         /\ \A i \in Cells(Cardinality(S)) : Listed(S)[i] \in S
         /\ \A x \in S : \E i \in Cells(Cardinality(S)) : Listed(S)[i] = x
<1> DEFINE n == Cardinality(S)
           f == [x \in S |-> Place(S, x)]
<1>1. /\ n \in Nat
      /\ \A x \in S : Place(S, x) \in Cells(n)
      /\ \A x, y \in S : Place(S, x) = Place(S, y) => x = y
  BY PlacesDiffer
<1>2. f \in Injection(S, Cells(n))
  BY <1>1 DEF Injection, IsInjective
<1>3. IsFiniteSet(Cells(n)) /\ Cardinality(Cells(n)) = n
  <2>1. IsFiniteSet(0 .. n - 1) /\ Cardinality(0 .. n - 1) = IF 0 > n - 1 THEN 0 ELSE n - 1 - 0 + 1
    BY ONLY <1>1, FS_Interval, 0 \in Int, n - 1 \in Int
  <2> QED BY <2>1, <1>1 DEF Cells
<1>4. f \in Surjection(S, Cells(n))
  BY <1>2, <1>3, FS_Injection
<1>5. \A i \in Cells(n) : \E x \in S : Place(S, x) = i
  BY <1>4 DEF Surjection
<1>6. \A i \in Cells(n) : Listed(S)[i] \in S /\ Place(S, Listed(S)[i]) = i
  BY <1>5 DEF Listed
<1>7. \A x \in S : Listed(S)[Place(S, x)] = x
  BY <1>1, <1>6
<1> QED BY <1>1, <1>6, <1>7 DEF Listed

\* A settled request finds its window alike in the table of SWA pages and token
\* by token, through any two mappings with the same SWA pages.
LEMMA WindowsAgree ==
  ASSUME PrefillSensible, NEW b \in Batches, NEW x \in Rows(b),
         NEW m \in Mappings, NEW now \in Mappings, m["swa"] = now["swa"],
         Settled(b.reqs[x[1]], now), NEW j \in Cells(Least(Pos(b, x) + 1, Window))
  PROVE  PagedWindow(RowOf(b, m, x))[j] = Eager(RowOf(b, now, x)).swa[j]
<1> DEFINE r == b.reqs[x[1]]
           W == TableLen(b.maxLen)
           p == Pos(b, x) - j
           cell == p \div PageSize
           start == r.ctx[cell * PageSize]
           full == r.ctx[p]
           page == now["swa"][start \div PageSize]
           table == SwaTable(r, m, W)
<1>1. /\ x[1] \in DOMAIN b.reqs /\ b.maxLen \in 1 .. MaxSeqLen /\ MaxSeqLen \in Nat
      /\ LegalRequest(r, b.maxLen) /\ r.len \in Nat \ {0} /\ r.len <= b.maxLen
      /\ Pos(b, x) \in Nat /\ Pos(b, x) < r.len
  BY BatchTypes
<1>2. Window \in Nat \ {0} /\ NumPages \in Nat \ {0} /\ DummyPage \in Nat /\ DummyToken \in Nat
  BY DEF PrefillSensible, Configured
<1>3. j \in Cells(Window) /\ j \in Nat /\ p \in Nat /\ p \in Cells(r.len) /\ p < r.len
  BY <1>1, <1>2 DEF Cells, Least
<1>4. /\ W \in Nat \ {0} /\ cell \in Nat /\ cell < W /\ cell < DivCeil(r.len, PageSize)
      /\ cell \in Cells(W) /\ cell \in Cells(DivCeil(r.len, PageSize))
  <2>1. b.maxLen \in Nat \ {0} /\ r.len \in 1 .. b.maxLen
    BY <1>1
  <2>2. /\ DivCeil(r.len, PageSize) \in Nat /\ W \in Nat \ {0}
        /\ cell \in Cells(DivCeil(r.len, PageSize)) /\ cell \in Cells(W)
    BY <2>1, <1>3, PagesFit
  <2> QED BY <2>2 DEF Cells
<1>5. /\ start \in Cells(NumPages * PageSize) /\ start % PageSize = 0
      /\ full = start + (p % PageSize) /\ full # DummyToken /\ start # DummyToken
  BY <1>3 DEF Settled
<1>6. /\ start \in Nat /\ start \div PageSize \in Cells(NumPages)
      /\ full \in Nat /\ full \div PageSize = start \div PageSize
      /\ full % PageSize = p % PageSize /\ p % PageSize \in Nat
      /\ start \div PageSize \in Nat /\ start \div PageSize < NumPages
  BY <1>2, <1>3, <1>5 DEF Cells, PageSize
<1>7. now["swa"] \in [Cells(NumPages) -> Int] /\ page \in Int
  <2>1. now["swa"] \in [Cells(NumPages) -> Int]
    BY DEF PrefillSensible, LegalMapping
  <2> QED BY <2>1, <1>6
<1>8. table[cell] = page
  <2>1. SwaPageFrom(m["swa"], start) = page
    <3> DEFINE g == start \div PageSize
    <3>1. start # DummyToken /\ start >= 0 /\ g < NumPages
      BY <1>5, <1>6
    <3>2. m["swa"][g] = page
      OBVIOUS
    <3>3. SwaPageFrom(m["swa"], start) = IF start >= 0 /\ g < NumPages THEN m["swa"][g] ELSE -1
      BY <3>1 DEF SwaPageFrom, PageFrom
    <3>4. QED
      BY <3>1, <3>2, <3>3
  <2>2. table[cell] = IF cell < r.pages /\ r.handle["swa"][cell] >= 0 THEN r.handle["swa"][cell]
                    ELSE SwaPageFrom(m["swa"], start)
    BY <1>4 DEF SwaTable, Filling
  <2>3. cell < r.pages /\ r.handle["swa"][cell] >= 0 => r.handle["swa"][cell] = page
    BY <1>4 DEF Settled
  <2> QED BY <2>1, <2>2, <2>3
<1>9. PagedWindow(RowOf(b, m, x))[j] = IF page >= 0 THEN page * PageSize + (p % PageSize) ELSE -1
  <2>1. PagedWindow(RowOf(b, m, x))[j] = ComponentLoc(table, W, PageSize, p)
    BY <1>3 DEF PagedWindow, RowOf
  <2>2. Greatest(p, 0) = p /\ Least(cell, W - 1) = cell
    BY <1>3, <1>4 DEF Greatest, Least
  <2>3. ComponentLoc(table, W, PageSize, p)
          = IF table[cell] >= 0 THEN table[cell] * PageSize + (p % PageSize) ELSE -1
    BY <2>2, <1>3, <1>4 DEF ComponentLoc
  <2> QED BY <2>1, <2>3, <1>8
<1>10. Eager(RowOf(b, now, x)).swa[j]
         = IF page >= 0 THEN page * PageSize + (p % PageSize) ELSE -1
  <2>1. Eager(RowOf(b, now, x)).swa[j] = Translated(RowOf(b, now, x), full)
    BY <1>3 DEF Eager, TokenWindow, StoreLoc, FullLoc, RowOf
  <2>2. RowOf(b, now, x).swa = now["swa"]
    BY DEF RowOf
  <2>3. Greatest(0, Least(full \div PageSize, NumPages - 1)) = start \div PageSize
    BY <1>6, <1>2 DEF Greatest, Least
  <2>4. Translated(RowOf(b, now, x), full)
          = IF page >= 0 THEN page * PageSize + (full % PageSize) ELSE -1
    <3>1. full >= 0 /\ full \div PageSize < NumPages /\ full # DummyToken
      BY <1>5, <1>6, SMTT(30)
    <3>2. RowOf(b, now, x).swa[Greatest(0, Least(full \div PageSize, NumPages - 1))] = page
      BY <2>2, <2>3
    <3> QED BY ONLY <3>1, <3>2 DEF Translated
  <2> QED BY <2>1, <2>4, <1>6
<1> QED BY <1>9, <1>10

\* The window of the last row has a page for each of its tokens.
LEMMA LastWindowHasPages ==
  ASSUME PrefillSensible, NEW b \in Batches, NEW k \in DOMAIN b.reqs, NEW m \in Mappings,
         ~Missing(b.reqs[k], m, TableLen(b.maxLen)),
         NEW j \in Cells(Least(b.reqs[k].len, Window))
  PROVE  LET x == <<k, b.reqs[k].len - b.reqs[k].cached - 1>>
         IN  x \in Rows(b) /\ PagedWindow(RowOf(b, m, x))[j] >= 0
<1> DEFINE r == b.reqs[k]
           x == <<k, r.len - r.cached - 1>>
           W == TableLen(b.maxLen)
           p == r.len - 1 - j
           cell == p \div PageSize
           table == SwaTable(r, m, W)
<1>1. LegalBatch(b) /\ MaxSeqLen \in Nat \ {0} /\ Window \in Nat \ {0}
  BY DEF PrefillSensible, Configured
<1>2. /\ b.maxLen \in 1 .. MaxSeqLen /\ LegalRequest(r, b.maxLen)
  BY <1>1 DEF LegalBatch
<1>3. r.len \in 1 .. b.maxLen /\ r.cached \in 0 .. r.len - 1
  BY <1>2 DEF LegalRequest
<1>4. x \in Rows(b)
  BY <1>1, <1>2, <1>3 DEF Rows, Cells
<1>5. Pos(b, x) = r.len - 1
  BY <1>3 DEF Pos
<1>6. /\ j \in Cells(Window) /\ j \in Nat /\ p \in Nat /\ p \in Cells(r.len)
      /\ p >= Greatest(r.len - Window, 0)
  BY <1>1, <1>2, <1>3 DEF Cells, Least, Greatest
<1>7. /\ W \in Nat \ {0} /\ cell \in Nat /\ cell < W /\ cell \in Cells(W)
      /\ cell <= DivCeil(r.len, PageSize) - 1 /\ DivCeil(r.len, PageSize) \in Nat
  <2>1. b.maxLen \in Nat \ {0}
    BY <1>1, <1>2
  <2>2. /\ DivCeil(r.len, PageSize) \in Nat /\ W \in Nat \ {0}
        /\ cell \in Cells(DivCeil(r.len, PageSize)) /\ cell \in Cells(W)
    BY <2>1, <1>3, <1>6, PagesFit
  <2> QED BY <2>2 DEF Cells
<1>8. cell >= Greatest(r.len - Window, 0) \div PageSize
      /\ Greatest(r.len - Window, 0) \div PageSize \in Nat
  <2>1. Greatest(r.len - Window, 0) \in Nat
    BY <1>1, <1>2, <1>3 DEF Greatest
  <2> QED BY <2>1, <1>6 DEF PageSize
<1>9. table[cell] \in Int /\ ~(table[cell] < 0)
  <2>1. table \in [Cells(W) -> Int]
    BY TablesAreTyped
  <2>2. cell \in Greatest(r.len - Window, 0) \div PageSize .. DivCeil(r.len, PageSize) - 1
    BY <1>7, <1>8
  <2> QED BY <2>1, <2>2, <1>7 DEF Missing
<1>10. PagedWindow(RowOf(b, m, x))[j] = ComponentLoc(table, W, PageSize, p)
  BY <1>5, <1>6 DEF PagedWindow, RowOf
<1>11. Greatest(p, 0) = p /\ Least(cell, W - 1) = cell
  BY <1>6, <1>7 DEF Greatest, Least
<1>12. ComponentLoc(table, W, PageSize, p) = table[cell] * PageSize + (p % PageSize)
  BY <1>6, <1>7, <1>9, <1>11 DEF ComponentLoc
<1>13. p % PageSize \in Nat /\ table[cell] * PageSize \in Nat
  BY <1>6, <1>9 DEF PageSize
<1> QED BY <1>4, <1>10, <1>12, <1>13

-------------------------------------------------------------------------------
BuiltFrom(m) ==
  /\ core.row = [x \in Rows(batch) |-> RowOf(batch, m, x)]
  /\ core.surface = [x \in Rows(batch) |-> PrefillSurface(RowOf(batch, m, x))]
  /\ \A k \in DOMAIN batch.reqs : ~Missing(batch.reqs[k], m, TableLen(batch.maxLen))
  /\ core.version = version => m["swa"] = mapping["swa"]

TokensOfBatch ==
  {[entry |-> x, pos |-> core.row[x].pos, loc |-> core.surface[x].swaOut] :
     x \in {y \in DOMAIN core.row : core.surface[y].swaOut >= 0}}

(* How far the layer is: what it has stored, and what it does next.           *)
LayerInv ==
  /\ layer \in Nat /\ DOMAIN stored = Caches \cup {"swa"}
  /\ stage # "swa" => layer < Layers /\ stored["swa"] = TokensOfBatch
  /\ stage = "indexer" => Ratios[layer] = 4
  /\ stage = "c4" => Ratios[layer] = 4 /\ stored["indexer"] = EntriesOf("indexer")
  /\ stage = "c128" => Ratios[layer] = 128
  /\ stage = "attend" =>
       \A cache \in CachesOf(Ratios[layer]) : stored[cache] = EntriesOf(cache)

(* What is true of the running prefill: its surfaces are those of a mapping   *)
(* that has had the SWA pages of today's if the version still is the same.    *)
PrefillInv ==
  /\ mapping \in Mappings /\ version \in Nat
  /\ batch # NoBatch =>
       /\ batch \in Batches
       /\ core.version \in Nat /\ core.version <= version
       /\ \E m \in Mappings : BuiltFrom(m)
  /\ LayerInv

\* The locations that a row has for its entries are those of its tables.
LEMMA OwnLocs ==
  ASSUME PrefillSensible, PrefillInv, batch # NoBatch, NEW x \in Rows(batch)
  PROVE  /\ core.surface[x].c4Out = OwnLoc(x, "c4")
         /\ core.surface[x].c128Out = OwnLoc(x, "c128")
         /\ core.surface[x].indexerOut = OwnLoc(x, "indexer")
<1>1. PICK m \in Mappings : BuiltFrom(m)
  BY DEF PrefillInv
<1> DEFINE s == RowOf(batch, m, x)
<1>2. core.row[x] = s /\ core.surface[x] = PrefillSurface(s)
  BY <1>1 DEF BuiltFrom
<1>3. /\ core.surface[x].c4Out = Eager(s).c4Out /\ core.surface[x].c128Out = Eager(s).c128Out
      /\ core.surface[x].indexerOut = Eager(s).indexerOut
  BY <1>2 DEF PrefillSurface, Eager
<1>4. /\ Eager(s).c4Out = WriteLoc(s.c4, TableLen(s.maxLen), C4PageSize, 4, s.pos)
      /\ Eager(s).c128Out = WriteLoc(s.c128, TableLen(s.maxLen), C128PageSize, 128, s.pos)
      /\ Eager(s).indexerOut = WriteLoc(s.indexer, TableLen(s.maxLen), C4PageSize, 4, s.pos)
  BY DEF Eager
<1>5. /\ OwnLoc(x, "c4") = WriteLoc(s.c4, TableLen(s.maxLen), C4PageSize, 4, s.pos)
      /\ OwnLoc(x, "c128") = WriteLoc(s.c128, TableLen(s.maxLen), C128PageSize, 128, s.pos)
      /\ OwnLoc(x, "indexer") = WriteLoc(s.indexer, TableLen(s.maxLen), C4PageSize, 4, s.pos)
  BY <1>2 DEF OwnLoc, ComponentSize, Ratio
<1> QED BY <1>3, <1>4, <1>5

LEMMA BoundaryRows ==
  ASSUME PrefillSensible, PrefillInv, batch # NoBatch, NEW cache \in Caches
  PROVE  /\ DOMAIN core.row = Rows(batch)
         /\ IsFiniteSet(Rows(batch)) /\ Rows(batch) \subseteq Nat \X Nat
         /\ Boundary(cache) \subseteq Rows(batch) /\ IsFiniteSet(Boundary(cache))
         /\ Cardinality(Boundary(cache)) \in Nat
         /\ Cardinality(Boundary(cache)) = Cardinality(Rows(batch)) => Boundary(cache) = Rows(batch)
<1>1. DOMAIN core.row = Rows(batch)
  BY DEF PrefillInv, BuiltFrom
<1>2. IsFiniteSet(Rows(batch)) /\ Rows(batch) \subseteq Nat \X Nat
  BY RowsAreFinite DEF PrefillInv
<1>3. Boundary(cache) \in SUBSET Rows(batch)
  BY <1>1 DEF Boundary
<1>4. /\ IsFiniteSet(Boundary(cache))
      /\ Cardinality(Rows(batch)) = Cardinality(Boundary(cache)) => Rows(batch) = Boundary(cache)
  BY <1>2, <1>3, FS_Subset
<1>5. Cardinality(Boundary(cache)) \in Nat
  BY <1>4, FS_CardinalityType
<1> QED BY <1>1, <1>2, <1>3, <1>4, <1>5

\* What a layer reads is what the steps before its attention store.
LEMMA CachesRead ==
  CachesOf(0) = {} /\ CachesOf(4) = {"c4", "indexer"} /\ CachesOf(128) = {"c128"}
BY DEF CachesOf, Caches, Ratio

LEMMA StoredIsEntries ==
  ASSUME PrefillSensible, PrefillInv, batch # NoBatch, NEW cache \in Caches
  PROVE  LET locs == WriteLocs(cache)
             rows == Picked(cache, locs)
             n == Least(Cardinality(DOMAIN locs), Cardinality(DOMAIN rows))
         IN  Stored(cache, rows, locs, n) = EntriesOf(cache)
<1> DEFINE ends == Boundary(cache)
           n == Cardinality(ends)
           locs == WriteLocs(cache)
<1>1. /\ DOMAIN core.row = Rows(batch)
      /\ ends \subseteq Rows(batch) /\ IsFiniteSet(ends) /\ ends \subseteq Nat \X Nat
      /\ n \in Nat
      /\ n = Cardinality(Rows(batch)) => ends = Rows(batch)
  BY BoundaryRows
<1>2. /\ DOMAIN Listed(ends) = Cells(n)
      /\ \A i \in Cells(n) : Listed(ends)[i] \in ends
      /\ \A x \in ends : \E i \in Cells(n) : Listed(ends)[i] = x
  BY <1>1, ListedInOrder
<1>3. /\ DOMAIN locs = Cells(n)
      /\ \A i \in Cells(n) : locs[i] = OwnLoc(Listed(ends)[i], cache)
  <2>1. \A i \in Cells(n) : Listed(ends)[i] \in Rows(batch)
    BY <1>1, <1>2
  <2> QED BY <2>1, <1>1, <1>2, OwnLocs DEF WriteLocs, Caches
<1>4. Cardinality(Cells(n)) = n
  <2>1. IsFiniteSet(0 .. n - 1) /\ Cardinality(0 .. n - 1) = IF 0 > n - 1 THEN 0 ELSE n - 1 - 0 + 1
    BY ONLY <1>1, FS_Interval, 0 \in Int, n - 1 \in Int
  <2> QED BY <2>1, <1>1 DEF Cells
<1>5. Picked(cache, locs) = Listed(ends)
  BY <1>1, <1>3, <1>4 DEF Picked
<1>6. Least(Cardinality(DOMAIN locs), Cardinality(DOMAIN Listed(ends))) = n
  BY <1>2, <1>3, <1>4 DEF Least
<1>7. Stored(cache, Listed(ends), locs, n) = EntriesOf(cache)
  BY <1>2, <1>3 DEF Stored, EntriesOf
<1> QED BY <1>5, <1>6, <1>7

LEMMA PublishStep ==
  ASSUME PrefillSensible, PrefillInv, NEW cache \in Caches, Publish(cache)
  PROVE  PrefillInv'
<1>1. /\ batch # NoBatch /\ layer < Layers /\ stage = cache
      /\ stage' = Following(Ratios[layer], cache)
      /\ UNCHANGED <<mapping, version, batch, core, layer>>
  BY DEF Publish
<1>2. stored' = [stored EXCEPT ![cache] = EntriesOf(cache)]
  BY <1>1, StoredIsEntries DEF Publish
<1>3. \A c \in Caches : EntriesOf(c)' = EntriesOf(c)
  BY <1>1 DEF EntriesOf, Boundary, OwnLoc
<1>4. TokensOfBatch' = TokensOfBatch
  BY <1>1 DEF TokensOfBatch
<1>5. stored' \in [Caches \cup {"swa"} -> {stored'[c] : c \in Caches \cup {"swa"}}]
        /\ DOMAIN stored' = Caches \cup {"swa"}
        /\ stored'["swa"] = stored["swa"] /\ stored'[cache] = EntriesOf(cache)
        /\ \A c \in Caches \ {cache} : stored'[c] = stored[c]
  BY <1>2 DEF PrefillInv, LayerInv, Caches
<1>6. LayerInv'
  <2>1. CASE cache = "indexer"
    BY <2>1, <1>1, <1>3, <1>4, <1>5 DEF PrefillInv, LayerInv, Following, Caches
  <2>2. CASE cache = "c4"
    BY <2>2, <1>1, <1>3, <1>4, <1>5, CachesRead DEF PrefillInv, LayerInv, Following, Caches
  <2>3. CASE cache = "c128"
    BY <2>3, <1>1, <1>3, <1>4, <1>5, CachesRead DEF PrefillInv, LayerInv, Following, Caches
  <2> QED BY <2>1, <2>2, <2>3 DEF Caches
<1> QED BY <1>1, <1>6 DEF PrefillInv, BuiltFrom

LEMMA StoreTokensStep ==
  ASSUME PrefillSensible, PrefillInv, StoreTokens
  PROVE  PrefillInv'
<1>1. /\ batch # NoBatch /\ layer < Layers /\ stage = "swa"
      /\ stage' = Following(Ratios[layer], "swa")
      /\ stored' = [stored EXCEPT !["swa"] = TokensOfBatch]
      /\ UNCHANGED <<mapping, version, batch, core, layer>>
  BY DEF StoreTokens, TokensOfBatch
<1>2. TokensOfBatch' = TokensOfBatch
  BY <1>1 DEF TokensOfBatch
<1>3. Ratios[layer] \in {0, 4, 128}
  BY <1>1 DEF PrefillSensible, PrefillInv, LayerInv, Cells
<1>4. DOMAIN stored' = Caches \cup {"swa"} /\ stored'["swa"] = TokensOfBatch
  BY <1>1 DEF PrefillInv, LayerInv
<1>5. LayerInv'
  <2>1. layer' \in Nat /\ layer' < Layers
    BY <1>1 DEF PrefillInv, LayerInv
  <2> QED BY <2>1, <1>1, <1>2, <1>3, <1>4, CachesRead DEF LayerInv, Following
<1> QED BY <1>1, <1>5 DEF PrefillInv, BuiltFrom

LEMMA AttendStep ==
  ASSUME PrefillSensible, PrefillInv, Attend
  PROVE  PrefillInv'
<1>1. /\ layer' = layer + 1 /\ stage' = "swa" /\ stored' = NothingStored
      /\ UNCHANGED <<mapping, version, batch, core>>
  BY DEF Attend
<1>2. LayerInv'
  BY <1>1 DEF PrefillInv, LayerInv, NothingStored
<1> QED BY <1>1, <1>2 DEF PrefillInv, BuiltFrom

LEMMA PrepareStep ==
  ASSUME PrefillSensible, PrefillInv, NEW b \in Batches, Prepare(b)
  PROVE  PrefillInv'
<1>1. /\ batch' = b /\ mapping' = mapping /\ version' = version
      /\ layer' = 0 /\ stage' = "swa" /\ stored' = NothingStored
      /\ core'.version = version
      /\ core'.row = [x \in Rows(b) |-> RowOf(b, mapping, x)]
      /\ core'.surface = [x \in Rows(b) |-> PrefillSurface(RowOf(b, mapping, x))]
      /\ \A k \in DOMAIN b.reqs : ~Missing(b.reqs[k], mapping, TableLen(b.maxLen))
  BY DEF Prepare
<1>2. mapping \in Mappings /\ version \in Nat
  BY DEF PrefillInv
<1>3. BuiltFrom(mapping)'
  BY <1>1 DEF BuiltFrom
<1>4. \E m \in Mappings : BuiltFrom(m)'
  BY <1>1, <1>2 DEF BuiltFrom
<1>5. LayerInv'
  BY <1>1 DEF LayerInv, NothingStored
<1> QED BY <1>1, <1>2, <1>4, <1>5 DEF PrefillInv

LEMMA LayerIsStable ==
  ASSUME LayerInv, UNCHANGED <<core, layer, stage, stored>>
  PROVE  LayerInv'
<1>1. TokensOfBatch' = TokensOfBatch /\ \A c \in Caches : EntriesOf(c)' = EntriesOf(c)
  BY DEF TokensOfBatch, EntriesOf, Boundary, OwnLoc
<1>2. "indexer" \in Caches /\ \A ratio : CachesOf(ratio) \subseteq Caches
  BY DEF Caches, CachesOf
<1> QED BY <1>1, <1>2 DEF LayerInv

LEMMA RemapStep ==
  ASSUME PrefillSensible, PrefillInv, NEW m \in Mappings, Remap(m)
  PROVE  PrefillInv'
<1>1. /\ mapping' = m /\ UNCHANGED <<batch, core, layer, stage, stored>>
      /\ version \in Nat
      /\ version' = version + 1 \/ (version' = version /\ m["swa"] = mapping["swa"])
  BY DEF Remap, PrefillInv
<1>2. ASSUME NEW o \in Mappings, batch # NoBatch, BuiltFrom(o) PROVE BuiltFrom(o)'
  <2>1. core.version \in Nat /\ core.version <= version
    BY <1>2 DEF PrefillInv
  <2>2. core'.version = version' => o["swa"] = mapping'["swa"]
    BY <2>1, <1>1, <1>2 DEF BuiltFrom
  <2> QED BY <2>2, <1>1, <1>2 DEF BuiltFrom
<1>3. LayerInv'
  BY <1>1, LayerIsStable DEF PrefillInv
<1>4. batch # NoBatch => \E o \in Mappings : BuiltFrom(o)'
  BY <1>2 DEF PrefillInv
<1> QED BY <1>1, <1>3, <1>4 DEF PrefillInv

LEMMA PrefillInvariance == ASSUME PrefillSensible PROVE PrefillSpec => []PrefillInv
<1>1. PrefillInit => PrefillInv
  BY DEF PrefillInit, PrefillInv, LayerInv, NothingStored
<1>2. PrefillInv /\ [PrefillNext]_prefillVars => PrefillInv'
  <2> SUFFICES ASSUME PrefillInv, [PrefillNext]_prefillVars PROVE PrefillInv'
    OBVIOUS
  <2>1. CASE UNCHANGED prefillVars
    BY <2>1, LayerIsStable DEF prefillVars, PrefillInv, BuiltFrom
  <2> QED BY <2>1, RemapStep, PrepareStep, StoreTokensStep, AttendStep, PublishStep DEF PrefillNext
<1> QED BY <1>1, <1>2, PTL DEF PrefillSpec

-------------------------------------------------------------------------------
(* Whenever the attention of a prefill runs, whatever pages have moved since    *)
(* prepare_metadata, each row of a settled request finds its window, and its    *)
(* own token, where a decode would find them now.                               *)
THEOREM WindowsStayCurrent == ASSUME PrefillSensible PROVE PrefillSpec => WindowsAreCurrent
<1> DEFINE Current ==
      \A x \in Rows(batch) :
        Settled(batch.reqs[x[1]], mapping) =>
          LET now == Eager(RowOf(batch, mapping, x))
              seen == core.surface[x]
          IN  /\ seen.swaLen = now.swaLen
              /\ \A j \in Cells(now.swaLen) : seen.swa[j] = now.swa[j]
              /\ seen.swaOut = now.swaOut /\ seen.swa[0] = seen.swaOut
<1>1. ASSUME PrefillInv, Attend PROVE Current
  <2>1. /\ batch # NoBatch /\ batch \in Batches /\ mapping \in Mappings
        /\ core.version = version
    BY <1>1 DEF Attend, IsCurrent, PrefillInv
  <2>2. PICK m \in Mappings : BuiltFrom(m)
    BY <1>1, <2>1 DEF PrefillInv
  <2>3. m["swa"] = mapping["swa"]
    BY <2>1, <2>2 DEF BuiltFrom
  <2> SUFFICES ASSUME NEW x \in Rows(batch), Settled(batch.reqs[x[1]], mapping)
               PROVE  LET now == Eager(RowOf(batch, mapping, x))
                          seen == core.surface[x]
                      IN  /\ seen.swaLen = now.swaLen
                          /\ \A j \in Cells(now.swaLen) : seen.swa[j] = now.swa[j]
                          /\ seen.swaOut = now.swaOut /\ seen.swa[0] = seen.swaOut
    OBVIOUS
  <2> DEFINE s == RowOf(batch, m, x)
             t == RowOf(batch, mapping, x)
  <2>4. core.surface[x] = PrefillSurface(s)
    BY <2>2 DEF BuiltFrom
  <2>5. /\ PrefillSurface(s).swa = PagedWindow(s) /\ PrefillSurface(s).swaLen = Eager(s).swaLen
        /\ PrefillSurface(s).swaOut = Eager(s).swaOut
    BY DEF PrefillSurface, Eager
  <2>6. Pos(batch, x) \in Nat /\ Window \in Nat \ {0}
    BY <2>1, BatchTypes DEF PrefillSensible, Configured
  <2>7. /\ s.pos = t.pos /\ s.pos = Pos(batch, x) /\ s.outLoc = t.outLoc /\ s.swa = t.swa
        /\ t.outLoc = t.ctx[t.pos]
    BY <2>3 DEF RowOf, OutLoc
  <2>8. Eager(s).swaLen = Least(Pos(batch, x) + 1, Window) /\ Eager(t).swaLen = Eager(s).swaLen
    BY <2>7 DEF Eager, TokenWindow, StoreLoc
  <2>9. Eager(s).swaOut = Eager(t).swaOut
    BY <2>7 DEF Eager, TokenWindow, StoreLoc, Translated
  <2>10. \A j \in Cells(Least(Pos(batch, x) + 1, Window)) : PagedWindow(s)[j] = Eager(t).swa[j]
    BY <2>1, <2>3, WindowsAgree
  <2>11. 0 \in Cells(Least(Pos(batch, x) + 1, Window)) /\ 0 \in Cells(Window)
    BY <2>6 DEF Cells, Least
  <2>12. Eager(t).swa[0] = Eager(t).swaOut
    <3>1. t.pos \in Nat /\ t.pos - 0 = t.pos
      BY <2>6, <2>7
    <3>2. Eager(t).swa[0] = Translated(t, FullLoc(t, t.pos))
      BY <2>11, <3>1 DEF Eager, TokenWindow, StoreLoc
    <3>3. FullLoc(t, t.pos) = t.outLoc
      <4>1. t.pos >= 0
        BY <3>1
      <4> QED BY ONLY <4>1, <2>7 DEF FullLoc
    <3> QED BY <3>2, <3>3 DEF Eager, TokenWindow, StoreLoc
  <2> QED BY <2>4, <2>5, <2>8, <2>9, <2>10, <2>11, <2>12
<1>2. PrefillInv /\ [PrefillNext]_prefillVars => [Attend => Current]_prefillVars
  BY <1>1
<1> QED BY <1>2, PrefillInvariance, PTL DEF PrefillSpec, WindowsAreCurrent

(* A prefill that _build_swa_page_table_row does not refuse has no hole in the  *)
(* window of the last token of any request.                                     *)
THEOREM LastWindowIsWhole == ASSUME PrefillSensible PROVE PrefillSpec => []LastWindowsAreWhole
<1>1. PrefillInv => LastWindowsAreWhole
  <2> SUFFICES ASSUME PrefillInv, batch # NoBatch, NEW k \in DOMAIN batch.reqs,
                      NEW j \in Cells(Least(batch.reqs[k].len, Window))
               PROVE  core.surface[<<k, batch.reqs[k].len - batch.reqs[k].cached - 1>>].swa[j] >= 0
    BY DEF LastWindowsAreWhole
  <2> DEFINE x == <<k, batch.reqs[k].len - batch.reqs[k].cached - 1>>
  <2>1. batch \in Batches
    BY DEF PrefillInv
  <2>2. PICK m \in Mappings : BuiltFrom(m)
    BY DEF PrefillInv
  <2>3. x \in Rows(batch) /\ PagedWindow(RowOf(batch, m, x))[j] >= 0
    BY <2>1, <2>2, LastWindowHasPages DEF BuiltFrom
  <2>4. core.surface[x] = PrefillSurface(RowOf(batch, m, x))
    BY <2>2, <2>3 DEF BuiltFrom
  <2>5. PrefillSurface(RowOf(batch, m, x)).swa = PagedWindow(RowOf(batch, m, x))
    BY DEF PrefillSurface, Eager
  <2> QED BY <2>3, <2>4, <2>5
<1> QED BY <1>1, PrefillInvariance, PTL

(* Before a layer attends, q_kv_norm_rope_cache has stored the tokens of the     *)
(* batch, and each row finds those of its window where they are, although the   *)
(* window is looked up by page and the tokens are stored by location.           *)
THEOREM ChunkFindsItsTokens == ASSUME PrefillSensible PROVE PrefillSpec => TokensAreStored
<1> DEFINE Found ==
      \A x \in Rows(batch) :
        Settled(batch.reqs[x[1]], mapping) =>
          \A j \in Cells(Least(x[2] + 1, Window)) :
            core.surface[x].swa[j] >= 0 =>
              [entry |-> <<x[1], x[2] - j>>, pos |-> Pos(batch, x) - j,
               loc |-> core.surface[x].swa[j]] \in stored["swa"]
<1>1. ASSUME PrefillInv, Attend PROVE Found
  <2>1. /\ batch # NoBatch /\ batch \in Batches /\ mapping \in Mappings
        /\ core.version = version /\ stored["swa"] = TokensOfBatch
    BY <1>1 DEF Attend, IsCurrent, PrefillInv, LayerInv
  <2>2. PICK m \in Mappings : BuiltFrom(m)
    BY <1>1, <2>1 DEF PrefillInv
  <2>3. m["swa"] = mapping["swa"]
    BY <2>1, <2>2 DEF BuiltFrom
  <2> SUFFICES ASSUME NEW x \in Rows(batch), Settled(batch.reqs[x[1]], mapping),
                      NEW j \in Cells(Least(x[2] + 1, Window)),
                      core.surface[x].swa[j] >= 0
               PROVE  [entry |-> <<x[1], x[2] - j>>, pos |-> Pos(batch, x) - j,
                       loc |-> core.surface[x].swa[j]] \in TokensOfBatch
    BY <2>1
  <2> DEFINE y == <<x[1], x[2] - j>>
             s == RowOf(batch, m, x)
             t == RowOf(batch, mapping, x)
             u == RowOf(batch, m, y)
  <2>4. /\ x \in (DOMAIN batch.reqs) \X Cells(MaxSeqLen)
        /\ x[2] < batch.reqs[x[1]].len - batch.reqs[x[1]].cached
        /\ batch.reqs[x[1]].cached \in Nat /\ batch.reqs[x[1]].len \in Nat
        /\ Pos(batch, x) \in Nat /\ Pos(batch, x) = batch.reqs[x[1]].cached + x[2]
        /\ Window \in Nat \ {0} /\ MaxSeqLen \in Nat
    <3>1. /\ LegalRequest(batch.reqs[x[1]], batch.maxLen) /\ Pos(batch, x) \in Nat
          /\ batch.reqs[x[1]].len \in Nat /\ batch.maxLen \in Nat
      BY <2>1, BatchTypes
    <3>2. batch.reqs[x[1]].cached \in Nat
      BY <3>1 DEF LegalRequest
    <3> QED BY <3>1, <3>2 DEF Rows, Pos, PrefillSensible, Configured
  <2>5. x[2] \in Nat /\ j \in Nat /\ j <= x[2] /\ j < Window /\ x[2] - j \in Cells(MaxSeqLen)
    BY <2>4 DEF Cells, Least
  <2>6. y \in Rows(batch) /\ Pos(batch, y) = Pos(batch, x) - j /\ Pos(batch, y) \in Nat
    BY <2>4, <2>5 DEF Rows, Pos
  <2>7. j \in Cells(Least(Pos(batch, x) + 1, Window)) /\ j \in Cells(Window)
    BY <2>4, <2>5 DEF Cells, Least
  <2>8. core.surface[x].swa[j] = Eager(t).swa[j]
    <3>1. core.surface[x] = PrefillSurface(s) /\ PrefillSurface(s).swa = PagedWindow(s)
      BY <2>2 DEF BuiltFrom, PrefillSurface, Eager
    <3>2. PagedWindow(s)[j] = Eager(t).swa[j]
      BY <2>1, <2>3, <2>7, WindowsAgree
    <3> QED BY <3>1, <3>2
  <2>9. Eager(t).swa[j] = Translated(t, t.ctx[Pos(batch, y)])
    <3>1. t.pos - j = Pos(batch, y) /\ Pos(batch, y) >= 0
      BY <2>6 DEF RowOf
    <3>2. Eager(t).swa[j] = Translated(t, FullLoc(t, t.pos - j))
      BY <2>7 DEF Eager, TokenWindow
    <3> QED BY <3>1, <3>2 DEF FullLoc
  <2>10. /\ core.row[y] = u /\ core.surface[y] = PrefillSurface(u) /\ y \in DOMAIN core.row
    BY <2>2, <2>6 DEF BuiltFrom
  <2>11. core.surface[y].swaOut = Translated(u, u.outLoc)
    BY <2>10 DEF PrefillSurface, Eager, StoreLoc
  <2>12. u.outLoc = t.ctx[Pos(batch, y)] /\ u.swa = t.swa /\ u.pos = Pos(batch, x) - j
    BY <2>3, <2>6 DEF RowOf, OutLoc
  <2>13. Translated(u, u.outLoc) = Translated(t, t.ctx[Pos(batch, y)])
    BY <2>12 DEF Translated
  <2>14. core.surface[y].swaOut = core.surface[x].swa[j]
    BY <2>8, <2>9, <2>11, <2>13
  <2> QED BY <2>10, <2>12, <2>14 DEF TokensOfBatch
<1>2. PrefillInv /\ [PrefillNext]_prefillVars => [Attend => Found]_prefillVars
  BY <1>1
<1> QED BY <1>2, PrefillInvariance, PTL DEF PrefillSpec, TokensAreStored

(* Before a layer attends, store_compressed and store_indexer have published    *)
(* in each of its caches the entries of the groups that end in the batch, each  *)
(* at the place its own request has for it.                                     *)
THEOREM EntriesGoToTheirOwnPages == ASSUME PrefillSensible PROVE PrefillSpec => EntriesArePublished
<1> DEFINE AllPublished == \A cache \in CachesOf(Ratios[layer]) : stored[cache] = EntriesOf(cache)
<1>1. PrefillInv /\ [PrefillNext]_prefillVars => [Attend => AllPublished]_prefillVars
  BY DEF PrefillInv, LayerInv, Attend
<1> QED BY <1>1, PrefillInvariance, PTL DEF PrefillSpec, EntriesArePublished

(* The long-range entries of a prefill row are looked up where the forward that *)
(* completed them has stored them, by the kernel as by the reference.           *)
THEOREM PrefillEntriesFound ==
  ASSUME PrefillSensible PROVE PrefillSpec => []PrefillEntriesAreWhereWritten
<1>1. PrefillInv => PrefillEntriesAreWhereWritten
  <2> SUFFICES ASSUME PrefillInv, batch # NoBatch, NEW x \in Rows(batch),
                      NEW i \in Cells((core.row[x].pos + 1) \div 128)
               PROVE  LET s == core.row[x]
                          w == WriteLoc(s.c128, TableLen(s.maxLen), C128PageSize, 128, i * 128 + 127)
                      IN  /\ core.surface[x].c128[i] = w
                          /\ ReferenceC128(s, s.maxLen \div 128)[i] = w
    BY DEF PrefillEntriesAreWhereWritten
  <2>1. batch \in Batches
    BY DEF PrefillInv
  <2>2. PICK m \in Mappings : BuiltFrom(m)
    BY DEF PrefillInv
  <2> DEFINE s == RowOf(batch, m, x)
             W == TableLen(s.maxLen)
             w == WriteLoc(s.c128, W, C128PageSize, 128, i * 128 + 127)
  <2>3. core.row[x] = s /\ core.surface[x] = PrefillSurface(s)
    BY <2>2 DEF BuiltFrom
  <2>4. /\ s.pos \in Nat /\ s.pos \in 0 .. s.maxLen - 1 /\ s.maxLen \in Nat \ {0}
        /\ s.c128 \in [Cells(W) -> Int]
    BY <2>1, RowTypes
  <2>5. i \in Nat /\ i < (s.pos + 1) \div 128 /\ (s.pos + 1) \div 128 <= s.maxLen \div 128
        /\ s.maxLen \div 128 \in Nat /\ i < s.maxLen \div 128
    BY <2>3, <2>4 DEF Cells
  <2>6. ComponentLoc(s.c128, W, C128PageSize, i) = w
    <3>1. C128PageSize \in {C4PageSize, C128PageSize} /\ 128 \in {4, 128}
      OBVIOUS
    <3>2. ComponentLoc(s.c128, W, C128PageSize, i)
            = WriteLoc(s.c128, W, C128PageSize, 128, i * 128 + (128 - 1))
      BY <2>4, <2>5, <3>1, LocIsWriteLoc, SMTT(30)
    <3> QED BY <3>2
  <2>7. i \in Cells(EagerC128Width(s.maxLen)) /\ i \in Cells(Aligned(Greatest(s.maxLen \div 128, 1)))
    <3>1. Greatest(s.maxLen \div 128, 1) \in Nat /\ i < Greatest(s.maxLen \div 128, 1)
      <4>1. \A n \in Nat : i < n => Greatest(n, 1) \in Nat /\ i < Greatest(n, 1)
        BY <2>5 DEF Greatest
      <4> QED BY <2>5, <4>1
    <3>2. \A n \in Nat : Aligned(n) \in Nat /\ n <= Aligned(n)
      BY DEF Aligned, Alignment, DivCeil
    <3>3. i < Aligned(Greatest(s.maxLen \div 128, 1))
      BY <2>5, <3>1, <3>2
    <3> QED BY <2>5, <3>1, <3>2, <3>3 DEF Cells, EagerC128Width
  <2>8. ReferenceC128(s, s.maxLen \div 128)[i] = ComponentLoc(s.c128, W, C128PageSize, i)
    BY <2>5, <2>7 DEF ReferenceC128
  <2>9. EagerC128(s, (s.pos + 1) \div 128)[i] = ComponentLoc(s.c128, W, C128PageSize, i)
    <3> DEFINE cell == i \div C128PageSize
    <3>1. cell \in Nat /\ i % C128PageSize \in Nat /\ W \in Nat \ {0}
      BY <2>4, <2>5, TableCovers DEF C128PageSize, PageSize
    <3>2. Greatest(i, 0) = i
      BY <2>5 DEF Greatest
    <3>3. cell < W => Least(cell, W - 1) = cell
      BY <3>1 DEF Least
    <3> HIDE DEF W
    <3>4. ComponentLoc(s.c128, W, C128PageSize, i)
            = IF cell < W /\ s.c128[cell] >= 0
              THEN s.c128[cell] * C128PageSize + (i % C128PageSize) ELSE -1
      BY <2>5, <3>2, <3>3 DEF ComponentLoc
    <3>5. EagerC128(s, (s.pos + 1) \div 128)[i]
            = IF cell < W /\ s.c128[cell] >= 0
              THEN s.c128[cell] * C128PageSize + (i % C128PageSize) ELSE -1
      BY <2>5, <2>7 DEF EagerC128, LongEntry, W
    <3> QED BY <3>4, <3>5
  <2>10. PrefillSurface(s).c128 = EagerC128(s, (s.pos + 1) \div 128)
    BY DEF PrefillSurface, Eager
  <2> QED BY <2>3, <2>6, <2>8, <2>9, <2>10
<1> QED BY <1>1, PrefillInvariance, PTL

-------------------------------------------------------------------------------
(* The sparse attention itself: both kernels write the same softmax, for every *)
(* row, block size, number of splits and order of their programs.              *)


-------------------------------------------------------------------------------
(* Terms and peaks.                                                            *)

LEMMA RescaledTerms ==
  ASSUME SensibleRows, NEW xs, \A x \in xs : Weight(x) \in Int,
         NEW m \in Int, NEW p \in Int, m <= p
  PROVE  Rescaled(Terms(xs, m), p - m) = Terms(xs, p)
<1>1. Far \in Nat
  BY DEF SensibleRows
<1>2. \A x \in xs : /\ (Weight(x) - m) - (p - m) = Weight(x) - p
                    /\ Weight(x) - p >= -Far => Weight(x) - m >= -Far
  BY <1>1
<1>3. ASSUME NEW u \in Rescaled(Terms(xs, m), p - m) PROVE u \in Terms(xs, p)
  <2>1. PICK v \in Terms(xs, m) : v[2] - (p - m) >= -Far /\ u = <<v[1], v[2] - (p - m)>>
    BY <1>3 DEF Rescaled
  <2>2. PICK x \in xs : v = <<x, Weight(x) - m>>
    BY DEF Terms
  <2>3. u = <<x, Weight(x) - p>> /\ Weight(x) - p >= -Far
    BY <2>1, <2>2, <1>2
  <2>4. QED
    BY <2>3 DEF Terms
<1>4. ASSUME NEW u \in Terms(xs, p) PROVE u \in Rescaled(Terms(xs, m), p - m)
  <2>1. PICK x \in xs : Weight(x) - p >= -Far /\ u = <<x, Weight(x) - p>>
    BY <1>4 DEF Terms
  <2> DEFINE v == <<x, Weight(x) - m>>
  <2>2. v \in Terms(xs, m)
    BY <2>1, <1>2 DEF Terms
  <2>3. v[1] = x /\ v[2] - (p - m) = Weight(x) - p
    BY <1>2
  <2>4. QED
    BY <2>1, <2>2, <2>3 DEF Rescaled
<1>5. QED
  BY <1>3, <1>4

LEMMA MoreTerms ==
  ASSUME NEW xs, NEW ys, NEW m
  PROVE  Terms(xs, m) \cup Terms(ys, m) = Terms(xs \cup ys, m)
BY DEF Terms

LEMMA MorePeaks ==
  ASSUME NEW xs, NEW ys, NEW b \in Int, NEW m \in Peaks(b, xs), NEW p \in Peaks(m, ys),
         \A x \in xs \cup ys : Weight(x) \in Int
  PROVE  m \in Int /\ p \in Int /\ m <= p /\ p \in Peaks(b, xs \cup ys)
<1>1. m \in Int /\ b <= m /\ m \in {b} \cup {Weight(x) : x \in xs} /\ \A x \in xs : Weight(x) <= m
  BY DEF Peaks
<1>2. p \in Int /\ m <= p /\ p \in {m} \cup {Weight(x) : x \in ys} /\ \A x \in ys : Weight(x) <= p
  BY <1>1 DEF Peaks
<1>3. p \in {b} \cup {Weight(x) : x \in xs \cup ys}
  BY <1>1, <1>2
<1>4. b <= p /\ \A x \in xs \cup ys : Weight(x) <= p
  BY <1>1, <1>2
<1>5. QED
  BY <1>1, <1>2, <1>3, <1>4 DEF Peaks

\* One more batch of lanes: what a step of either kernel does.
LEMMA OnlineStep ==
  ASSUME SensibleRows, NEW xs, NEW ys, \A x \in xs \cup ys : Weight(x) \in Int,
         NEW m \in Peaks(Low, xs), NEW p \in Peaks(m, ys)
  PROVE  /\ p \in Peaks(Low, xs \cup ys)
         /\ Updated(Terms(xs, m), m, p, ys) = Terms(xs \cup ys, p)
<1>1. Low \in Int
  BY DEF SensibleRows
<1>2. m \in Int /\ p \in Int /\ m <= p /\ p \in Peaks(Low, xs \cup ys)
  BY <1>1, MorePeaks
<1>3. Rescaled(Terms(xs, m), p - m) = Terms(xs, p)
  BY <1>2, RescaledTerms
<1>4. QED
  BY <1>2, <1>3, MoreTerms DEF Updated

-------------------------------------------------------------------------------
(* Where a slot is looked at.                                                  *)

LEMMA CDivCovers ==
  ASSUME NEW a \in Nat, NEW b \in Nat \ {0}
  PROVE  CDiv(a, b) \in Nat /\ CDiv(a, b) * b >= a
<1> DEFINE q == (a + b - 1) \div b
           r == (a + b - 1) % b
<1>1. a + b - 1 = b * q + r /\ r < b /\ r \in Int /\ q \in Int
  OBVIOUS
<1>2. q \in Nat
  OBVIOUS
<1> HIDE DEF q, r
<1>3. b * q = q * b /\ q * b \in Int
  BY <1>2
<1>4. \A z \in Int : a + b - 1 = z + r => z >= a
  BY <1>1
<1>5. q * b >= a
  BY <1>1, <1>3, <1>4
<1>6. QED
  BY <1>2, <1>5 DEF CDiv, q

LEMMA Sizes ==
  ASSUME SensibleRows, NEW w \in AttentionRows
  PROVE  /\ Total(w) \in Nat \ {0} /\ Splits(w) \in Nat \ {0} /\ Chunk(w) \in Nat \ {0}
         /\ Blocks(w) \in Nat /\ Chunk(w) * Splits(w) >= Total(w)
         /\ Blocks(w) * BlockN >= Chunk(w)
         /\ Slots(w) = 0 .. Total(w) - 1
<1>1. /\ BlockN \in Nat \ {0} /\ MaxSplits \in Nat \ {0}
      /\ w.width["compressed"] \in Nat /\ w.width["swa"] \in Nat \ {0}
  BY DEF SensibleRows, LegalRow, Kinds
<1>2. Total(w) \in Nat \ {0} /\ Slots(w) = 0 .. Total(w) - 1
  BY <1>1 DEF Total, Slots
<1>3. Splits(w) \in Nat \ {0}
  <2>1. CDiv(Total(w), BlockN) \in Nat
    BY <1>1, <1>2, CDivCovers
  <2>2. QED
    BY <1>1, <2>1 DEF Splits
<1>4. Chunk(w) \in Nat /\ Chunk(w) * Splits(w) >= Total(w)
  BY <1>2, <1>3, CDivCovers DEF Chunk
<1>5. Chunk(w) # 0
  BY <1>2, <1>3, <1>4
<1>6. Blocks(w) \in Nat /\ Blocks(w) * BlockN >= Chunk(w)
  BY <1>1, <1>4, CDivCovers DEF Blocks
<1>7. QED
  BY <1>2, <1>3, <1>4, <1>5, <1>6

\* The splits share the slots out: slot n is in the chunk of split n \div Chunk.
LEMMA SplitOfSlot ==
  ASSUME SensibleRows, NEW w \in AttentionRows, NEW n \in Slots(w)
  PROVE  \E s \in 0 .. Splits(w) - 1 :
           s * Chunk(w) <= n /\ n < s * Chunk(w) + Chunk(w)
<1> DEFINE c == Chunk(w)
           t == Splits(w)
           s == n \div c
<1>1. n \in Nat /\ n < Total(w) /\ c \in Nat \ {0} /\ t \in Nat \ {0} /\ c * t >= Total(w)
      /\ Total(w) \in Nat
  BY Sizes
<1> HIDE DEF c, t
<1>2. s \in Nat /\ n = c * s + (n % c) /\ n % c \in 0 .. c - 1
  BY <1>1
<1> HIDE DEF s
<1>3. c * s \in Nat /\ c * s = s * c /\ c * s <= n /\ n < c * s + c
  BY <1>1, <1>2
<1>4. s < t
  <2>1. SUFFICES ASSUME t <= s PROVE FALSE
    BY <1>1, <1>2
  <2>2. c * t <= c * s
    BY <2>1, <1>1, <1>2
  <2>3. c * t \in Nat
    BY <1>1
  <2>4. QED
    BY <2>2, <2>3, <1>1, <1>3
<1>5. QED
  BY <1>1, <1>2, <1>3, <1>4 DEF c, t

-------------------------------------------------------------------------------
(* The invariant.  Each kernel has the terms of the lanes it has seen,         *)
(* relative to the largest of their scores.                                    *)

Seen ==
  Sinks \cup {x \in Columns : (x[1] = kind /\ x[2] < at) \/ (x[1] = "compressed" /\ kind = "swa")}
SeenBy(s, b) == {Lane(s, n) : n \in s * Chunk(row) .. s * Chunk(row) + b * BlockN - 1}

TypeInv ==
  /\ row \in AttentionRows /\ pc \in {"launch", "online", "gather", "split", "done"}
  /\ kind \in Kinds /\ at \in Nat
OnlineInv ==
  pc = "online" => peak \in Peaks(Low, Seen) /\ terms = Terms(Seen, peak)
GatherInv ==
  pc \in {"gather", "split"} =>
    /\ todo \subseteq Slots(row) /\ DOMAIN gathered = Slots(row)
    /\ \A n \in Slots(row) \ todo : gathered[n] = Gathered(n)
SplitInv ==
  pc = "split" =>
    /\ todo = {} /\ DOMAIN part = 0 .. Splits(row) - 1
    /\ \A s \in DOMAIN part :
         /\ part[s].block \in 0 .. Blocks(row)
         /\ part[s].peak \in Peaks(Low, SeenBy(s, part[s].block))
         /\ part[s].terms = Terms(SeenBy(s, part[s].block), part[s].peak)
AttentionInv ==
  /\ TypeInv /\ OnlineInv /\ GatherInv /\ SplitInv /\ OutputIsSoftmax
  /\ pc = "launch" => kind = "compressed" /\ at = 0

LEMMA RowFacts ==
  ASSUME SensibleRows, row \in AttentionRows
  PROVE  /\ Scores \subseteq Int /\ Low \in Int /\ Far \in Nat /\ \A s \in Scores : Low + Far < s
         /\ row.sink \subseteq Scores
         /\ \A k \in Kinds :
              /\ row.width[k] \in Nat /\ row.len[k] \in Int /\ row.len[k] <= row.width[k]
              /\ row.cacheRows[k] \in Nat
              /\ \A j \in 0 .. row.width[k] - 1 :
                   row.index[k][j] \in Int /\ row.index[k][j] < row.cacheRows[k]
              /\ \A i \in 0 .. row.cacheRows[k] - 1 : row.score[k][i] \in Scores
<1>1. LegalRow(row)
  BY DEF SensibleRows
<1>2. QED
  BY <1>1 DEF SensibleRows, LegalRow

\* What a column and a sink are, and that their scores are above Low.
LEMMA ColumnFacts ==
  ASSUME SensibleRows, row \in AttentionRows
  PROVE  /\ \A x \in Columns : /\ x[1] \in Kinds /\ x[2] \in 0 .. row.len[x[1]] - 1
                               /\ x = <<x[1], x[2], row.index[x[1]][x[2]]>>
                               /\ x[3] \in 0 .. row.cacheRows[x[1]] - 1
                               /\ Weight(x) \in Scores
         /\ \A x \in Sinks : x[1] = "sink" /\ Weight(x) \in row.sink /\ Weight(x) \in Scores
<1>1. ASSUME NEW x \in Columns
      PROVE  /\ x[1] \in Kinds /\ x[2] \in 0 .. row.len[x[1]] - 1
             /\ x = <<x[1], x[2], row.index[x[1]][x[2]]>>
             /\ x[3] \in 0 .. row.cacheRows[x[1]] - 1 /\ Weight(x) \in Scores
  <2>0. PICK k \in Kinds : \E j \in 0 .. row.len[k] - 1 :
          row.index[k][j] >= 0 /\ x = <<k, j, row.index[k][j]>>
    BY <1>1 DEF Columns
  <2>1. PICK j \in 0 .. row.len[k] - 1 : row.index[k][j] >= 0 /\ x = <<k, j, row.index[k][j]>>
    BY <2>0
  <2>2. j \in 0 .. row.width[k] - 1
    BY RowFacts
  <2>3. row.index[k][j] \in 0 .. row.cacheRows[k] - 1
    BY <2>1, <2>2, RowFacts
  <2>4. Weight(x) = row.score[k][row.index[k][j]]
    BY <2>1 DEF Weight, Kinds
  <2>5. QED
    BY <2>1, <2>3, <2>4, RowFacts
<1>2. \A x \in Sinks : x[1] = "sink" /\ Weight(x) \in row.sink /\ Weight(x) \in Scores
  BY RowFacts DEF Sinks, Weight
<1>3. QED
  BY <1>1, <1>2

\* The columns a decode gathers, slot by slot, are the columns of the row.
Column(n) == <<Kind(n), Slot(n), gathered[n].row>>
LEMMA GatheredColumns ==
  ASSUME SensibleRows, row \in AttentionRows, GatherInv, pc = "split", todo = {}
  PROVE  /\ \A n \in Slots(row) : ~gathered[n].invalid => Column(n) \in Columns
         /\ \A x \in Columns : \E n \in Slots(row) : ~gathered[n].invalid /\ Column(n) = x
<1>1. ASSUME NEW n \in Slots(row)
      PROVE  LET i == row.index[Kind(n)][Slot(n)]
             IN  /\ ~gathered[n].invalid <=>
                      i >= 0 /\ i < row.cacheRows[Kind(n)] /\ ~(Slot(n) >= row.len[Kind(n)])
                 /\ ~gathered[n].invalid => gathered[n].row = i
  <2>1. gathered[n] = Gathered(n)
    BY DEF GatherInv
  <2> DEFINE i == row.index[Kind(n)][Slot(n)]
             inRange == i >= 0 /\ i < row.cacheRows[Kind(n)]
  <2>2. Gathered(n) = [invalid |-> ~inRange \/ Slot(n) >= row.len[Kind(n)],
                    row |-> IF inRange THEN i ELSE 0]
    BY DEF Gathered
  <2> HIDE DEF i
  <2>3. /\ Gathered(n).invalid = (~inRange \/ Slot(n) >= row.len[Kind(n)])
        /\ Gathered(n).row = IF inRange THEN i ELSE 0
    BY ONLY <2>2
  <2>4. QED
    BY <2>1, <2>3 DEF i
<1>2. row.width["compressed"] \in Nat /\ row.width["swa"] \in Nat
      /\ Slots(row) = 0 .. row.width["compressed"] + row.width["swa"] - 1
  BY RowFacts DEF Kinds, Slots
<1>3. \A n \in Slots(row) : Kind(n) \in Kinds /\ Slot(n) \in 0 .. row.width[Kind(n)] - 1
  BY <1>2 DEF Kind, Slot, Kinds
<1>4. ASSUME NEW n \in Slots(row), ~gathered[n].invalid PROVE Column(n) \in Columns
  <2> DEFINE k == Kind(n)
             j == Slot(n)
             i == row.index[k][j]
  <2>1. i >= 0 /\ i < row.cacheRows[k] /\ ~(j >= row.len[k]) /\ gathered[n].row = i
    BY <1>1, <1>4
  <2>2. k \in Kinds /\ j \in 0 .. row.len[k] - 1
    BY <1>3, <2>1, RowFacts
  <2>3. Column(n) = <<k, j, row.index[k][j]>>
    BY <2>1 DEF Column
  <2> HIDE DEF k, j
  <2>4. QED
    BY <2>1, <2>2, <2>3 DEF Columns
<1>5. ASSUME NEW x \in Columns
      PROVE  \E n \in Slots(row) : ~gathered[n].invalid /\ Column(n) = x
  <2>1. /\ x[1] \in Kinds /\ x[2] \in 0 .. row.len[x[1]] - 1
        /\ x = <<x[1], x[2], row.index[x[1]][x[2]]>>
        /\ x[3] \in 0 .. row.cacheRows[x[1]] - 1
    BY ColumnFacts
  <2> DEFINE n == IF x[1] = "compressed" THEN x[2] ELSE x[2] + row.width["compressed"]
  <2>2. row.len[x[1]] <= row.width[x[1]] /\ row.len[x[1]] \in Int /\ row.width[x[1]] \in Nat
    BY <2>1, RowFacts
  <2>3. n \in Slots(row) /\ Kind(n) = x[1] /\ Slot(n) = x[2]
    <3>1. CASE x[1] = "compressed"
      BY <1>2, <2>1, <2>2, <3>1, SMTT(30) DEF Kind, Slot
    <3>2. CASE x[1] = "swa"
      <4>1. x[2] \in Nat /\ x[2] < row.width["swa"] /\ n = x[2] + row.width["compressed"]
        BY <2>1, <2>2, <3>2
      <4>2. n \in Slots(row) /\ ~(n < row.width["compressed"]) /\ n - row.width["compressed"] = x[2]
        BY <1>2, <4>1
      <4>3. QED
        BY <3>2, <4>2 DEF Kind, Slot
    <3>3. QED
      BY <2>1, <3>1, <3>2 DEF Kinds
  <2> HIDE DEF n
  <2>4. x[3] = row.index[x[1]][x[2]] /\ x[3] >= 0 /\ x[3] < row.cacheRows[x[1]]
    BY <2>1, RowFacts
  <2>5. ~gathered[n].invalid /\ gathered[n].row = x[3]
    BY <1>1, <2>1, <2>2, <2>3, <2>4
  <2>6. QED
    BY <2>1, <2>3, <2>5 DEF Column
<1>6. QED
  BY <1>4, <1>5

\* A lane is a column of the row or has none.
LEMMA LaneFacts ==
  ASSUME SensibleRows, row \in AttentionRows, GatherInv, pc = "split", todo = {},
         NEW s \in Nat, NEW n \in Int, n >= s * Chunk(row)
  PROVE  /\ Lane(s, n) \in Columns \/ (Lane(s, n)[1] = "pad" /\ Weight(Lane(s, n)) = Low)
         /\ Weight(Lane(s, n)) \in Int
<1>1. Total(row) \in Nat /\ Chunk(row) \in Nat /\ Slots(row) = 0 .. Total(row) - 1
  BY Sizes
<1>2. s * Chunk(row) \in Nat
  BY <1>1
<1>3. CASE n < End(s) /\ ~gathered[n].invalid
  <2>1. n \in Slots(row)
    BY <1>1, <1>2, <1>3 DEF End
  <2>2. Lane(s, n) = Column(n) /\ Column(n) \in Columns
    BY <1>3, <2>1, GatheredColumns DEF Lane, Column
  <2>3. QED
    BY <2>2, ColumnFacts, RowFacts
<1>4. CASE ~(n < End(s) /\ ~gathered[n].invalid)
  BY <1>4, RowFacts DEF Lane, Weight
<1>5. QED
  BY <1>3, <1>4

-------------------------------------------------------------------------------
(* The steps.  A row does not change, so neither do its columns and scores.    *)

LEMMA SameRow ==
  ASSUME row' = row
  PROVE  Columns' = Columns /\ Sinks' = Sinks /\ (\A x : Weight(x)' = Weight(x))
BY DEF Columns, Sinks, Weight

LEMMA SeenFacts ==
  ASSUME SensibleRows, row \in AttentionRows, NEW xs, xs \subseteq Columns \cup Sinks
  PROVE  \A x \in xs : Weight(x) \in Int
BY ColumnFacts, RowFacts

LEMMA OnlinePrime ==
  ASSUME row' = row, NEW xs, Seen' = xs, peak' \in Peaks(Low, xs), terms' = Terms(xs, peak')
  PROVE  OnlineInv'
<1>1. \A x : Weight(x)' = Weight(x)
  BY SameRow
<1>2. (peak \in Peaks(Low, Seen))'
  BY <1>1 DEF Peaks
<1>3. (terms = Terms(Seen, peak))'
  BY <1>1 DEF Terms
<1>4. QED
  BY <1>2, <1>3 DEF OnlineInv

LEMMA OutPrime ==
  ASSUME row' = row, NEW m \in Peaks(Low, Columns \cup Sinks),
         out' = Quotient(Terms(Columns \cup Sinks, m))
  PROVE  OutputIsSoftmax'
<1>1. Columns' = Columns /\ Sinks' = Sinks /\ \A x : Weight(x)' = Weight(x)
  BY SameRow
<1>2. (m \in Peaks(Low, Columns \cup Sinks))'
  BY <1>1 DEF Peaks
<1>3. (out = Quotient(Terms(Columns \cup Sinks, m)))'
  BY <1>1 DEF Terms, Quotient, Above
<1>4. QED
  BY <1>2, <1>3 DEF OutputIsSoftmax

LEMMA LaunchStep ==
  ASSUME SensibleRows, AttentionInv, Launch
  PROVE  AttentionInv'
<1>1. /\ row \in AttentionRows /\ row' = row /\ kind = "compressed" /\ at = 0
      /\ kind' = kind /\ at' = at /\ pc' \in {"gather", "online"}
  BY DEF AttentionInv, TypeInv, Launch
<1>2. TypeInv'
  BY <1>1 DEF TypeInv, Kinds
<1>3. OnlineInv'
  <2>1. SUFFICES ASSUME pc' = "online" PROVE OnlineInv'
    BY DEF OnlineInv
  <2>2. /\ peak' \in IF row.sink = {} THEN {Low} ELSE row.sink
        /\ terms' = Terms(Sinks, peak')
    BY <2>1 DEF Launch
  <2>3. Seen' = Sinks
    <3>1. Columns' = Columns /\ Sinks' = Sinks
      BY <1>1, SameRow
    <3>2. \A x \in Columns : ~(x[2] < 0)
      BY <1>1, ColumnFacts, RowFacts
    <3>3. QED
      BY <1>1, <3>1, <3>2 DEF Seen
  <2>4. peak' \in Peaks(Low, Sinks)
    <3>1. CASE row.sink = {}
      BY <1>1, <2>2, <3>1, RowFacts DEF Peaks, Sinks
    <3>2. CASE row.sink # {}
      <4>1. PICK v \in row.sink : peak' = v
        BY <2>2, <3>2
      <4>2. \A u \in row.sink : u = v
        BY <1>1, <4>1 DEF SensibleRows, LegalRow
      <4>3. Sinks = {<<"sink", v, 0>>} /\ Weight(<<"sink", v, 0>>) = v
        BY <4>1, <4>2 DEF Sinks, Weight
      <4>4. v \in Int /\ Low <= v
        BY <1>1, RowFacts
      <4>5. QED
        BY <4>1, <4>3, <4>4 DEF Peaks
    <3>3. QED
      BY <3>1, <3>2
  <2>5. QED
    BY <1>1, <2>2, <2>3, <2>4, OnlinePrime
<1>4. GatherInv'
  <2>1. CASE pc' = "online"
    BY <2>1 DEF GatherInv
  <2>2. CASE pc' = "gather"
    BY <1>1, <2>2 DEF Launch, GatherInv, Slots
  <2>3. QED
    BY <1>1, <2>1, <2>2
<1>5. QED
  BY <1>1, <1>2, <1>3, <1>4 DEF AttentionInv, SplitInv, OutputIsSoftmax

LEMMA AccumulateStep ==
  ASSUME SensibleRows, AttentionInv, Accumulate
  PROVE  AttentionInv'
<1> DEFINE x == <<kind, at, row.index[kind][at]>>
<1>1. /\ row \in AttentionRows /\ row' = row /\ pc = "online" /\ pc' = pc /\ kind' = kind /\ at' = at + 1
      /\ kind \in Kinds /\ at \in Nat /\ at < row.len[kind]
  BY DEF AttentionInv, TypeInv, Accumulate
<1>2. peak \in Peaks(Low, Seen) /\ terms = Terms(Seen, peak)
  BY <1>1 DEF AttentionInv, OnlineInv
<1>3. /\ at \in 0 .. row.len[kind] - 1 /\ Columns' = Columns /\ Sinks' = Sinks
  BY <1>1, RowFacts, SameRow
<1>4. \A y \in Columns : y[2] \in Int /\ y = <<y[1], y[2], row.index[y[1]][y[2]]>>
  BY <1>1, ColumnFacts, RowFacts
<1>5. CASE row.index[kind][at] >= 0
  <2>1. x \in Columns /\ x[1] = kind /\ x[2] = at
    BY <1>1, <1>3, <1>5 DEF Columns
  <2> DEFINE xs == Seen \cup {x}
  <2>2. Seen' = xs
    <3>1. \A y \in Columns : (y[1] = kind /\ y[2] < at + 1) <=> (y[1] = kind /\ y[2] < at) \/ y = x
      BY <1>1, <1>4, <2>1
    <3>2. Seen' = Sinks \cup {y \in Columns :
                    (y[1] = kind /\ y[2] < at + 1) \/ (y[1] = "compressed" /\ kind = "swa")}
      BY <1>1, <1>3 DEF Seen
    <3> HIDE DEF x
    <3>3. QED
      BY <2>1, <3>1, <3>2 DEF Seen
  <2>3. PICK m \in Peaks(peak, {x}) :
          peak' = m /\ terms' = Updated(terms, peak, m, {x})
    BY <1>5 DEF Accumulate
  <2>4. \A y \in xs : Weight(y) \in Int
    <3>1. xs \subseteq Columns \cup Sinks
      BY <2>1 DEF Seen
    <3>2. QED
      BY <1>1, <3>1, SeenFacts
  <2> HIDE DEF x
  <2>5. peak' \in Peaks(Low, xs) /\ terms' = Terms(xs, peak')
    <3> DEFINE ys == {x}
               zs == Seen
    <3>1. xs = zs \cup ys /\ peak \in Peaks(Low, zs) /\ m \in Peaks(peak, ys)
      BY <1>2, <2>3
    <3>2. terms' = Updated(Terms(zs, peak), peak, m, ys)
      BY <1>2, <2>3
    <3>3. \A y \in zs \cup ys : Weight(y) \in Int
      BY <2>4
    <3> HIDE DEF xs, ys, zs
    <3>4. /\ m \in Peaks(Low, zs \cup ys)
          /\ Updated(Terms(zs, peak), peak, m, ys) = Terms(zs \cup ys, m)
      BY <3>1, <3>3, OnlineStep
    <3>5. QED
      BY <2>3, <3>1, <3>2, <3>4
  <2>6. OnlineInv'
    BY <1>1, <2>2, <2>5, OnlinePrime
  <2>7. QED
    BY <1>1, <2>6 DEF AttentionInv, TypeInv, GatherInv, SplitInv, OutputIsSoftmax
<1>6. CASE ~(row.index[kind][at] >= 0)
  <2>1. Seen' = Seen
    <3>1. \A y \in Columns : y[3] >= 0 /\ y[3] = row.index[y[1]][y[2]]
      BY <1>1, ColumnFacts, RowFacts
    <3>2. \A y \in Columns : y[1] = kind /\ y[2] < at + 1 => y[2] < at
      BY <1>1, <1>4, <1>6, <3>1
    <3>3. QED
      BY <1>1, <1>3, <1>4, <3>2 DEF Seen
  <2>2. peak' = peak /\ terms' = terms
    BY <1>6 DEF Accumulate
  <2> DEFINE xs == Seen
  <2>3. Seen' = xs /\ peak' \in Peaks(Low, xs) /\ terms' = Terms(xs, peak')
    BY <1>2, <2>1, <2>2
  <2> HIDE DEF xs
  <2>4. OnlineInv'
    BY <1>1, <2>3, OnlinePrime
  <2>5. QED
    BY <1>1, <2>4 DEF AttentionInv, TypeInv, GatherInv, SplitInv, OutputIsSoftmax
<1>7. QED
  BY <1>5, <1>6

LEMMA NextSourceStep ==
  ASSUME SensibleRows, AttentionInv, NextSource
  PROVE  AttentionInv'
<1>1. /\ row \in AttentionRows /\ row' = row /\ pc = "online" /\ pc' = pc /\ kind = "compressed"
      /\ kind' = "swa" /\ at \in Nat /\ at' = 0 /\ at >= row.len["compressed"]
      /\ peak' = peak /\ terms' = terms
  BY DEF AttentionInv, TypeInv, NextSource
<1> DEFINE xs == Seen
<1>2. Seen' = xs
  <2>1. \A y \in Columns : /\ y[2] \in Nat /\ y[1] \in Kinds
                           /\ y[1] = "compressed" => y[2] < at
    BY <1>1, ColumnFacts, RowFacts DEF Kinds
  <2>2. Columns' = Columns /\ Sinks' = Sinks
    BY <1>1, SameRow
  <2>3. QED
    BY <1>1, <2>1, <2>2 DEF Seen
<1>3. peak' \in Peaks(Low, xs) /\ terms' = Terms(xs, peak')
  BY <1>1 DEF AttentionInv, OnlineInv
<1> HIDE DEF xs
<1>4. OnlineInv'
  BY <1>1, <1>2, <1>3, OnlinePrime
<1>5. QED
  BY <1>1, <1>4 DEF AttentionInv, TypeInv, Kinds, GatherInv, SplitInv, OutputIsSoftmax

LEMMA WriteStep ==
  ASSUME SensibleRows, AttentionInv, Write
  PROVE  AttentionInv'
<1>1. /\ row \in AttentionRows /\ row' = row /\ pc = "online" /\ pc' = "done" /\ kind = "swa"
      /\ at \in Nat /\ at >= row.len["swa"] /\ out' = Quotient(terms)
  BY DEF AttentionInv, TypeInv, Write
<1>2. Seen = Columns \cup Sinks
  <2>1. \A y \in Columns : /\ y[2] \in Nat /\ y[1] \in Kinds
                           /\ y[1] = "swa" => y[2] < at
    BY <1>1, ColumnFacts, RowFacts DEF Kinds
  <2>2. QED
    BY <1>1, <2>1 DEF Seen, Kinds
<1>3. peak \in Peaks(Low, Columns \cup Sinks) /\ out' = Quotient(Terms(Columns \cup Sinks, peak))
  BY <1>1, <1>2 DEF AttentionInv, OnlineInv
<1>4. OutputIsSoftmax'
  BY <1>1, <1>3, OutPrime
<1>5. QED
  BY <1>1, <1>4 DEF AttentionInv, TypeInv, Write, OnlineInv, GatherInv, SplitInv

LEMMA GatherStep ==
  ASSUME SensibleRows, AttentionInv, NEW n \in todo, Gather(n)
  PROVE  AttentionInv'
<1>1. /\ row' = row /\ pc = "gather" /\ pc' = pc /\ todo' = todo \ {n} /\ todo \subseteq Slots(row)
      /\ gathered' = [gathered EXCEPT ![n] = Gathered(n)] /\ DOMAIN gathered = Slots(row)
  BY DEF AttentionInv, GatherInv, Gather
<1>2. \A i : Gathered(i)' = Gathered(i)
  BY <1>1 DEF Gathered, Kind, Slot
<1>3. GatherInv'
  <2>1. todo' \subseteq Slots(row') /\ DOMAIN gathered' = Slots(row')
    BY <1>1
  <2>2. ASSUME NEW i \in Slots(row) \ todo' PROVE gathered'[i] = Gathered(i)
    <3>1. CASE i = n
      BY <1>1, <3>1
    <3>2. CASE i # n
      BY <1>1, <2>2, <3>2 DEF AttentionInv, GatherInv
    <3>3. QED
      BY <3>1, <3>2
  <2>3. QED
    BY <1>1, <1>2, <2>1, <2>2 DEF GatherInv
<1>4. QED
  BY <1>1, <1>3 DEF AttentionInv, TypeInv, Gather, OnlineInv, SplitInv, OutputIsSoftmax

LEMMA SameGathered ==
  ASSUME row' = row, gathered' = gathered
  PROVE  /\ \A i : Gathered(i)' = Gathered(i)
         /\ \A i, s : Lane(s, i)' = Lane(s, i)
BY DEF Gathered, Kind, Slot, Lane, End, Chunk, Total, Splits

LEMMA LaunchSplitsStep ==
  ASSUME SensibleRows, AttentionInv, LaunchSplits
  PROVE  AttentionInv'
<1>1. /\ row \in AttentionRows /\ row' = row /\ pc = "gather" /\ pc' = "split" /\ todo = {} /\ todo' = todo
      /\ gathered' = gathered
      /\ part' = [s \in 0 .. Splits(row) - 1 |-> [block |-> 0, peak |-> Low, terms |-> {}]]
  BY DEF AttentionInv, TypeInv, LaunchSplits
<1>2. GatherInv'
  BY <1>1, SameGathered DEF AttentionInv, GatherInv
<1>3. BlockN \in Nat /\ Blocks(row) \in Nat /\ Chunk(row) \in Nat /\ Splits(row) \in Nat /\ Low \in Int
  BY <1>1, Sizes DEF SensibleRows
<1>4. SplitInv'
  <2>1. DOMAIN part' = 0 .. Splits(row') - 1
    BY <1>1
  <2>2. ASSUME NEW s \in 0 .. Splits(row) - 1
        PROVE  /\ part'[s].block = 0 /\ part'[s].peak = Low /\ part'[s].terms = {}
               /\ SeenBy(s, part[s].block)' = {}
    <3>1. part'[s].block = 0 /\ part'[s].peak = Low /\ part'[s].terms = {}
      BY <1>1
    <3>2. s * Chunk(row) \in Int /\ 0 * BlockN = 0
      BY <1>3
    <3>3. s * Chunk(row) .. s * Chunk(row) + 0 * BlockN - 1 = {}
      BY <3>2
    <3>4. QED
      BY <1>1, <3>1, <3>3 DEF SeenBy
  <2>3. ASSUME NEW s \in 0 .. Splits(row) - 1
        PROVE  /\ (part[s].peak \in Peaks(Low, SeenBy(s, part[s].block)))'
               /\ (part[s].terms = Terms(SeenBy(s, part[s].block), part[s].peak))'
    BY <1>3, <2>2 DEF Peaks, Terms
  <2>4. \A s \in 0 .. Splits(row) - 1 : part'[s].block \in 0 .. Blocks(row')
    BY <1>1, <1>3, <2>2
  <2>5. QED
    BY <1>1, <2>1, <2>3, <2>4 DEF SplitInv
<1>5. QED
  BY <1>1, <1>2, <1>4 DEF AttentionInv, TypeInv, LaunchSplits, OnlineInv, OutputIsSoftmax

LEMMA MoreLanes ==
  ASSUME SensibleRows, row \in AttentionRows, NEW s \in Nat, NEW b \in Nat
  PROVE  SeenBy(s, b + 1) = SeenBy(s, b) \cup Lanes(s, b)
<1> DEFINE c == s * Chunk(row)
           d == b * BlockN
<1>1. BlockN \in Nat /\ Chunk(row) \in Nat
  BY Sizes DEF SensibleRows
<1>2. c \in Nat /\ d \in Nat /\ (b + 1) * BlockN = d + BlockN
  BY <1>1
<1> HIDE DEF c, d
<1>3. c .. c + (d + BlockN) - 1 = (c .. c + d - 1) \cup (c + d .. c + d + BlockN - 1)
  BY <1>1, <1>2
<1>4. QED
  BY <1>2, <1>3 DEF SeenBy, Lanes, c, d

\* The lanes of a split have scores.
LEMMA SeenByFacts ==
  ASSUME SensibleRows, row \in AttentionRows, GatherInv, pc = "split", todo = {},
         NEW s \in Nat, NEW b \in Nat
  PROVE  \A x \in SeenBy(s, b) : /\ x \in Columns \/ (x[1] = "pad" /\ Weight(x) = Low)
                                 /\ Weight(x) \in Int
<1>1. BlockN \in Nat /\ Chunk(row) \in Nat
  BY Sizes DEF SensibleRows
<1>2. s * Chunk(row) \in Nat /\ b * BlockN \in Nat
  BY <1>1
<1>3. ASSUME NEW x \in SeenBy(s, b)
      PROVE  (x \in Columns \/ (x[1] = "pad" /\ Weight(x) = Low)) /\ Weight(x) \in Int
  <2>1. PICK n \in s * Chunk(row) .. s * Chunk(row) + b * BlockN - 1 : x = Lane(s, n)
    BY <1>3 DEF SeenBy
  <2>2. n \in Int /\ n >= s * Chunk(row)
    BY <1>2
  <2>3. QED
    BY <2>1, <2>2, LaneFacts
<1>4. QED
  BY <1>3

LEMMA SplitStep ==
  ASSUME SensibleRows, AttentionInv, NEW s \in DOMAIN part, Split(s)
  PROVE  AttentionInv'
<1> DEFINE b == part[s].block
           xs == Lanes(s, b)
           seen == SeenBy(s, b)
<1>1. /\ row \in AttentionRows /\ row' = row /\ pc = "split" /\ pc' = pc /\ todo = {} /\ todo' = todo
      /\ gathered' = gathered /\ b < Blocks(row) /\ Blocks(row) \in Nat
      /\ DOMAIN part = 0 .. Splits(row) - 1 /\ GatherInv
      /\ b \in 0 .. Blocks(row) /\ part[s].peak \in Peaks(Low, seen)
      /\ part[s].terms = Terms(seen, part[s].peak)
  BY Sizes DEF AttentionInv, TypeInv, SplitInv, Split
<1>2. PICK m \in Peaks(part[s].peak, xs) :
        part' = [part EXCEPT ![s] =
                  [block |-> b + 1, peak |-> m,
                   terms |-> Updated(part[s].terms, part[s].peak, m, xs)]]
  BY DEF Split
<1>3. s \in Nat /\ b \in Nat
  BY <1>1, Sizes
<1>4. SeenBy(s, b + 1) = seen \cup xs
  BY <1>1, <1>3, MoreLanes
<1>5. \A x \in seen \cup xs : Weight(x) \in Int
  BY <1>1, <1>3, <1>4, SeenByFacts
<1>6. /\ m \in Peaks(Low, seen \cup xs)
      /\ Updated(part[s].terms, part[s].peak, m, xs) = Terms(seen \cup xs, m)
  <2> DEFINE top == part[s].peak
  <2>1. top \in Peaks(Low, seen) /\ m \in Peaks(top, xs)
    BY <1>1, <1>2
  <2> HIDE DEF seen, xs, top
  <2>2. m \in Peaks(Low, seen \cup xs) /\ Updated(Terms(seen, top), top, m, xs) = Terms(seen \cup xs, m)
    BY <1>5, <2>1, OnlineStep
  <2>3. QED
    BY <1>1, <2>2 DEF top
<1>7. \A x : Weight(x)' = Weight(x)
  BY <1>1, SameRow
<1>8. \A t, d : SeenBy(t, d)' = SeenBy(t, d)
  <2>1. \A i, t : Lane(t, i)' = Lane(t, i)
    BY <1>1, SameGathered
  <2>2. QED
    BY <1>1, <2>1 DEF SeenBy
<1>9. GatherInv'
  BY <1>1, SameGathered DEF GatherInv
<1>10. SplitInv'
  <2>1. DOMAIN part' = 0 .. Splits(row') - 1
    BY <1>1, <1>2
  <2>2. ASSUME NEW t \in DOMAIN part
        PROVE  /\ part'[t].block \in 0 .. Blocks(row)
               /\ part'[t].peak \in Peaks(Low, SeenBy(t, part'[t].block))
               /\ part'[t].terms = Terms(SeenBy(t, part'[t].block), part'[t].peak)
    <3>1. CASE t = s
      <4>1. part'[t].block = b + 1 /\ part'[t].peak = m /\ part'[t].terms = Terms(seen \cup xs, m)
        BY <1>1, <1>2, <1>6, <3>1
      <4>2. SeenBy(t, part'[t].block) = seen \cup xs
        BY <1>4, <3>1, <4>1
      <4>3. b + 1 \in 0 .. Blocks(row)
        BY <1>1, <1>3
      <4> HIDE DEF b, seen, xs
      <4>4. QED
        BY <1>6, <4>1, <4>2, <4>3
    <3>2. CASE t # s
      <4>1. part'[t] = part[t]
        BY <1>2, <3>2
      <4>2. QED
        BY <1>1, <4>1 DEF AttentionInv, SplitInv
    <3>3. QED
      BY <3>1, <3>2
  <2>3. ASSUME NEW t \in DOMAIN part
        PROVE  /\ (part[t].peak \in Peaks(Low, SeenBy(t, part[t].block)))'
               /\ (part[t].terms = Terms(SeenBy(t, part[t].block), part[t].peak))'
    <3>1. SeenBy(t, part[t].block)' = SeenBy(t, part'[t].block)
      BY <1>8
    <3>2. QED
      BY <1>7, <2>2, <3>1 DEF Peaks, Terms
  <2>4. QED
    BY <1>1, <2>1, <2>2, <2>3 DEF SplitInv
<1>11. QED
  BY <1>1, <1>9, <1>10 DEF AttentionInv, TypeInv, Split, OnlineInv, OutputIsSoftmax

\* Every column is a lane of some split.
LEMMA ColumnsAreSeen ==
  ASSUME SensibleRows, row \in AttentionRows, GatherInv, pc = "split", todo = {}, NEW x \in Columns
  PROVE  \E s \in 0 .. Splits(row) - 1 : x \in SeenBy(s, Blocks(row))
<1>1. PICK n \in Slots(row) : ~gathered[n].invalid /\ Column(n) = x
  BY GatheredColumns
<1>2. PICK s \in 0 .. Splits(row) - 1 : s * Chunk(row) <= n /\ n < s * Chunk(row) + Chunk(row)
  BY SplitOfSlot
<1>3. /\ Total(row) \in Nat /\ Splits(row) \in Nat /\ Chunk(row) \in Nat /\ Blocks(row) \in Nat
      /\ Slots(row) = 0 .. Total(row) - 1 /\ Blocks(row) * BlockN >= Chunk(row) /\ BlockN \in Nat
  BY Sizes DEF SensibleRows
<1>4. n < End(s)
  BY <1>2, <1>3 DEF End
<1>5. Lane(s, n) = x
  BY <1>1, <1>4 DEF Lane, Column
<1>6. n \in s * Chunk(row) .. s * Chunk(row) + Blocks(row) * BlockN - 1
  <2> DEFINE c == s * Chunk(row)
             e == Blocks(row) * BlockN
  <2>1. c \in Nat /\ e \in Nat /\ n \in Int /\ Chunk(row) \in Nat
    BY <1>2, <1>3
  <2>2. c <= n /\ n < c + Chunk(row) /\ e >= Chunk(row)
    BY <1>2, <1>3
  <2> HIDE DEF c, e
  <2>3. n \in c .. c + e - 1
    BY <2>1, <2>2
  <2>4. QED
    BY <2>3 DEF c, e
<1>7. QED
  BY <1>2, <1>5, <1>6 DEF SeenBy

LEMMA CombineStep ==
  ASSUME SensibleRows, AttentionInv, Combine
  PROVE  AttentionInv'
<1> DEFINE S(s) == SeenBy(s, Blocks(row))
           D == (UNION {S(s) : s \in DOMAIN part}) \cup Sinks
           C == Columns \cup Sinks
<1>1. /\ row \in AttentionRows /\ row' = row /\ pc = "split" /\ pc' = "done" /\ todo = {} /\ GatherInv
      /\ DOMAIN part = 0 .. Splits(row) - 1
      /\ \A s \in DOMAIN part : /\ part[s].peak \in Peaks(Low, S(s))
                                /\ part[s].terms = Terms(S(s), part[s].peak)
  BY DEF AttentionInv, TypeInv, SplitInv, Combine
<1>2. PICK m \in GlobalPeaks :
        out' = Quotient((UNION {Rescaled(part[s].terms, m - part[s].peak) : s \in DOMAIN part})
                        \cup Terms(Sinks, m))
  BY DEF Combine
<1>3. Low \in Int /\ Splits(row) \in Nat /\ Blocks(row) \in Nat
  BY <1>1, Sizes DEF SensibleRows
<1>4. ASSUME NEW s \in DOMAIN part
      PROVE  /\ part[s].peak \in Int /\ Low <= part[s].peak
             /\ part[s].peak \in {Low} \cup {Weight(x) : x \in S(s)}
             /\ \A x \in S(s) : /\ Weight(x) <= part[s].peak /\ Weight(x) \in Int
                                /\ x \in Columns \/ (x[1] = "pad" /\ Weight(x) = Low)
  <2>1. \A x \in S(s) : Weight(x) \in Int /\ (x \in Columns \/ (x[1] = "pad" /\ Weight(x) = Low))
    BY <1>1, <1>3, SeenByFacts
  <2>2. QED
    BY <1>1, <1>3, <2>1 DEF Peaks
<1>5. \A x \in Sinks : x[1] = "sink" /\ Weight(x) \in row.sink /\ Weight(x) \in Int
  BY <1>1, ColumnFacts, RowFacts
<1>6. /\ m \in Int /\ Low <= m /\ \A q \in row.sink : q <= m
      /\ \A s \in DOMAIN part : part[s].peak <= m
      /\ m = Low \/ m \in row.sink \/ \E s \in DOMAIN part : m = part[s].peak
  BY <1>1, <1>3, <1>4, RowFacts DEF GlobalPeaks
<1>7. ASSUME NEW x \in Columns PROVE \E s \in DOMAIN part : x \in S(s)
  BY <1>1, ColumnsAreSeen
<1>8. m \in Peaks(Low, C)
  <2>1. m \in {Low} \cup {Weight(x) : x \in C}
    <3>1. CASE m \in row.sink
      <4>1. <<"sink", m, 0>> \in Sinks /\ Weight(<<"sink", m, 0>>) = m
        BY <3>1 DEF Sinks, Weight
      <4>2. QED
        BY <4>1
    <3>2. ASSUME NEW s \in DOMAIN part, m = part[s].peak PROVE m \in {Low} \cup {Weight(x) : x \in C}
      BY <1>4, <3>2
    <3>3. QED
      BY <1>6, <3>1, <3>2
  <2>2. \A x \in Columns : Weight(x) <= m
    BY <1>4, <1>6, <1>7
  <2>3. QED
    BY <1>5, <1>6, <2>1, <2>2 DEF Peaks
<1>9. out' = Quotient(Terms(D, m))
  <2>1. ASSUME NEW s \in DOMAIN part
        PROVE  Rescaled(part[s].terms, m - part[s].peak) = Terms(S(s), m)
    <3> DEFINE xs == S(s)
    <3>1. part[s].terms = Terms(xs, part[s].peak) /\ \A x \in xs : Weight(x) \in Int
      BY <1>1, <1>4
    <3> HIDE DEF xs
    <3>2. QED
      BY <1>4, <1>6, <3>1, RescaledTerms DEF xs
  <2>2. (UNION {Terms(S(s), m) : s \in DOMAIN part}) \cup Terms(Sinks, m) = Terms(D, m)
    BY DEF Terms
  <2>3. QED
    BY <1>2, <2>1, <2>2
<1>10. Quotient(Terms(D, m)) = Quotient(Terms(C, m))
  <2>1. \A x \in D : x \in C \/ (x[1] = "pad" /\ Weight(x) = Low)
    BY <1>4
  <2>2. \A x \in C : x \in D
    BY <1>7
  <2>3. CASE Columns = {}
    <3>1. \A x \in D : ~(x[1] \in Kinds)
      BY <1>5, <2>1, <2>3 DEF Kinds
    <3>2. Above(Terms(D, m)) = {} /\ Above(Terms(C, m)) = {}
      BY <2>2, <3>1 DEF Above, Terms
    <3>3. QED
      BY <3>2 DEF Quotient
  <2>4. CASE Columns # {}
    <3>1. PICK x \in Columns : Weight(x) \in Scores
      BY <1>1, <2>4, ColumnFacts
    <3>2. Weight(x) <= m /\ Low + Far < Weight(x) /\ Weight(x) \in Int /\ Far \in Nat
      BY <1>1, <1>4, <1>6, <1>7, <3>1, RowFacts
    <3>3. ~(Low - m >= -Far)
      BY <1>3, <1>6, <3>2
    <3>4. {y \in D : Weight(y) - m >= -Far} = {y \in C : Weight(y) - m >= -Far}
      BY <2>1, <2>2, <3>3
    <3>5. QED
      BY <3>4 DEF Terms
  <2>5. QED
    BY <2>3, <2>4
<1>11. OutputIsSoftmax'
  BY <1>1, <1>8, <1>9, <1>10, OutPrime
<1>12. QED
  BY <1>1, <1>11 DEF AttentionInv, TypeInv, Combine, OnlineInv, GatherInv, SplitInv

(* Whatever the lengths and indices of a row, the block size and the number  *)
(* of splits, both kernels write the softmax over exactly its columns and    *)
(* its sink (sparse_attention_kernel, sparse_attention_splitk_bf16).         *)
THEOREM OutputsAreSoftmax ==
  ASSUME SensibleRows
  PROVE  AttentionSpec => []OutputIsSoftmax
<1>1. AttentionInit => AttentionInv
  BY DEF AttentionInit, AttentionInv, TypeInv, Kinds, OnlineInv, GatherInv, SplitInv, OutputIsSoftmax
<1>2. AttentionInv /\ [AttentionNext \/ Done]_attentionVars => AttentionInv'
  <2> SUFFICES ASSUME AttentionInv, [AttentionNext \/ Done]_attentionVars PROVE AttentionInv'
    OBVIOUS
  <2>1. CASE attentionVars' = attentionVars
    <3>1. row' = row /\ gathered' = gathered /\ part' = part /\ todo' = todo /\ pc' = pc
          /\ kind' = kind /\ at' = at /\ peak' = peak /\ terms' = terms /\ out' = out
      BY <2>1 DEF attentionVars
    <3>2. QED
      BY <3>1, SameGathered, SameRow
      DEF AttentionInv, TypeInv, OnlineInv, GatherInv, SplitInv, OutputIsSoftmax, Seen, SeenBy, Peaks,
          Terms, Quotient, Above
  <2>2. ASSUME NEW n \in todo, Gather(n) PROVE AttentionInv'
    BY <2>2, GatherStep
  <2>3. ASSUME NEW s \in DOMAIN part, Split(s) PROVE AttentionInv'
    BY <2>3, SplitStep
  <2>4. QED
    BY <2>1, <2>2, <2>3, LaunchStep, AccumulateStep, NextSourceStep, WriteStep, LaunchSplitsStep,
       CombineStep DEF AttentionNext, Done
<1>3. AttentionInv => OutputIsSoftmax
  BY DEF AttentionInv
<1>4. QED
  BY <1>1, <1>2, <1>3, PTL DEF AttentionSpec

-------------------------------------------------------------------------------
(* Positions.                                                                  *)

LEMMA Divided ==
  ASSUME NEW n \in Nat, NEW k \in Nat \ {0}
  PROVE  /\ n \div k \in Nat /\ n % k \in Nat /\ n % k < k
         /\ n = (n \div k) * k + (n % k)
OBVIOUS

LEMMA Products ==
  ASSUME NEW a \in Int, NEW b \in Int, NEW k \in Nat \ {0}, a < b
  PROVE  a * k + k <= b * k
<1>1. a + 1 <= b
  OBVIOUS
<1>2. (a + 1) * k <= b * k
  BY <1>1
<1>3. (a + 1) * k = a * k + k
  OBVIOUS
<1>4. a * k \in Int /\ b * k \in Int
  OBVIOUS
<1>5. QED
  BY <1>2, <1>3, <1>4

LEMMA DivisionIs ==
  ASSUME NEW n \in Nat, NEW k \in Nat \ {0}, NEW a \in Int, NEW b \in 0 .. k - 1, n = a * k + b
  PROVE  n \div k = a /\ n % k = b
<1> DEFINE c == n \div k
           d == n % k
<1>1. c \in Nat /\ d \in Nat /\ d < k /\ n = c * k + d
  BY Divided
<1> HIDE DEF c, d
<1>2. c * k \in Int /\ a * k \in Int
  BY <1>1
<1>3. ~ (c < a)
  <2>1. SUFFICES ASSUME c < a PROVE FALSE
    OBVIOUS
  <2>2. c * k + k <= a * k
    BY <1>1, <2>1, Products
  <2>3. QED
    BY <1>1, <1>2, <2>2
<1>4. ~ (a < c)
  <2>1. SUFFICES ASSUME a < c PROVE FALSE
    OBVIOUS
  <2>2. a * k + k <= c * k
    BY <1>1, <2>1, Products
  <2>3. QED
    BY <1>1, <1>2, <2>2
<1>5. c = a
  BY <1>1, <1>3, <1>4
<1>6. d = b
  BY <1>1, <1>2, <1>5
<1>7. QED
  BY <1>5, <1>6 DEF c, d

\* Numbers that leave the same remainder are a divisor apart.
LEMMA Apart ==
  ASSUME NEW n \in Nat, NEW m \in Nat, NEW k \in Nat \ {0}, n % k = m % k, n < m
  PROVE  n + k <= m
<1> DEFINE a == n \div k
           b == m \div k
           c == n % k
<1>1. /\ a \in Nat /\ b \in Nat /\ c \in Nat /\ n = a * k + c /\ m = b * k + c
  BY Divided
<1> HIDE DEF a, b, c
<1>2. a * k \in Nat /\ b * k \in Nat
  BY <1>1
<1>3. a < b
  <2>1. SUFFICES ASSUME ~(a < b) PROVE FALSE
    OBVIOUS
  <2>2. b < a \/ a = b
    BY <1>1, <2>1
  <2>3. b < a => b * k + k <= a * k
    BY <1>1, Products
  <2>4. QED
    BY <1>1, <1>2, <2>2, <2>3
<1>4. a * k + k <= b * k
  BY <1>1, <1>3, Products
<1>5. QED
  BY <1>1, <1>2, <1>4

LEMMA SameRemainder ==
  ASSUME NEW n \in Nat, NEW m \in Nat, NEW k \in Nat \ {0}, n % k = m % k, n < m + k, m < n + k
  PROVE  n = m
<1>1. n < m => n + k <= m
  BY Apart
<1>2. m < n => m + k <= n
  BY Apart
<1>3. QED
  BY <1>1, <1>2

LEMMA DivisionGrows ==
  ASSUME NEW n \in Nat, NEW m \in Nat, NEW k \in Nat \ {0}, n <= m
  PROVE  n \div k <= m \div k
<1> DEFINE a == n \div k
           b == m \div k
<1>1. /\ a \in Nat /\ b \in Nat /\ n % k \in Nat /\ m % k \in Nat /\ m % k < k
      /\ n = a * k + (n % k) /\ m = b * k + (m % k)
  BY Divided
<1> HIDE DEF a, b
<1>2. a * k \in Nat /\ b * k \in Nat
  BY <1>1
<1>3. b < a => b * k + k <= a * k
  BY <1>1, Products
<1> DEFINE c == n % k
           d == m % k
           e == a * k
           f == b * k
<1>4. ~(b < a)
  <2>1. c \in Nat /\ d \in Nat /\ d < k /\ n = e + c /\ m = f + d /\ e \in Nat /\ f \in Nat
    BY <1>1, <1>2
  <2>2. b < a => f + k <= e
    BY <1>3
  <2> HIDE DEF c, d, e, f
  <2>3. QED
    BY <2>1, <2>2
<1>5. QED
  BY <1>1, <1>4 DEF a, b

\* A divisor of a page and how many of it there are in a page.
LEMMA DivisorIs ==
  ASSUME NEW k \in Nat \ {0}, NEW s \in Nat \ {0}, k % s = 0
  PROVE  k \div s \in Nat \ {0} /\ k = (k \div s) * s
<1> DEFINE c == k \div s
<1>1. c \in Nat /\ k = c * s + 0
  BY Divided
<1> HIDE DEF c
<1>2. c # 0
  BY <1>1
<1>3. QED
  BY <1>1, <1>2 DEF c

\* A number with respect to two divisors, one of which divides the other.
LEMMA Nested ==
  ASSUME NEW n \in Nat, NEW k \in Nat \ {0}, NEW s \in Nat \ {0}, k % s = 0
  PROVE  /\ (n % k) % s = n % s
         /\ n \div s = (n \div k) * (k \div s) + ((n % k) \div s)
         /\ (n % k) \div s \in 0 .. (k \div s) - 1
<1> DEFINE c == k \div s
           a == n \div k
           b == n % k
           d == b \div s
           e == b % s
<1>1. c \in Nat \ {0} /\ k = c * s
  BY DivisorIs
<1>2. a \in Nat /\ b \in Nat /\ b < k /\ n = a * k + b
  BY Divided
<1>3. d \in Nat /\ e \in Nat /\ e < s /\ b = d * s + e
  <2> HIDE DEF b
  <2>1. QED
    BY <1>2, Divided
<1> HIDE DEF a, b, c, d, e
<1>4. n = (a * c + d) * s + e
  <2>1. n = a * (c * s) + (d * s + e)
    BY <1>1, <1>2, <1>3
  <2>2. a * (c * s) = (a * c) * s
    BY <1>1, <1>2
  <2>3. (a * c) * s + d * s = (a * c + d) * s
    <3>1. a * c \in Int
      BY <1>1, <1>2
    <3>2. QED
      BY <1>3, <3>1
  <2>4. (a * c) * s \in Int /\ d * s \in Int /\ (a * c + d) * s \in Int
    BY <1>1, <1>2, <1>3
  <2>5. QED
    BY <1>3, <2>1, <2>2, <2>3, <2>4
<1>5. n \div s = a * c + d /\ n % s = e
  <2>1. a * c + d \in Int /\ e \in 0 .. s - 1
    BY <1>1, <1>2, <1>3
  <2>2. QED
    BY <1>4, <2>1, DivisionIs
<1>6. d < c
  <2>1. SUFFICES ASSUME c <= d PROVE FALSE
    BY <1>1, <1>3
  <2>2. c * s <= d * s
    BY <1>1, <1>3, <2>1
  <2>3. c * s \in Int /\ d * s \in Int
    BY <1>1, <1>3
  <2>4. QED
    BY <1>1, <1>2, <1>3, <2>2, <2>3
<1>7. d \in 0 .. c - 1
  BY <1>1, <1>3, <1>6
<1>8. QED
  BY <1>5, <1>7 DEF a, b, c, d, e

-------------------------------------------------------------------------------
(* The inductive invariant.                                                    *)

\* The entries and the row of the checkpoint that a page has of position p of a
\* text are those of the reference.
ShortOf(t, p) ==
  [i \in 0 .. 2 * ShortRatio - 1 |->
     LET q == p - (2 * ShortRatio - 1 - i) IN IF q < 0 THEN Nothing ELSE SubSeq(t, 1, q + 1)]
LongOf(t, p) ==
  [i \in 0 .. LongRatio - 1 |-> <<SubSeq(t, 1, p - (LongRatio - 1 - i) + 1), i>>]
EntryOf(p, r) == (p \div r) % (PageLength \div r)
HoldsAt(g, t, p) ==
  /\ (p + 1) % ShortRatio = 0 => short[g][EntryOf(p, ShortRatio)] = ShortOf(t, p)
  /\ (p + 1) % LongRatio = 0 => long[g][EntryOf(p, LongRatio)] = LongOf(t, p)
  /\ p % PageLength >= PageLength - ShortRatio =>
       checkpoint[g][p % ShortRatio] = SubSeq(t, 1, p + 1)

UserRow(u) ==
  /\ slot[u] \in TableRows /\ \A v \in Running \ {u} : slot[v] # slot[u]
  /\ done[u] + count[u] <= Len(Text[u]) /\ done[u] + count[u] <= PageLength * Len(pages[u])
UserInv == \A u \in Running : UserRow(u)
BatchRow(u) ==
  /\ u \in Running /\ first[u] + count[u] <= total
  /\ \A v \in Users \ {u} : count[v] > 0 =>
       first[u] + count[u] <= first[v] \/ first[v] + count[v] <= first[u]
BatchInv ==
  /\ \A u \in Users : count[u] > 0 => BatchRow(u)
  /\ \A r \in 1 .. total : \E u \in Users : first[u] < r /\ r <= first[u] + count[u]
Shared(u, i) == i * PageLength <= done[u] /\ prefix[pages[u][i]] = PageText(u, i)
Private(u, i) ==
  /\ pages[u][i] \notin free \cup Cached
  /\ \A v \in Running : \A j \in DOMAIN pages[v] : pages[v][j] = pages[u][i] => v = u /\ j = i
PagesRow(u) == \A i \in DOMAIN pages[u] : Shared(u, i) \/ Private(u, i)
PageInv ==
  /\ free \cap Cached = {}
  /\ \A g \in Cached : \E i \in Nat \ {0} : Len(prefix[g]) = i * PageLength
  /\ \A g, h \in Cached : prefix[g] = prefix[h] => g = h
  /\ \A u \in Running : PagesRow(u)
\* What the next forward of a request may read: the rows of its last tokens in
\* the ring if they are on the page that it goes on with, those of the group that
\* has begun, and all its entries.
RingRow(u) == \A q \in 0 .. done[u] - 1 :
  (done[u] \div PageLength) * PageLength <= q /\ done[u] <= q + 2 * ShortRatio =>
     ring[slot[u]][q % (2 * ShortRatio)] = Projected(u, q)
CarryRow(u) == \A q \in 0 .. done[u] - 1 :
  (done[u] \div LongRatio) * LongRatio <= q =>
     carry[slot[u]][q % LongRatio] = <<Projected(u, q), q % LongRatio>>
FilledRow(u) == \A p \in 0 .. done[u] - 1 :
  HoldsAt(pages[u][p \div PageLength + 1], Text[u], p)
DataRow(u) == RingRow(u) /\ CarryRow(u) /\ FilledRow(u)
DataInv == \A u \in Running : DataRow(u)
CachedRow(g) == \A p \in Len(prefix[g]) - PageLength .. Len(prefix[g]) - 1 :
  HoldsAt(g, prefix[g], p)
CachedInv == \A g \in Cached : CachedRow(g)

Types ==
  /\ DOMAIN phase = Users /\ DOMAIN slot = Users
  /\ done \in [Users -> Nat] /\ pages \in [Users -> Seq(Pages)]
  /\ free \in SUBSET Pages /\ prefix \in [Pages -> Seq(Tokens)]
  /\ first \in [Users -> Nat] /\ count \in [Users -> Nat] /\ total \in Nat
  /\ \A g \in Pages : /\ DOMAIN short[g] = 0 .. (PageLength \div ShortRatio) - 1
                      /\ DOMAIN long[g] = 0 .. (PageLength \div LongRatio) - 1
EntryInv == Types /\ UserInv /\ BatchInv /\ PageInv /\ DataInv /\ CachedInv

-------------------------------------------------------------------------------
(* Texts and their beginnings.                                                 *)

LEMMA RatioSizes ==
  /\ PageLength \in Nat \ {0} /\ ShortRatio \in Nat \ {0} /\ LongRatio \in Nat \ {0}
  /\ PageLength % ShortRatio = 0 /\ PageLength % LongRatio = 0
  /\ 2 * ShortRatio \in Nat \ {0}
BY CompressorAssumption

LEMMA Beginning ==
  ASSUME NEW t \in Seq(Tokens), NEW n \in Nat, n <= Len(t)
  PROVE  /\ SubSeq(t, 1, n) \in Seq(Tokens) /\ Len(SubSeq(t, 1, n)) = n
         /\ \A i \in 1 .. n : SubSeq(t, 1, n)[i] = t[i]
<1>1. Len(t) \in Nat /\ \A i \in 1 .. Len(t) : t[i] \in Tokens
  BY LenProperties, ElementOfSeq
<1>2. \A i \in 1 .. n : t[i] \in Tokens
  BY <1>1
<1>3. /\ SubSeq(t, 1, n) \in Seq(Tokens)
      /\ Len(SubSeq(t, 1, n)) = IF 1 <= n THEN n - 1 + 1 ELSE 0
      /\ \A i \in 1 .. n - 1 + 1 : SubSeq(t, 1, n)[i] = t[1 + i - 1]
  BY <1>2, SubSeqProperties
<1>4. n - 1 + 1 = n /\ (1 <= n \/ n = 0)
  OBVIOUS
<1>5. \A i \in 1 .. n : 1 + i - 1 = i
  OBVIOUS
<1>6. QED
  BY <1>3, <1>4, <1>5

LEMMA BeginningTwice ==
  ASSUME NEW t \in Seq(Tokens), NEW k \in Nat, k <= Len(t), NEW n \in Nat, n <= k
  PROVE  SubSeq(SubSeq(t, 1, k), 1, n) = SubSeq(t, 1, n)
<1> DEFINE s == SubSeq(t, 1, k)
<1>1. s \in Seq(Tokens) /\ Len(s) = k /\ \A i \in 1 .. k : s[i] = t[i]
  BY Beginning
<1> HIDE DEF s
<1>2. Len(t) \in Nat /\ n <= Len(t)
  BY LenProperties
<1>3. /\ SubSeq(s, 1, n) \in Seq(Tokens) /\ Len(SubSeq(s, 1, n)) = n
      /\ \A i \in 1 .. n : SubSeq(s, 1, n)[i] = s[i]
  BY <1>1, Beginning
<1>4. /\ SubSeq(t, 1, n) \in Seq(Tokens) /\ Len(SubSeq(t, 1, n)) = n
      /\ \A i \in 1 .. n : SubSeq(t, 1, n)[i] = t[i]
  BY <1>2, Beginning
<1>5. \A i \in 1 .. n : SubSeq(s, 1, n)[i] = SubSeq(t, 1, n)[i]
  BY <1>1, <1>3, <1>4
<1>6. SubSeq(s, 1, n) = SubSeq(t, 1, n)
  BY <1>3, <1>4, <1>5, SeqEqual
<1>7. QED
  BY <1>6 DEF s

LEMMA TextIs ==
  ASSUME NEW u \in Users
  PROVE  Text[u] \in Seq(Tokens) /\ Len(Text[u]) \in Nat
BY CompressorAssumption, LenProperties

LEMMA PageTextIs ==
  ASSUME NEW u \in Users, NEW i \in Nat \ {0}, i * PageLength <= Len(Text[u])
  PROVE  /\ PageText(u, i) = SubSeq(Text[u], 1, i * PageLength)
         /\ PageText(u, i) \in Seq(Tokens) /\ Len(PageText(u, i)) = i * PageLength
         /\ i * PageLength \in Nat /\ i * PageLength >= PageLength
         /\ PageText(u, i) # NotCached
<1> DEFINE n == i * PageLength
<1>1. PageLength \in Nat \ {0}
  BY RatioSizes
<1>2. n \in Nat /\ n >= PageLength
  BY <1>1
<1> HIDE DEF n
<1>3. n - 1 + 1 = n /\ n > 0
  BY <1>1, <1>2
<1>4. SubSeq(Text[u], 1, n) \in Seq(Tokens) /\ Len(SubSeq(Text[u], 1, n)) = n
  BY <1>2, TextIs, Beginning DEF n
<1>5. PageText(u, i) = SubSeq(Text[u], 1, n)
  BY <1>3 DEF PageText, Projected, n
<1>6. Len(<<>>) = 0
  OBVIOUS
<1>7. QED
  BY <1>2, <1>3, <1>4, <1>5, <1>6 DEF n, NotCached

\* A text and its beginning have the same reference.
LEMMA SameReference ==
  ASSUME NEW t \in Seq(Tokens), NEW k \in Nat, k <= Len(t), NEW p \in Nat, p < k
  PROVE  /\ ShortOf(SubSeq(t, 1, k), p) = ShortOf(t, p)
         /\ (p + 1) % LongRatio = 0 => LongOf(SubSeq(t, 1, k), p) = LongOf(t, p)
         /\ SubSeq(SubSeq(t, 1, k), 1, p + 1) = SubSeq(t, 1, p + 1)
<1> DEFINE s == SubSeq(t, 1, k)
<1>1. \A n \in Nat : n <= k => SubSeq(s, 1, n) = SubSeq(t, 1, n)
  BY BeginningTwice
<1> HIDE DEF s
<1>2. ShortOf(s, p) = ShortOf(t, p)
  <2>1. ASSUME NEW i \in 0 .. 2 * ShortRatio - 1,
               ~(p - (2 * ShortRatio - 1 - i) < 0)
        PROVE  SubSeq(s, 1, p - (2 * ShortRatio - 1 - i) + 1)
                 = SubSeq(t, 1, p - (2 * ShortRatio - 1 - i) + 1)
    <3>1. p - (2 * ShortRatio - 1 - i) + 1 \in Nat /\ p - (2 * ShortRatio - 1 - i) + 1 <= k
      BY <2>1, RatioSizes
    <3>2. QED
      BY <1>1, <3>1
  <2>2. QED
    BY <2>1 DEF ShortOf
<1>3. ASSUME (p + 1) % LongRatio = 0 PROVE LongOf(s, p) = LongOf(t, p)
  <2>1. p + 1 >= LongRatio
    <3>1. p + 1 = ((p + 1) \div LongRatio) * LongRatio + 0 /\ (p + 1) \div LongRatio \in Nat
      BY <1>3, RatioSizes, Divided
    <3>2. (p + 1) \div LongRatio # 0
      BY <3>1, RatioSizes
    <3>3. 0 * LongRatio + LongRatio <= ((p + 1) \div LongRatio) * LongRatio
      BY <3>1, <3>2, RatioSizes, Products
    <3>4. QED
      BY <3>1, <3>3, RatioSizes
  <2>2. ASSUME NEW i \in 0 .. LongRatio - 1
        PROVE  SubSeq(s, 1, p - (LongRatio - 1 - i) + 1) = SubSeq(t, 1, p - (LongRatio - 1 - i) + 1)
    <3>1. p - (LongRatio - 1 - i) + 1 \in Nat /\ p - (LongRatio - 1 - i) + 1 <= k
      BY <2>1, RatioSizes
    <3>2. QED
      BY <1>1, <3>1
  <2>3. QED
    BY <2>2 DEF LongOf
<1>4. SubSeq(s, 1, p + 1) = SubSeq(t, 1, p + 1)
  BY <1>1
<1>5. QED
  BY <1>2, <1>3, <1>4 DEF s

LEMMA HoldsOfBeginning ==
  ASSUME NEW t \in Seq(Tokens), NEW k \in Nat, k <= Len(t), NEW p \in Nat, p < k, NEW g
  PROVE  HoldsAt(g, SubSeq(t, 1, k), p) <=> HoldsAt(g, t, p)
<1>1. /\ ShortOf(SubSeq(t, 1, k), p) = ShortOf(t, p)
      /\ (p + 1) % LongRatio = 0 => LongOf(SubSeq(t, 1, k), p) = LongOf(t, p)
      /\ SubSeq(SubSeq(t, 1, k), 1, p + 1) = SubSeq(t, 1, p + 1)
  BY SameReference
<1>2. QED
  BY <1>1 DEF HoldsAt

-------------------------------------------------------------------------------
(* What a step leaves alone.                                                   *)

LEMMA FunctionIsSeq ==
  ASSUME NEW S, NEW n \in Nat, NEW f \in [1 .. n -> S]
  PROVE  f \in Seq(S) /\ Len(f) = n
OBVIOUS

LEMMA RunningIs == ASSUME NEW u PROVE u \in Running <=> u \in Users /\ phase[u] = "running"
BY DEF Running

LEMMA PageIs ==
  ASSUME Types, NEW u \in Users
  PROVE  /\ done[u] \in Nat /\ first[u] \in Nat /\ count[u] \in Nat
         /\ pages[u] \in Seq(Pages) /\ Len(pages[u]) \in Nat
         /\ DOMAIN pages[u] = 1 .. Len(pages[u])
         /\ \A i \in DOMAIN pages[u] : pages[u][i] \in Pages
<1>1. pages[u] \in Seq(Pages) /\ done[u] \in Nat /\ first[u] \in Nat /\ count[u] \in Nat
  BY DEF Types
<1>2. QED
  BY <1>1, LenProperties, ElementOfSeq

LEMMA NothingPrepared ==
  ASSUME Types, BatchInv, total = 0
  PROVE  \A v \in Users : count[v] = 0
<1>1. ASSUME NEW v \in Users, count[v] # 0 PROVE FALSE
  <2>1. first[v] \in Nat /\ count[v] \in Nat
    BY PageIs
  <2>2. first[v] + count[v] <= total
    BY <1>1, <2>1 DEF BatchInv, BatchRow
  <2>3. QED
    BY <1>1, <2>1, <2>2
<1>2. QED
  BY <1>1

SameRequest(v) ==
  /\ pages'[v] = pages[v] /\ done'[v] = done[v] /\ slot'[v] = slot[v]
  /\ first'[v] = first[v] /\ count'[v] = count[v]
GpuStays == UNCHANGED gpuVars

LEMMA DataStays ==
  ASSUME NEW v, GpuStays, SameRequest(v), DataRow(v)
  PROVE  DataRow(v)'
<1>1. /\ ring' = ring /\ carry' = carry /\ checkpoint' = checkpoint /\ short' = short /\ long' = long
      /\ pages'[v] = pages[v] /\ done'[v] = done[v] /\ slot'[v] = slot[v]
  BY DEF GpuStays, gpuVars, SameRequest
<1>2. RingRow(v)'
  BY <1>1 DEF DataRow, RingRow, Projected
<1>3. CarryRow(v)'
  BY <1>1 DEF DataRow, CarryRow, Projected
<1>4. FilledRow(v)'
  BY <1>1 DEF DataRow, FilledRow, HoldsAt
<1>5. QED
  BY <1>2, <1>3, <1>4 DEF DataRow

LEMMA CachedStays ==
  ASSUME NEW g, GpuStays, prefix'[g] = prefix[g], CachedRow(g)
  PROVE  CachedRow(g)'
<1>1. checkpoint' = checkpoint /\ short' = short /\ long' = long
  BY DEF GpuStays, gpuVars
<1>2. QED
  BY <1>1 DEF CachedRow, HoldsAt

LEMMA GpuTypes ==
  ASSUME Types, GpuStays
  PROVE  \A g \in Pages : /\ DOMAIN short'[g] = 0 .. (PageLength \div ShortRatio) - 1
                          /\ DOMAIN long'[g] = 0 .. (PageLength \div LongRatio) - 1
<1>1. short' = short /\ long' = long
  BY DEF GpuStays, gpuVars
<1>2. QED
  BY <1>1 DEF Types

LEMMA SharedStays ==
  ASSUME NEW v, NEW i, Shared(v, i), pages'[v][i] = pages[v][i], done'[v] >= done[v],
         done[v] \in Nat, done'[v] \in Nat, i \in Nat,
         prefix'[pages[v][i]] = prefix[pages[v][i]]
  PROVE  Shared(v, i)'
<1>1. i * PageLength \in Nat
  BY RatioSizes
<1>2. QED
  BY <1>1 DEF Shared, PageText, Projected

LEMMA CachedIs == ASSUME NEW g PROVE g \in Cached <=> g \in Pages /\ prefix[g] # NotCached
BY DEF Cached

\* A shared page is in the cache.
LEMMA SharedIsCached ==
  ASSUME Types, NEW u \in Running, UserRow(u), NEW i \in DOMAIN pages[u], Shared(u, i)
  PROVE  /\ pages[u][i] \in Cached /\ prefix[pages[u][i]] = PageText(u, i)
         /\ i \in Nat \ {0} /\ i * PageLength <= Len(Text[u])
<1>1. u \in Users
  BY RunningIs
<1>2. /\ done[u] \in Nat /\ count[u] \in Nat /\ i \in Nat \ {0} /\ pages[u][i] \in Pages
      /\ Len(Text[u]) \in Nat
  BY <1>1, PageIs, TextIs
<1>3. i * PageLength \in Nat /\ i * PageLength <= done[u]
  BY <1>2, RatioSizes DEF Shared
<1>4. i * PageLength <= Len(Text[u])
  BY <1>2, <1>3 DEF UserRow
<1>5. PageText(u, i) # NotCached
  BY <1>1, <1>2, <1>4, PageTextIs
<1>6. QED
  BY <1>2, <1>4, <1>5 DEF Shared, Cached

-------------------------------------------------------------------------------
(* The initial states.                                                         *)

LEMMA EntryInvHolds == CompressorInit => EntryInv
<1> SUFFICES ASSUME CompressorInit PROVE EntryInv
  OBVIOUS
<1>1. Running = {} /\ Cached = {}
  BY DEF CompressorInit, Running, Cached
<1>2. Types
  <2>1. <<>> \in Seq(Pages) /\ <<>> \in Seq(Tokens)
    BY EmptySeq
  <2>2. QED
    BY <2>1 DEF CompressorInit, Types, NotCached
<1>3. total = 0 /\ \A u \in Users : count[u] = 0
  BY DEF CompressorInit
<1>4. BatchInv
  BY <1>3 DEF BatchInv
<1>5. QED
  BY <1>1, <1>2, <1>4 DEF EntryInv, UserInv, PageInv, DataInv, CachedInv

-------------------------------------------------------------------------------
(* Eviction.                                                                   *)

LEMMA EvictKeeps ==
  ASSUME EntryInv, NEW g \in Pages, Evict(g)
  PROVE  EntryInv'
<1>1. /\ Types /\ UserInv /\ BatchInv /\ PageInv /\ DataInv /\ CachedInv
  BY DEF EntryInv
<1>2. /\ g \in Cached /\ ~Locked(g) /\ prefix' = [prefix EXCEPT ![g] = NotCached]
      /\ free' = free \cup {g} /\ UNCHANGED <<phase, slot, done, pages, first, count, total>>
      /\ GpuStays
  BY DEF Evict, reqVars, batchVars, GpuStays
<1>3. Running' = Running /\ \A v \in Running : v \in Users /\ SameRequest(v)
  BY <1>2 DEF Running, SameRequest
<1>4. prefix \in [Pages -> Seq(Tokens)] /\ prefix'[g] = NotCached
      /\ \A h \in Pages : h # g => prefix'[h] = prefix[h]
  BY <1>1, <1>2 DEF Types
<1>5. Cached' = Cached \ {g}
  BY <1>4 DEF Cached
<1>6. \A v \in Running : \A i \in DOMAIN pages[v] : pages[v][i] # g
  BY <1>2 DEF Locked, Range
<1>7. Types'
  <2>1. NotCached \in Seq(Tokens)
    BY EmptySeq DEF NotCached
  <2>2. QED
    BY <1>1, <1>2, <2>1, GpuTypes DEF Types
<1>8. UserInv' /\ BatchInv'
  BY <1>1, <1>2, <1>3 DEF UserInv, UserRow, BatchInv, BatchRow
<1>9. PageInv'
  <2>1. free' \cap Cached' = {}
    BY <1>1, <1>2, <1>5 DEF PageInv
  <2>2. \A h \in Cached' : h \in Cached /\ h # g /\ h \in Pages /\ prefix'[h] = prefix[h]
    BY <1>4, <1>5 DEF Cached
  <2>3. \A h \in Cached' : \E i \in Nat \ {0} : Len(prefix'[h]) = i * PageLength
    BY <1>1, <2>2 DEF PageInv
  <2>4. \A h, k \in Cached' : prefix'[h] = prefix'[k] => h = k
    BY <1>1, <2>2 DEF PageInv
  <2>5. ASSUME NEW v \in Running, NEW i \in DOMAIN pages[v] PROVE Shared(v, i)' \/ Private(v, i)'
    <3>1. v \in Users /\ done[v] \in Nat /\ i \in Nat /\ pages[v][i] # g /\ pages[v][i] \in Pages
      BY <1>1, <1>6, RunningIs, PageIs
    <3>2. CASE Shared(v, i)
      <4>1. prefix'[pages[v][i]] = prefix[pages[v][i]] /\ done'[v] = done[v] /\ pages'[v][i] = pages[v][i]
        BY <1>2, <1>4, <3>1
      <4>2. Shared(v, i)'
        BY <3>1, <3>2, <4>1, SharedStays
      <4>3. QED
        BY <4>2
    <3>3. CASE Private(v, i)
      BY <1>2, <1>3, <1>5, <3>1, <3>3 DEF Private
    <3>4. QED
      BY <1>1, <3>2, <3>3 DEF PageInv, PagesRow
  <2>6. \A v \in Running' : PagesRow(v)'
    BY <1>2, <1>3, <2>5 DEF PagesRow
  <2>7. QED
    BY <2>1, <2>3, <2>4, <2>6 DEF PageInv
<1>10. DataInv'
  BY <1>1, <1>2, <1>3, DataStays DEF DataInv
<1>11. CachedInv'
  <2>1. ASSUME NEW h \in Cached' PROVE CachedRow(h)'
    <3>1. h \in Cached /\ prefix'[h] = prefix[h]
      BY <1>4, <1>5 DEF Cached
    <3>2. QED
      BY <1>1, <1>2, <3>1, CachedStays DEF CachedInv
  <2>2. QED
    BY <2>1 DEF CachedInv
<1>12. QED
  BY <1>7, <1>8, <1>9, <1>10, <1>11 DEF EntryInv

-------------------------------------------------------------------------------
(* Admission.                                                                  *)

\* The page of a position.
LEMMA OnPage ==
  ASSUME NEW p \in Nat
  PROVE  /\ p \div PageLength \in Nat /\ p \div PageLength + 1 \in Nat \ {0}
         /\ (p \div PageLength) * PageLength \in Nat
         /\ (p \div PageLength) * PageLength <= p
         /\ p < (p \div PageLength + 1) * PageLength
         /\ (p \div PageLength + 1) * PageLength = (p \div PageLength) * PageLength + PageLength
<1> DEFINE a == p \div PageLength
           b == p % PageLength
<1>1. /\ PageLength \in Nat \ {0} /\ a \in Nat /\ b \in Nat /\ b < PageLength
      /\ p = a * PageLength + b
  BY RatioSizes, Divided
<1> HIDE DEF a, b
<1>2. a * PageLength \in Nat /\ (a + 1) * PageLength = a * PageLength + PageLength
  BY <1>1
<1>3. QED
  BY <1>1, <1>2 DEF a

\* A position before the end of a page is on one of the pages up to it.
LEMMA PageBefore ==
  ASSUME NEW p \in Nat, NEW n \in Nat, p < n * PageLength
  PROVE  p \div PageLength + 1 <= n
<1> DEFINE a == p \div PageLength
<1>1. a \in Nat /\ a * PageLength \in Nat /\ a * PageLength <= p /\ n * PageLength \in Nat
  BY OnPage, RatioSizes
<1> HIDE DEF a
<1>2. ASSUME n <= a PROVE FALSE
  <2>1. n * PageLength <= a * PageLength
    BY <1>1, <1>2, RatioSizes
  <2>2. QED
    BY <1>1, <2>1
<1>3. QED
  BY <1>1, <1>2 DEF a

LEMMA PagesBefore ==
  ASSUME NEW i \in Nat, NEW n \in Nat, i <= n
  PROVE  i * PageLength <= n * PageLength /\ i * PageLength \in Nat /\ n * PageLength \in Nat
BY RatioSizes

LEMMA HeldByCached ==
  ASSUME CachedInv, NEW u \in Users, NEW p \in Nat, NEW g \in Cached,
         (p \div PageLength + 1) * PageLength <= Len(Text[u]),
         prefix[g] = PageText(u, p \div PageLength + 1)
  PROVE  HoldsAt(g, Text[u], p)
<1> DEFINE i == p \div PageLength + 1
           k == i * PageLength
<1>1. i \in Nat \ {0} /\ k \in Nat /\ p < k /\ k - PageLength <= p
  BY OnPage, RatioSizes
<1>2. prefix[g] = SubSeq(Text[u], 1, k) /\ Len(prefix[g]) = k
  BY <1>1, PageTextIs
<1>3. CachedRow(g) /\ Text[u] \in Seq(Tokens) /\ k <= Len(Text[u])
  BY TextIs DEF CachedInv
<1> HIDE DEF i, k
<1>4. p \in Len(prefix[g]) - PageLength .. Len(prefix[g]) - 1
  BY <1>1, <1>2, RatioSizes
<1>5. HoldsAt(g, prefix[g], p)
  BY <1>3, <1>4 DEF CachedRow
<1>6. HoldsAt(g, SubSeq(Text[u], 1, k), p)
  BY <1>2, <1>5
<1>7. QED
  BY <1>1, <1>3, <1>6, HoldsOfBeginning

LEMMA PageForIs ==
  ASSUME NEW u, NEW i, HasPage(u, i)
  PROVE  PageFor(u, i) \in Cached /\ prefix[PageFor(u, i)] = PageText(u, i)
BY DEF HasPage, PageFor

\* The request begins with n pages of the cache.
Begins(u, n) ==
  /\ n \in Nat /\ n * PageLength < Len(Text[u])
  /\ \A i \in 1 .. n : HasPage(u, i)
  /\ pages' = [pages EXCEPT ![u] = [i \in 1 .. n |-> PageFor(u, i)]]
  /\ done' = [done EXCEPT ![u] = PageLength * n]

LEMMA AdmitBegins ==
  ASSUME NEW u \in Users, Admit(u)
  PROVE  \E n : Begins(u, n)
<1>1. PICK n \in Matches(u) :
        /\ done' = [done EXCEPT ![u] = PageLength * n]
        /\ pages' = [pages EXCEPT ![u] = [i \in 1 .. n |-> PageFor(u, i)]]
  BY DEF Admit
<1> DEFINE m == (Input[u] - 1) \div PageLength
<1>2. /\ Input[u] \in Nat /\ Input[u] - 1 \in Nat /\ Input[u] <= Len(Text[u]) /\ Len(Text[u]) \in Nat
  BY CompressorAssumption, TextIs
<1>3. m \in Nat /\ m * PageLength <= Input[u] - 1 /\ m * PageLength \in Nat
  BY <1>2, OnPage
<1>4. n \in 0 .. m /\ \A i \in 1 .. n : HasPage(u, i)
  BY <1>1 DEF Matches
<1> HIDE DEF m
<1>5. n \in Nat /\ n <= m
  BY <1>3, <1>4
<1>6. n * PageLength <= m * PageLength /\ n * PageLength \in Nat
  BY <1>3, <1>5, PagesBefore
<1>7. n * PageLength < Len(Text[u])
  BY <1>2, <1>3, <1>6
<1>8. QED
  BY <1>1, <1>4, <1>5, <1>7 DEF Begins

LEMMA AdmitKeeps ==
  ASSUME EntryInv, NEW u \in Users, Admit(u)
  PROVE  EntryInv'
<1>1. /\ Types /\ UserInv /\ BatchInv /\ PageInv /\ DataInv /\ CachedInv
  BY DEF EntryInv
<1>2. PICK n : Begins(u, n)
  BY AdmitBegins
<1>3. /\ phase[u] = "waiting" /\ total = 0 /\ phase' = [phase EXCEPT ![u] = "running"]
      /\ UNCHANGED <<free, prefix, first, count, total>> /\ GpuStays
  BY DEF Admit, cacheVars, batchVars, GpuStays
<1>4. PICK s \in TableRows : /\ slot' = [slot EXCEPT ![u] = s]
                             /\ \A v \in Running : slot[v] # s
  BY DEF Admit
<1>5. /\ n \in Nat /\ n * PageLength < Len(Text[u]) /\ n * PageLength \in Nat
      /\ PageLength * n = n * PageLength
      /\ \A i \in 1 .. n : PageFor(u, i) \in Cached /\ prefix[PageFor(u, i)] = PageText(u, i)
  BY <1>2, RatioSizes, PageForIs DEF Begins
<1> DEFINE got == [i \in 1 .. n |-> PageFor(u, i)]
<1>6. got \in Seq(Pages) /\ Len(got) = n /\ DOMAIN got = 1 .. n
  <2>1. got \in [1 .. n -> Pages]
    BY <1>5 DEF Cached
  <2> HIDE DEF got
  <2>2. got \in Seq(Pages) /\ Len(got) = n
    BY <1>5, <2>1, FunctionIsSeq
  <2>3. QED
    BY <2>1, <2>2
<1>7. /\ pages' = [pages EXCEPT ![u] = got] /\ done' = [done EXCEPT ![u] = n * PageLength]
  BY <1>2, <1>5 DEF Begins
<1>8. \A i \in 1 .. n : got[i] \in Cached /\ prefix[got[i]] = PageText(u, i)
  BY <1>5
<1> HIDE DEF got
<1>9. pages'[u] = got /\ done'[u] = n * PageLength /\ slot'[u] = s /\ phase'[u] = "running"
  BY <1>1, <1>3, <1>4, <1>7 DEF Types
<1>10. \A v \in Users : v # u => SameRequest(v) /\ phase'[v] = phase[v]
  BY <1>1, <1>3, <1>4, <1>7 DEF Types, SameRequest
<1>11. Running' = Running \cup {u} /\ u \notin Running /\ Cached' = Cached
  BY <1>3, <1>9, <1>10 DEF Running, Cached
<1>12. \A v \in Running : v \in Users /\ v # u /\ SameRequest(v)
  BY <1>10, <1>11 DEF Running
<1>13. \A v \in Users : count[v] = 0
  BY <1>1, <1>3, NothingPrepared
<1>14. Types'
  BY <1>1, <1>3, <1>4, <1>5, <1>6, <1>7, GpuTypes DEF Types
<1>15. UserInv'
  <2>1. ASSUME NEW v \in Running PROVE UserRow(v)'
    <3>1. UserRow(v) /\ slot'[v] = slot[v] /\ slot[v] # s
      BY <1>1, <1>4, <1>12 DEF UserInv, SameRequest
    <3>2. \A w \in Running' \ {v} : slot'[w] # slot'[v]
      BY <1>9, <1>11, <1>12, <3>1 DEF UserRow, SameRequest
    <3>3. QED
      BY <1>12, <3>1, <3>2 DEF UserRow, SameRequest
  <2>2. UserRow(u)'
    <3>1. \A w \in Running' \ {u} : slot'[w] # slot'[u]
      BY <1>4, <1>9, <1>11, <1>12 DEF SameRequest
    <3>2. /\ n * PageLength + 0 <= Len(Text[u]) /\ n * PageLength + 0 <= PageLength * Len(got)
      BY <1>5, <1>6, TextIs
    <3>3. count'[u] = 0
      BY <1>3, <1>13
    <3>4. QED
      BY <1>9, <3>1, <3>2, <3>3 DEF UserRow
  <2>3. QED
    BY <1>11, <2>1, <2>2 DEF UserInv
<1>16. BatchInv'
  BY <1>1, <1>3, <1>13 DEF BatchInv
<1>17. PageInv'
  <2>1. ASSUME NEW v \in Running, NEW i \in DOMAIN pages[v] PROVE Shared(v, i)' \/ Private(v, i)'
    <3>1. /\ v \in Users /\ done[v] \in Nat /\ i \in Nat /\ pages'[v] = pages[v]
          /\ done'[v] = done[v]
      BY <1>1, <1>12, PageIs DEF SameRequest
    <3>2. CASE Shared(v, i)
      <4>1. Shared(v, i)'
        BY <1>3, <3>1, <3>2, SharedStays
      <4>2. QED
        BY <4>1
    <3>3. CASE Private(v, i)
      <4>1. \A j \in DOMAIN got : got[j] # pages[v][i]
        BY <1>6, <1>8, <3>3 DEF Private
      <4>2. \A w \in Running : pages'[w] = pages[w]
        BY <1>12 DEF SameRequest
      <4>3. Private(v, i)'
        BY <1>3, <1>9, <1>11, <3>1, <3>3, <4>1, <4>2 DEF Private
      <4>4. QED
        BY <4>3
    <3>4. QED
      BY <1>1, <3>2, <3>3 DEF PageInv, PagesRow
  <2>2. PagesRow(u)'
    <3>1. ASSUME NEW i \in 1 .. n PROVE Shared(u, i)'
      <4>1. i * PageLength <= n * PageLength
        BY <1>5, PagesBefore
      <4>2. QED
        BY <1>3, <1>8, <1>9, <4>1 DEF Shared, PageText, Projected
    <3>2. QED
      BY <1>6, <1>9, <3>1 DEF PagesRow
  <2>3. \A v \in Running' : PagesRow(v)'
    BY <1>11, <1>12, <2>1, <2>2 DEF PagesRow, SameRequest
  <2>4. QED
    BY <1>1, <1>3, <1>11, <2>3 DEF PageInv
<1>18. DataInv'
  <2>1. \A v \in Running : DataRow(v)'
    BY <1>1, <1>3, <1>12, DataStays DEF DataInv
  <2>2. (n * PageLength) \div PageLength = n
    <3>1. n * PageLength = n * PageLength + 0 /\ 0 \in 0 .. PageLength - 1
      BY <1>5, RatioSizes
    <3>2. QED
      BY <1>5, <3>1, RatioSizes, DivisionIs
  <2>3. RingRow(u)'
    BY <1>5, <1>9, <2>2 DEF RingRow
  <2>4. CarryRow(u)'
    <3>1. ((n * PageLength) \div LongRatio) * LongRatio = n * PageLength
      <4> DEFINE c == PageLength \div LongRatio
      <4>1. c \in Nat /\ PageLength = c * LongRatio
        BY RatioSizes, DivisorIs
      <4> HIDE DEF c
      <4>2. n * PageLength = (n * c) * LongRatio + 0 /\ n * c \in Int /\ 0 \in 0 .. LongRatio - 1
        BY <1>5, <4>1, RatioSizes
      <4>3. (n * PageLength) \div LongRatio = n * c
        BY <1>5, <4>2, RatioSizes, DivisionIs
      <4>4. QED
        BY <1>5, <4>2, <4>3, RatioSizes
    <3>2. QED
      BY <1>5, <1>9, <3>1 DEF CarryRow
  <2>5. FilledRow(u)'
    <3>1. ASSUME NEW p \in 0 .. n * PageLength - 1
          PROVE  HoldsAt(got[p \div PageLength + 1], Text[u], p)
      <4> DEFINE i == p \div PageLength + 1
      <4>1. p \in Nat /\ p < n * PageLength
        BY <1>5
      <4>2. i \in 1 .. n
        <5>1. i \in Nat \ {0} /\ n \in Nat
          BY <1>5, <4>1, OnPage
        <5>2. i <= n
          BY <4>1, <5>1, PageBefore
        <5> HIDE DEF i
        <5>3. QED
          BY <5>1, <5>2
      <4>3. i * PageLength <= n * PageLength /\ i * PageLength \in Nat
        BY <1>5, <4>2, PagesBefore
      <4>4. i * PageLength <= Len(Text[u])
        BY <1>5, <4>3, TextIs
      <4>5. got[i] \in Cached /\ prefix[got[i]] = PageText(u, i)
        BY <1>8, <4>2
      <4>6. QED
        BY <1>1, <4>1, <4>4, <4>5, HeldByCached
    <3>2. checkpoint' = checkpoint /\ short' = short /\ long' = long
      BY <1>3 DEF GpuStays, gpuVars
    <3>3. QED
      BY <1>9, <3>1, <3>2 DEF FilledRow, HoldsAt
  <2>6. QED
    BY <1>11, <2>1, <2>3, <2>4, <2>5 DEF DataInv, DataRow
<1>19. CachedInv'
  BY <1>1, <1>3, <1>11, CachedStays DEF CachedInv
<1>20. QED
  BY <1>14, <1>15, <1>16, <1>17, <1>18, <1>19 DEF EntryInv

-------------------------------------------------------------------------------
(* A request joins the batch.                                                  *)

LEMMA InUse ==
  ASSUME Types, UserInv, PageInv, NEW v \in Running, NEW i \in DOMAIN pages[v]
  PROVE  pages[v][i] \notin free
<1>1. CASE Shared(v, i)
  <2>1. UserRow(v)
    BY DEF UserInv
  <2>2. pages[v][i] \in Cached
    BY <1>1, <2>1, SharedIsCached
  <2>3. QED
    BY <2>2 DEF PageInv
<1>2. CASE Private(v, i)
  BY <1>2 DEF Private
<1>3. QED
  BY <1>1, <1>2 DEF PageInv, PagesRow

LEMMA CeilDivIs ==
  ASSUME NEW n \in Nat
  PROVE  CeilDiv(n, PageLength) \in Nat /\ n <= PageLength * CeilDiv(n, PageLength)
<1> DEFINE m == n + PageLength - 1
           a == m \div PageLength
<1>1. PageLength \in Nat \ {0} /\ m \in Nat
  BY RatioSizes
<1> HIDE DEF m
<1>2. a \in Nat /\ m < a * PageLength + PageLength /\ a * PageLength \in Nat
  BY <1>1, OnPage
<1>3. a = CeilDiv(n, PageLength)
  BY DEF CeilDiv, m
<1> HIDE DEF a
<1>4. PageLength * a = a * PageLength
  BY <1>1, <1>2
<1>5. n <= a * PageLength
  BY <1>1, <1>2 DEF m
<1>6. QED
  BY <1>2, <1>3, <1>4, <1>5

\* n rows of u join the batch, with k new pages.
Joins(u, n, k, new) ==
  /\ n \in Nat \ {0} /\ k \in Nat /\ new \in [1 .. k -> free]
  /\ \A i, j \in 1 .. k : new[i] = new[j] => i = j
  /\ done[u] + n <= Len(Text[u]) /\ done[u] + n <= PageLength * (Len(pages[u]) + k)
  /\ pages' = [pages EXCEPT ![u] = @ \o new] /\ free' = free \ Range(new)
  /\ first' = [first EXCEPT ![u] = total] /\ count' = [count EXCEPT ![u] = n]
  /\ total' = total + n

LEMMA RoomIs ==
  ASSUME Types, NEW u \in Users, NEW n \in 1 .. Room(u)
  PROVE  n \in Nat \ {0} /\ done[u] + n <= Len(Text[u])
<1>1. Input[u] \in Nat /\ Input[u] <= Len(Text[u]) /\ Len(Text[u]) \in Nat /\ done[u] \in Nat
  BY CompressorAssumption, TextIs, PageIs
<1>2. CASE Prefilling(u)
  BY <1>1, <1>2 DEF Room
<1>3. CASE ~Prefilling(u) /\ done[u] < Len(Text[u])
  BY <1>1, <1>3 DEF Room
<1>4. CASE ~Prefilling(u) /\ ~(done[u] < Len(Text[u]))
  BY <1>1, <1>4 DEF Room
<1>5. QED
  BY <1>2, <1>3, <1>4

LEMMA JoinIs ==
  ASSUME Types, NEW u \in Users, Join(u)
  PROVE  \E n, k, new : Joins(u, n, k, new)
<1>1. PICK n \in 1 .. Room(u) :
        /\ \E new \in Injection(1 .. NewPages(u, n), free) :
             pages' = [pages EXCEPT ![u] = @ \o new] /\ free' = free \ Range(new)
        /\ first' = [first EXCEPT ![u] = total] /\ count' = [count EXCEPT ![u] = n]
        /\ total' = total + n
  BY DEF Join
<1>2. PICK new \in Injection(1 .. NewPages(u, n), free) :
             pages' = [pages EXCEPT ![u] = @ \o new] /\ free' = free \ Range(new)
  BY <1>1
<1>3. n \in Nat \ {0} /\ done[u] + n <= Len(Text[u])
  BY RoomIs
<1> DEFINE c == CeilDiv(done[u] + n, PageLength)
           l == Len(pages[u])
           k == IF c - l > 0 THEN c - l ELSE 0
<1>4. l \in Nat /\ done[u] + n \in Nat
  BY <1>3, PageIs
<1>5. c \in Nat /\ done[u] + n <= PageLength * c
  BY <1>4, CeilDivIs
<1>6. NewPages(u, n) = c - l
  BY DEF NewPages
<1> HIDE DEF c, l
<1>7. k \in Nat /\ c <= l + k /\ 1 .. NewPages(u, n) = 1 .. k
  BY <1>4, <1>5, <1>6
<1>8. PageLength * c <= PageLength * (l + k)
  <2> DEFINE d == l + k
  <2>1. d \in Nat /\ c <= d
    BY <1>4, <1>7
  <2> HIDE DEF d, k
  <2>2. PageLength * c <= PageLength * d
    BY <1>5, <2>1, RatioSizes
  <2>3. QED
    BY <2>2 DEF d
<1> HIDE DEF k
<1>9. new \in [1 .. k -> free] /\ \A i, j \in 1 .. k : new[i] = new[j] => i = j
  BY <1>7 DEF Injection, IsInjective
<1>10. done[u] + n <= PageLength * (l + k)
  BY <1>4, <1>5, <1>7, <1>8, RatioSizes
<1>11. Joins(u, n, k, new)
  BY <1>1, <1>2, <1>3, <1>7, <1>9, <1>10 DEF Joins, l
<1>12. QED
  BY <1>11

LEMMA JoinKeeps ==
  ASSUME EntryInv, NEW u \in Users, Join(u)
  PROVE  EntryInv'
<1>1. /\ Types /\ UserInv /\ BatchInv /\ PageInv /\ DataInv /\ CachedInv
  BY DEF EntryInv
<1>2. PICK n, k, new : Joins(u, n, k, new)
  BY <1>1, JoinIs
<1>3. /\ phase[u] = "running" /\ count[u] = 0 /\ UNCHANGED <<phase, slot, done, prefix>> /\ GpuStays
  BY DEF Join, GpuStays
<1> DEFINE l == Len(pages[u])
<1>4. /\ n \in Nat \ {0} /\ k \in Nat /\ new \in [1 .. k -> free]
      /\ \A i, j \in 1 .. k : new[i] = new[j] => i = j
      /\ done[u] + n <= Len(Text[u]) /\ done[u] + n <= PageLength * (l + k)
      /\ free' = free \ Range(new) /\ total' = total + n
  BY <1>2 DEF Joins
<1>5. pages[u] \in Seq(Pages) /\ l \in Nat /\ DOMAIN pages[u] = 1 .. l /\ done[u] \in Nat
  BY <1>1, PageIs
<1> HIDE DEF l
<1>6. new \in Seq(Pages) /\ Len(new) = k /\ free \in SUBSET Pages
  <2>1. free \in SUBSET Pages
    BY <1>1 DEF Types
  <2>2. new \in [1 .. k -> Pages]
    BY <1>4, <2>1
  <2>3. QED
    BY <1>4, <2>1, <2>2, FunctionIsSeq
<1>7. /\ pages'[u] = pages[u] \o new /\ first'[u] = total /\ count'[u] = n
      /\ \A v \in Users : v # u => SameRequest(v)
  BY <1>1, <1>2, <1>3 DEF Joins, Types, SameRequest
<1>8. /\ pages'[u] \in Seq(Pages) /\ Len(pages'[u]) = l + k /\ DOMAIN pages'[u] = 1 .. l + k
      /\ \A i \in 1 .. l + k : pages'[u][i] = IF i <= l THEN pages[u][i] ELSE new[i - l]
  <2>1. /\ pages[u] \o new \in Seq(Pages) /\ Len(pages[u] \o new) = Len(pages[u]) + Len(new)
        /\ \A i \in 1 .. Len(pages[u]) + Len(new) : (pages[u] \o new)[i] =
                     IF i <= Len(pages[u]) THEN pages[u][i] ELSE new[i - Len(pages[u])]
    BY <1>5, <1>6, ConcatProperties
  <2>2. /\ pages'[u] \in Seq(Pages) /\ Len(pages'[u]) = l + k
        /\ \A i \in 1 .. l + k : pages'[u][i] = IF i <= l THEN pages[u][i] ELSE new[i - l]
    BY <1>6, <1>7, <2>1 DEF l
  <2>3. QED
    BY <2>2, LenProperties
<1>9. Running' = Running /\ u \in Running /\ Cached' = Cached
  BY <1>3 DEF Running, Cached
<1>10. \A v \in Running : v \in Users /\ (v # u => SameRequest(v))
  BY <1>7, RunningIs
<1>11. total \in Nat
  BY <1>1 DEF Types
<1>12. Types'
  <2>1. first' \in [Users -> Nat] /\ count' \in [Users -> Nat] /\ pages' \in [Users -> Seq(Pages)]
    <3>1. /\ first' = [first EXCEPT ![u] = total] /\ count' = [count EXCEPT ![u] = n]
          /\ pages' = [pages EXCEPT ![u] = @ \o new]
      BY <1>2 DEF Joins
    <3>2. pages[u] \o new \in Seq(Pages)
      BY <1>7, <1>8
    <3>3. QED
      BY <1>1, <1>4, <1>11, <3>1, <3>2 DEF Types
  <2>2. free' \in SUBSET Pages /\ total' \in Nat
    BY <1>4, <1>6, <1>11
  <2>3. \A g \in Pages : /\ DOMAIN short'[g] = 0 .. (PageLength \div ShortRatio) - 1
                          /\ DOMAIN long'[g] = 0 .. (PageLength \div LongRatio) - 1
    BY <1>1, <1>3, GpuTypes
  <2>4. phase' = phase /\ slot' = slot /\ done' = done /\ prefix' = prefix
    BY <1>3
  <2>5. QED
    BY <1>1, <2>1, <2>2, <2>3, <2>4 DEF Types
<1>13. UserInv'
  <2>1. ASSUME NEW v \in Running PROVE UserRow(v)'
    <3>1. UserRow(v) /\ slot' = slot
      BY <1>1, <1>3 DEF UserInv
    <3>2. CASE v = u
      BY <1>3, <1>4, <1>7, <1>8, <1>9, <3>1, <3>2 DEF UserRow
    <3>3. CASE v # u
      BY <1>9, <1>10, <3>1, <3>3 DEF UserRow, SameRequest
    <3>4. QED
      BY <3>2, <3>3
  <2>2. QED
    BY <1>9, <2>1 DEF UserInv
<1>14. BatchInv'
  <2>1. \A v \in Users : /\ first[v] \in Nat /\ count[v] \in Nat
                         /\ v # u => first'[v] = first[v] /\ count'[v] = count[v]
    BY <1>1, <1>7, PageIs DEF SameRequest
  <2>2. \A v \in Users : count[v] > 0 => v \in Running /\ first[v] + count[v] <= total
    BY <1>1 DEF BatchInv, BatchRow
  <2>3. BatchRow(u)'
    BY <1>4, <1>7, <1>9, <1>11, <2>1, <2>2 DEF BatchRow
  <2>4. ASSUME NEW v \in Users, v # u, count'[v] > 0 PROVE BatchRow(v)'
    <3>1. BatchRow(v) /\ count[v] > 0
      BY <1>1, <2>1, <2>4 DEF BatchInv
    <3>2. \A w \in Users \ {v} : count'[w] > 0 =>
             first'[v] + count'[v] <= first'[w] \/ first'[w] + count'[w] <= first'[v]
      <4>1. first'[v] + count'[v] <= first'[u]
        BY <1>7, <2>1, <2>2, <2>4, <3>1
      <4>2. \A w \in Users \ {v} : w # u /\ count'[w] > 0 =>
              first'[v] + count'[v] <= first'[w] \/ first'[w] + count'[w] <= first'[v]
        BY <2>1, <2>4, <3>1 DEF BatchRow
      <4>3. QED
        BY <4>1, <4>2
    <3>3. v \in Running' /\ first'[v] + count'[v] <= total'
      BY <1>4, <1>9, <1>11, <2>1, <2>2, <2>4, <3>1
    <3>4. QED
      BY <3>2, <3>3 DEF BatchRow
  <2>5. ASSUME NEW r \in 1 .. total' PROVE \E v \in Users : first'[v] < r /\ r <= first'[v] + count'[v]
    <3>1. CASE r <= total
      <4>1. r \in 1 .. total
        BY <1>4, <1>11, <3>1
      <4>2. PICK v \in Users : first[v] < r /\ r <= first[v] + count[v]
        BY <1>1, <4>1 DEF BatchInv
      <4>3. v # u
        BY <1>3, <2>1, <4>1, <4>2
      <4>4. QED
        BY <2>1, <4>2, <4>3
    <3>2. CASE r > total
      BY <1>4, <1>7, <1>11, <3>2
    <3>3. QED
      BY <1>4, <1>11, <3>1, <3>2
  <2>6. QED
    BY <2>3, <2>4, <2>5 DEF BatchInv
<1>15. PageInv'
  <2>1. \A v \in Running : \A i \in DOMAIN pages[v] :
           /\ i \in DOMAIN pages'[v] /\ pages'[v][i] = pages[v][i] /\ pages[v][i] \notin free
           /\ v \in Users /\ i \in Nat /\ done[v] \in Nat
    <3>1. ASSUME NEW v \in Running, NEW i \in DOMAIN pages[v]
          PROVE  i \in DOMAIN pages'[v] /\ pages'[v][i] = pages[v][i]
      <4>1. CASE v = u
        BY <1>4, <1>5, <1>8, <4>1
      <4>2. CASE v # u
        BY <1>10, <4>2 DEF SameRequest
      <4>3. QED
        BY <4>1, <4>2
    <3>2. QED
      BY <1>1, <1>10, <3>1, InUse, PageIs
  <2>2. \A v \in Running : \A i \in DOMAIN pages'[v] :
           \/ i \in DOMAIN pages[v]
           \/ v = u /\ i - l \in 1 .. k /\ pages'[v][i] = new[i - l] /\ new[i - l] \in free
    <3>1. ASSUME NEW v \in Running, NEW i \in DOMAIN pages'[v], i \notin DOMAIN pages[v]
          PROVE  v = u /\ i - l \in 1 .. k /\ pages'[v][i] = new[i - l] /\ new[i - l] \in free
      <4>1. v = u
        BY <1>10, <3>1 DEF SameRequest
      <4>2. i \in 1 .. l + k /\ ~(i <= l)
        BY <1>4, <1>5, <1>8, <3>1, <4>1
      <4>3. i - l \in 1 .. k
        BY <1>4, <1>5, <4>2
      <4>4. QED
        BY <1>4, <1>8, <4>1, <4>2, <4>3
    <3>2. QED
      BY <3>1
  <2>3. \A i \in 1 .. k : new[i] \in Range(new)
    BY <1>4 DEF Range
  <2>4. ASSUME NEW v \in Running, NEW i \in DOMAIN pages[v] PROVE Shared(v, i)' \/ Private(v, i)'
    <3>1. CASE Shared(v, i)
      <4>1. Shared(v, i)'
        BY <1>3, <2>1, <3>1, SharedStays
      <4>2. QED
        BY <4>1
    <3>2. CASE Private(v, i)
      <4>1. pages'[v][i] = pages[v][i] /\ pages[v][i] \notin free' \cup Cached'
        BY <1>4, <1>9, <2>1, <3>2 DEF Private
      <4>2. ASSUME NEW w \in Running, NEW j \in DOMAIN pages'[w], pages'[w][j] = pages[v][i]
            PROVE  w = v /\ j = i
        BY <2>1, <2>2, <3>2, <4>2 DEF Private
      <4>3. Private(v, i)'
        BY <1>9, <4>1, <4>2 DEF Private
      <4>4. QED
        BY <4>3
    <3>3. QED
      BY <1>1, <3>1, <3>2 DEF PageInv, PagesRow
  <2>5. ASSUME NEW i \in DOMAIN pages'[u], i \notin DOMAIN pages[u] PROVE Private(u, i)'
    <3>1. i - l \in 1 .. k /\ pages'[u][i] = new[i - l] /\ new[i - l] \in free
      BY <1>9, <2>2, <2>5
    <3>2. pages'[u][i] \notin free' \cup Cached'
      BY <1>1, <1>4, <1>9, <2>3, <3>1 DEF PageInv
    <3>3. ASSUME NEW w \in Running, NEW j \in DOMAIN pages'[w], pages'[w][j] = pages'[u][i]
          PROVE  w = u /\ j = i
      <4>1. j \notin DOMAIN pages[w]
        BY <2>1, <3>1, <3>3
      <4>2. w = u /\ j - l \in 1 .. k /\ pages'[w][j] = new[j - l]
        BY <2>2, <4>1
      <4>3. j - l = i - l
        BY <1>4, <3>1, <3>3, <4>2
      <4>4. j \in Int /\ i \in Int
        BY <1>4, <1>5, <1>8, <4>2
      <4>5. QED
        BY <1>5, <4>2, <4>3, <4>4
    <3>4. QED
      BY <1>9, <3>2, <3>3 DEF Private
  <2>6. \A v \in Running' : PagesRow(v)'
    <3>1. ASSUME NEW v \in Running, NEW i \in DOMAIN pages'[v] PROVE Shared(v, i)' \/ Private(v, i)'
      <4>1. CASE i \in DOMAIN pages[v]
        BY <2>4, <4>1
      <4>2. CASE i \notin DOMAIN pages[v]
        BY <2>2, <2>5, <4>2
      <4>3. QED
        BY <4>1, <4>2
    <3>2. QED
      BY <1>9, <3>1 DEF PagesRow
  <2>7. free' \cap Cached' = {}
    BY <1>1, <1>4, <1>9 DEF PageInv
  <2>8. QED
    BY <1>1, <1>3, <1>9, <2>6, <2>7 DEF PageInv
<1>16. DataInv'
  <2>1. \A v \in Running : v # u => DataRow(v)'
    BY <1>1, <1>3, <1>10, DataStays DEF DataInv
  <2>2. DataRow(u) /\ UserRow(u)
    BY <1>1, <1>9 DEF DataInv, UserInv
  <2>3. ring' = ring /\ carry' = carry /\ checkpoint' = checkpoint /\ short' = short /\ long' = long
    BY <1>3 DEF GpuStays, gpuVars
  <2>4. RingRow(u)' /\ CarryRow(u)'
    BY <1>3, <2>2, <2>3 DEF DataRow, RingRow, CarryRow, Projected
  <2>5. ASSUME NEW p \in 0 .. done[u] - 1
        PROVE  pages'[u][p \div PageLength + 1] = pages[u][p \div PageLength + 1]
    <3>1. p \in Nat /\ p < l * PageLength
      <4>1. done[u] <= PageLength * l
        <5>1. done[u] + count[u] <= PageLength * l /\ count[u] = 0
          BY <1>3, <2>2 DEF UserRow, l
        <5>2. QED
          BY <1>5, <5>1
      <4>2. PageLength * l = l * PageLength /\ l * PageLength \in Nat
        BY <1>5, RatioSizes
      <4>3. QED
        BY <1>5, <4>1, <4>2
    <3>2. p \div PageLength + 1 \in Nat \ {0} /\ p \div PageLength + 1 <= l
      BY <1>5, <3>1, OnPage, PageBefore
    <3> DEFINE i == p \div PageLength + 1
    <3> HIDE DEF i
    <3>3. i \in Nat \ {0} /\ i <= l
      BY <3>2 DEF i
    <3>4. i \in 1 .. l + k
      BY <1>4, <1>5, <3>3
    <3>5. pages'[u][i] = pages[u][i]
      BY <1>8, <3>3, <3>4
    <3>6. QED
      BY <3>5 DEF i
  <2>6. FilledRow(u)'
    BY <1>3, <2>2, <2>3, <2>5 DEF DataRow, FilledRow, HoldsAt
  <2>7. QED
    BY <1>9, <2>1, <2>4, <2>6 DEF DataInv, DataRow
<1>17. CachedInv'
  BY <1>1, <1>3, <1>9, CachedStays DEF CachedInv
<1>18. QED
  BY <1>12, <1>13, <1>14, <1>15, <1>16, <1>17 DEF EntryInv

-------------------------------------------------------------------------------
(* Complete pages enter the cache.                                             *)

LEMMA CompleteIs ==
  ASSUME NEW u \in Users, done[u] \in Nat, NEW i \in Nat \ {0}
  PROVE  i \in Complete(u) <=> i * PageLength <= done[u]
<1> DEFINE d == done[u] \div PageLength
<1>1. /\ d \in Nat /\ d * PageLength \in Nat /\ d * PageLength <= done[u]
      /\ done[u] < d * PageLength + PageLength
  BY OnPage
<1>2. Complete(u) = 1 .. d
  BY DEF Complete
<1> HIDE DEF d
<1>3. i <= d => i * PageLength <= d * PageLength /\ i * PageLength \in Nat
  BY <1>1, PagesBefore
<1>4. d < i => d * PageLength + PageLength <= i * PageLength
  BY <1>1, RatioSizes, Products
<1>5. i * PageLength \in Nat
  BY RatioSizes
<1> DEFINE x == d * PageLength
           y == i * PageLength
<1>6. /\ x \in Nat /\ x <= done[u] /\ done[u] < x + PageLength /\ y \in Nat
      /\ (i <= d => y <= x) /\ (d < i => x + PageLength <= y)
      /\ PageLength \in Nat /\ d \in Nat
  BY <1>1, <1>3, <1>4, <1>5, RatioSizes
<1> HIDE DEF x, y
<1>7. i \in 1 .. d <=> y <= done[u]
  BY <1>6
<1>8. QED
  BY <1>2, <1>7 DEF y

LEMMA CompletePages ==
  ASSUME Types, NEW u \in Running, UserRow(u), NEW i \in Complete(u)
  PROVE  /\ i \in DOMAIN pages[u] /\ i \in Nat \ {0} /\ u \in Users
         /\ i * PageLength <= done[u] /\ i * PageLength <= Len(Text[u])
         /\ i * PageLength \in Nat
<1> DEFINE l == Len(pages[u])
<1>1. /\ u \in Users /\ done[u] \in Nat /\ count[u] \in Nat /\ l \in Nat
      /\ DOMAIN pages[u] = 1 .. l /\ Len(Text[u]) \in Nat
  BY RunningIs, PageIs, TextIs
<1>2. done[u] + count[u] <= Len(Text[u]) /\ done[u] + count[u] <= PageLength * l
  BY DEF UserRow
<1> HIDE DEF l
<1>3. i \in Nat \ {0}
  BY <1>1, OnPage DEF Complete
<1>4. i * PageLength <= done[u] /\ i * PageLength \in Nat
  BY <1>1, <1>3, CompleteIs, RatioSizes
<1>5. PageLength * l = l * PageLength /\ l * PageLength \in Nat
  BY <1>1, RatioSizes
<1>6. i <= l
  <2>1. l < i => l * PageLength + PageLength <= i * PageLength
    BY <1>1, <1>3, RatioSizes, Products
  <2>2. QED
    BY <1>1, <1>2, <1>3, <1>4, <1>5, <2>1, RatioSizes
<1>7. QED
  BY <1>1, <1>2, <1>3, <1>4, <1>6

\* The page that stands for the i-th complete page of u: the one of the cache,
\* or, if it has none, the request's own.
Taken(u, i) ==
  \/ Inserted(u)[i] \in Cached /\ prefix[Inserted(u)[i]] = PageText(u, i)
  \/ Inserted(u)[i] = pages[u][i] /\ Private(u, i) /\ ~HasPage(u, i)

LEMMA InsertedIs ==
  ASSUME Types, UserInv, PageInv, NEW u \in Running
  PROVE  /\ DOMAIN Inserted(u) = DOMAIN pages[u]
         /\ \A i \in Complete(u) : Taken(u, i)
         /\ \A i \in DOMAIN pages[u] \ Complete(u) : Inserted(u)[i] = pages[u][i] /\ Private(u, i)
<1>1. DOMAIN Inserted(u) = DOMAIN pages[u]
  BY DEF Inserted
<1>2. UserRow(u) /\ PagesRow(u) /\ u \in Users
  BY RunningIs DEF UserInv, PageInv
<1>3. ASSUME NEW i \in Complete(u) PROVE Taken(u, i)
  <2>1. i \in DOMAIN pages[u]
    BY <1>2, CompletePages
  <2>2. CASE HasPage(u, i)
    <3>1. Inserted(u)[i] = PageFor(u, i)
      BY <2>1, <2>2 DEF Inserted
    <3>2. QED
      BY <2>2, <3>1, PageForIs DEF Taken
  <2>3. CASE ~HasPage(u, i)
    <3>1. Inserted(u)[i] = pages[u][i]
      BY <2>1, <2>3 DEF Inserted
    <3>2. ~Shared(u, i)
      BY <1>2, <2>1, <2>3, SharedIsCached DEF HasPage
    <3>3. QED
      BY <1>2, <2>1, <2>3, <3>1, <3>2 DEF Taken, PagesRow
  <2>4. QED
    BY <2>2, <2>3
<1>4. ASSUME NEW i \in DOMAIN pages[u] \ Complete(u)
      PROVE  Inserted(u)[i] = pages[u][i] /\ Private(u, i)
  <2>1. Inserted(u)[i] = pages[u][i]
    BY DEF Inserted
  <2>2. i \in Nat \ {0} /\ done[u] \in Nat
    BY <1>2, PageIs
  <2>3. ~Shared(u, i)
    BY <1>2, <2>2, CompleteIs DEF Shared
  <2>4. QED
    BY <1>2, <2>1, <2>3 DEF PagesRow
<1>5. QED
  BY <1>1, <1>3, <1>4

LEMMA PageTextsDiffer ==
  ASSUME Types, NEW u \in Running, UserRow(u), NEW i \in Complete(u), NEW j \in Complete(u),
         PageText(u, i) = PageText(u, j)
  PROVE  i = j
<1>1. /\ i \in Nat \ {0} /\ j \in Nat \ {0} /\ u \in Users
      /\ i * PageLength <= Len(Text[u]) /\ j * PageLength <= Len(Text[u])
  BY CompletePages
<1>2. Len(PageText(u, i)) = i * PageLength /\ Len(PageText(u, j)) = j * PageLength
  BY <1>1, PageTextIs
<1>3. i * PageLength = j * PageLength /\ i * PageLength \in Nat
  BY <1>1, <1>2, RatioSizes
<1>4. i < j => i * PageLength + PageLength <= j * PageLength
  BY <1>1, RatioSizes, Products
<1>5. j < i => j * PageLength + PageLength <= i * PageLength
  BY <1>1, RatioSizes, Products
<1>6. QED
  BY <1>1, <1>3, <1>4, <1>5, RatioSizes

LEMMA InsertedApart ==
  ASSUME Types, UserInv, PageInv, NEW u \in Running,
         NEW i \in DOMAIN pages[u], NEW j \in DOMAIN pages[u], Inserted(u)[i] = Inserted(u)[j]
  PROVE  i = j
<1>1. UserRow(u)
  BY DEF UserInv
<1>2. \/ i \in Complete(u) /\ Inserted(u)[i] \in Cached /\ prefix[Inserted(u)[i]] = PageText(u, i)
      \/ Inserted(u)[i] = pages[u][i] /\ Private(u, i)
  BY InsertedIs DEF Taken
<1>3. \/ j \in Complete(u) /\ Inserted(u)[j] \in Cached /\ prefix[Inserted(u)[j]] = PageText(u, j)
      \/ Inserted(u)[j] = pages[u][j] /\ Private(u, j)
  BY InsertedIs DEF Taken
<1>4. CASE Inserted(u)[i] \in Cached
  <2>1. /\ i \in Complete(u) /\ prefix[Inserted(u)[i]] = PageText(u, i)
        /\ j \in Complete(u) /\ prefix[Inserted(u)[j]] = PageText(u, j)
    BY <1>2, <1>3, <1>4 DEF Private
  <2>2. PageText(u, i) = PageText(u, j)
    BY <2>1
  <2>3. QED
    BY <1>1, <2>1, <2>2, PageTextsDiffer
<1>5. CASE Inserted(u)[i] \notin Cached
  <2>1. Inserted(u)[i] = pages[u][i] /\ Private(u, i) /\ Inserted(u)[j] = pages[u][j]
    BY <1>2, <1>3, <1>5
  <2>2. QED
    BY <2>1 DEF Private
<1>6. QED
  BY <1>4, <1>5

LEMMA LabelledIs ==
  ASSUME Types, UserInv, PageInv, NEW u \in Running
  PROVE  /\ \A i \in Complete(u) : Labelled(u)[Inserted(u)[i]] = PageText(u, i)
         /\ \A g \in Pages : \/ Labelled(u)[g] = prefix[g]
                             \/ \E i \in Complete(u) : g = Inserted(u)[i]
         /\ \A g \in Cached : Labelled(u)[g] = prefix[g]
         /\ Labelled(u) \in [Pages -> Seq(Tokens)]
<1>1. UserRow(u) /\ u \in Users
  BY RunningIs DEF UserInv
<1>2. ASSUME NEW i \in Complete(u) PROVE i \in DOMAIN pages[u] /\ Inserted(u)[i] \in Pages
  <2>1. i \in DOMAIN pages[u] /\ pages[u][i] \in Pages
    BY <1>1, CompletePages, PageIs
  <2>2. QED
    BY <2>1, InsertedIs DEF Taken, Cached
<1>3. ASSUME NEW i \in Complete(u) PROVE Labelled(u)[Inserted(u)[i]] = PageText(u, i)
  <2> DEFINE g == Inserted(u)[i]
             j == CHOOSE j \in Complete(u) : Inserted(u)[j] = g
  <2>1. j \in Complete(u) /\ Inserted(u)[j] = g
    OBVIOUS
  <2>2. j = i
    BY <1>2, <2>1, InsertedApart
  <2>3. g \in Pages
    BY <1>2
  <2>4. Labelled(u)[g] = PageText(u, j)
    BY <2>3 DEF Labelled
  <2>5. QED
    BY <2>2, <2>4
<1>4. ASSUME NEW g \in Pages, ~(\E i \in Complete(u) : g = Inserted(u)[i])
      PROVE  Labelled(u)[g] = prefix[g]
  BY <1>4 DEF Labelled
<1>5. ASSUME NEW g \in Cached PROVE Labelled(u)[g] = prefix[g]
  <2>1. g \in Pages
    BY DEF Cached
  <2>2. CASE \E i \in Complete(u) : g = Inserted(u)[i]
    <3>1. PICK i \in Complete(u) : g = Inserted(u)[i]
      BY <2>2
    <3>2. prefix[g] = PageText(u, i)
      BY <3>1, InsertedIs DEF Taken, Private
    <3>3. QED
      BY <1>3, <3>1, <3>2
  <2>3. QED
    BY <1>4, <2>1, <2>2
<1>6. Labelled(u) \in [Pages -> Seq(Tokens)]
  <2>1. ASSUME NEW g \in Pages PROVE Labelled(u)[g] \in Seq(Tokens)
    <3>1. CASE \E i \in Complete(u) : g = Inserted(u)[i]
      <4>1. PICK i \in Complete(u) : g = Inserted(u)[i]
        BY <3>1
      <4>2. PageText(u, i) \in Seq(Tokens)
        BY <1>1, CompletePages, PageTextIs
      <4>3. QED
        BY <1>3, <4>1, <4>2
    <3>2. CASE ~(\E i \in Complete(u) : g = Inserted(u)[i])
      BY <1>4, <3>2 DEF Types
    <3>3. QED
      BY <3>1, <3>2
  <2>2. QED
    BY <2>1 DEF Labelled
<1>7. QED
  BY <1>3, <1>4, <1>5, <1>6

LEMMA ReplacedIs ==
  ASSUME Types, UserInv, PageInv, NEW u \in Running, NEW g \in Replaced(u)
  PROVE  \E i \in DOMAIN pages[u] : /\ g = pages[u][i] /\ Private(u, i)
                                    /\ \A j \in DOMAIN pages[u] : Inserted(u)[j] # g
<1>1. UserRow(u) /\ PagesRow(u)
  BY DEF UserInv, PageInv
<1>2. DOMAIN Inserted(u) = DOMAIN pages[u]
  BY InsertedIs
<1>3. PICK i \in DOMAIN pages[u] : g = pages[u][i]
  BY DEF Replaced, Range
<1>4. \A j \in DOMAIN pages[u] : Inserted(u)[j] # g
  BY <1>2 DEF Replaced, Range
<1>5. ~Shared(u, i)
  <2>1. SUFFICES ASSUME Shared(u, i) PROVE FALSE
    OBVIOUS
  <2>2. g \in Cached /\ prefix[g] = PageText(u, i)
    BY <1>1, <1>3, <2>1, SharedIsCached
  <2>3. HasPage(u, i)
    BY <2>2 DEF HasPage
  <2>4. PageFor(u, i) = g
    BY <2>2, <2>3, PageForIs DEF PageInv
  <2>5. Inserted(u)[i] = g
    BY <1>3, <2>3, <2>4 DEF Inserted
  <2>6. QED
    BY <1>4, <2>5
<1>6. QED
  BY <1>1, <1>3, <1>4, <1>5 DEF PagesRow

-------------------------------------------------------------------------------
(* The cache with the pages of a request.                                      *)

\* The complete pages of u are in the cache.
Files(u) == prefix' = Labelled(u) /\ GpuStays

LEMMA FiledCache ==
  ASSUME Types, UserInv, PageInv, NEW u \in Running, Files(u)
  PROVE  /\ \A g \in Cached : g \in Cached' /\ prefix'[g] = prefix[g]
         /\ \A g \in Cached' \ Cached : \E i \in Complete(u) :
              /\ i \in DOMAIN pages[u] /\ g = Inserted(u)[i] /\ g = pages[u][i]
              /\ Private(u, i) /\ ~HasPage(u, i) /\ prefix'[g] = PageText(u, i)
         /\ \A i \in Complete(u) : Inserted(u)[i] \in Cached' /\ prefix'[Inserted(u)[i]] = PageText(u, i)
<1>1. UserRow(u) /\ prefix' = Labelled(u) /\ prefix \in [Pages -> Seq(Tokens)]
  BY DEF UserInv, Files, Types
<1>2. \A g \in Cached : g \in Cached' /\ prefix'[g] = prefix[g]
  BY <1>1, LabelledIs DEF Cached
<1>3. ASSUME NEW g \in Cached' \ Cached
      PROVE  \E i \in Complete(u) :
              /\ i \in DOMAIN pages[u] /\ g = Inserted(u)[i] /\ g = pages[u][i]
              /\ Private(u, i) /\ ~HasPage(u, i) /\ prefix'[g] = PageText(u, i)
  <2>1. g \in Pages /\ Labelled(u)[g] # prefix[g]
    BY <1>1 DEF Cached
  <2>2. PICK i \in Complete(u) : g = Inserted(u)[i]
    BY <2>1, LabelledIs
  <2>3. i \in DOMAIN pages[u]
    BY <1>1, CompletePages
  <2>4. g = pages[u][i] /\ Private(u, i) /\ ~HasPage(u, i)
    BY <2>2, InsertedIs DEF Taken
  <2>5. prefix'[g] = PageText(u, i)
    BY <1>1, <2>2, LabelledIs
  <2>6. QED
    BY <2>2, <2>3, <2>4, <2>5
<1>4. ASSUME NEW i \in Complete(u)
      PROVE  Inserted(u)[i] \in Cached' /\ prefix'[Inserted(u)[i]] = PageText(u, i)
  <2>1. prefix'[Inserted(u)[i]] = PageText(u, i)
    BY <1>1, LabelledIs
  <2>2. /\ i \in DOMAIN pages[u] /\ i \in Nat \ {0} /\ u \in Users
        /\ i * PageLength <= Len(Text[u])
    BY <1>1, CompletePages
  <2>3. PageText(u, i) # NotCached
    BY <2>2, PageTextIs
  <2>4. Inserted(u)[i] \in Pages
    BY <2>2, InsertedIs, PageIs DEF Taken, Cached
  <2>5. QED
    BY <2>1, <2>3, <2>4 DEF Cached
<1>5. QED
  BY <1>2, <1>3, <1>4

LEMMA FiledTexts ==
  ASSUME Types, UserInv, PageInv, NEW u \in Running, Files(u)
  PROVE  /\ \A g \in Cached' : \E i \in Nat \ {0} : Len(prefix'[g]) = i * PageLength
         /\ \A g, h \in Cached' : prefix'[g] = prefix'[h] => g = h
<1>1. UserRow(u)
  BY DEF UserInv
<1>2. \A g \in Cached : g \in Cached' /\ prefix'[g] = prefix[g]
  BY FiledCache
<1>3. \A g \in Cached' \ Cached : \E i \in Complete(u) :
              /\ g = Inserted(u)[i] /\ ~HasPage(u, i) /\ prefix'[g] = PageText(u, i)
  BY FiledCache
<1>4. ASSUME NEW g \in Cached' PROVE \E i \in Nat \ {0} : Len(prefix'[g]) = i * PageLength
  <2>1. CASE g \in Cached
    BY <1>2, <2>1 DEF PageInv
  <2>2. CASE g \notin Cached
    <3>1. PICK i \in Complete(u) : prefix'[g] = PageText(u, i)
      BY <1>3, <2>2
    <3>2. i \in Nat \ {0} /\ u \in Users /\ i * PageLength <= Len(Text[u])
      BY <1>1, CompletePages
    <3>3. Len(PageText(u, i)) = i * PageLength
      BY <3>2, PageTextIs
    <3>4. QED
      BY <3>1, <3>2, <3>3
  <2>3. QED
    BY <2>1, <2>2
<1>5. ASSUME NEW g \in Cached' \ Cached, NEW h \in Cached, prefix'[g] = prefix'[h] PROVE FALSE
  BY <1>2, <1>3, <1>5 DEF HasPage
<1>6. ASSUME NEW g \in Cached', NEW h \in Cached', prefix'[g] = prefix'[h] PROVE g = h
  <2>1. CASE g \in Cached /\ h \in Cached
    BY <1>2, <1>6, <2>1 DEF PageInv
  <2>2. CASE g \notin Cached /\ h \notin Cached
    <3>1. PICK i \in Complete(u) : g = Inserted(u)[i] /\ prefix'[g] = PageText(u, i)
      BY <1>3, <2>2
    <3>2. PICK j \in Complete(u) : h = Inserted(u)[j] /\ prefix'[h] = PageText(u, j)
      BY <1>3, <2>2
    <3>3. i = j
      BY <1>1, <1>6, <3>1, <3>2, PageTextsDiffer
    <3>4. QED
      BY <3>1, <3>2, <3>3
  <2>3. QED
    BY <1>5, <1>6, <2>1, <2>2
<1>7. QED
  BY <1>4, <1>6

LEMMA HoldsStays ==
  ASSUME NEW g, NEW t, NEW p, checkpoint' = checkpoint, short' = short, long' = long
  PROVE  HoldsAt(g, t, p)' <=> HoldsAt(g, t, p)
BY DEF HoldsAt

LEMMA FiledRows ==
  ASSUME Types, UserInv, PageInv, DataInv, CachedInv, NEW u \in Running, Files(u)
  PROVE  CachedInv'
<1>1. UserRow(u) /\ DataRow(u) /\ u \in Users
  BY RunningIs DEF UserInv, DataInv
<1>2. checkpoint' = checkpoint /\ short' = short /\ long' = long
  BY DEF Files, GpuStays, gpuVars
<1>3. ASSUME NEW g \in Cached' PROVE CachedRow(g)'
  <2>1. CASE g \in Cached
    <3>1. prefix'[g] = prefix[g] /\ CachedRow(g) /\ GpuStays
      BY <2>1, FiledCache DEF CachedInv, Files
    <3>2. QED
      BY <3>1, CachedStays
  <2>2. CASE g \notin Cached
    <3>1. PICK i \in Complete(u) : g = pages[u][i] /\ prefix'[g] = PageText(u, i)
      BY <2>2, FiledCache
    <3> DEFINE k == i * PageLength
    <3>2. /\ i \in Nat \ {0} /\ k <= done[u] /\ k <= Len(Text[u]) /\ k \in Nat /\ k >= PageLength
          /\ done[u] \in Nat
      BY <1>1, CompletePages, PageTextIs, PageIs
    <3>3. prefix'[g] = SubSeq(Text[u], 1, k) /\ Len(prefix'[g]) = k
      BY <1>1, <3>1, <3>2, PageTextIs
    <3>4. ASSUME NEW p \in k - PageLength .. k - 1 PROVE HoldsAt(g, SubSeq(Text[u], 1, k), p)
      <4>1. k - PageLength = (i - 1) * PageLength
        BY <3>2, RatioSizes
      <4> HIDE DEF k
      <4>2. p \in Nat /\ p < k /\ p \in 0 .. done[u] - 1
        BY <3>2, RatioSizes
      <4>3. p \div PageLength = i - 1
        <5> DEFINE b == p - (i - 1) * PageLength
        <5>1. (i - 1) * PageLength \in Int
          BY <3>2, RatioSizes
        <5>2. b \in 0 .. PageLength - 1 /\ p = (i - 1) * PageLength + b
          BY <3>2, <4>1, <4>2, <5>1, RatioSizes
        <5> DEFINE a == i - 1
        <5>3. a \in Int /\ p = a * PageLength + b
          BY <3>2, <5>2
        <5> HIDE DEF a, b
        <5>4. p \div PageLength = a
          BY <4>2, <5>2, <5>3, RatioSizes, DivisionIs
        <5>5. QED
          BY <5>4 DEF a
      <4>4. p \div PageLength + 1 = i
        BY <3>2, <4>3
      <4>5. HoldsAt(g, Text[u], p)
        BY <1>1, <3>1, <4>2, <4>4 DEF DataRow, FilledRow
      <4>6. QED
        BY <1>1, <3>2, <4>2, <4>5, TextIs, HoldsOfBeginning
    <3> HIDE DEF k
    <3>5. PICK s : s = SubSeq(Text[u], 1, k)
      OBVIOUS
    <3>6. prefix'[g] = s /\ Len(prefix'[g]) = k
      BY <3>3, <3>5
    <3>7. \A p \in k - PageLength .. k - 1 : HoldsAt(g, s, p)'
      BY <1>2, <3>4, <3>5, HoldsStays
    <3>8. QED
      BY <3>6, <3>7 DEF CachedRow, HoldsAt
  <2>3. QED
    BY <2>1, <2>2
<1>4. QED
  BY <1>3 DEF CachedInv

\* The pages of another request stay what they were.
LEMMA FiledOther ==
  ASSUME Types, UserInv, PageInv, NEW u \in Running, Files(u), NEW v \in Running, v # u,
         pages'[v] = pages[v], done'[v] = done[v],
         \A g \in free' : g \in free \/ \E j \in DOMAIN pages[u] : pages[u][j] = g,
         \A w \in Running' : w \in Running /\ (w # u => pages'[w] = pages[w]),
         u \in Running' => pages'[u] = Inserted(u)
  PROVE  PagesRow(v)'
<1>1. v \in Users
  BY RunningIs
<1>2. UserRow(v) /\ PagesRow(v)
  BY DEF UserInv, PageInv
<1>3. ASSUME NEW i \in DOMAIN pages[v] PROVE Shared(v, i)' \/ Private(v, i)'
  <2>1. done[v] \in Nat /\ i \in Nat /\ pages'[v][i] = pages[v][i]
    BY <1>1, PageIs
  <2>2. CASE Shared(v, i)
    <3>1. pages[v][i] \in Cached
      BY <1>2, <2>2, SharedIsCached
    <3>2. prefix'[pages[v][i]] = prefix[pages[v][i]]
      BY <3>1, FiledCache
    <3>3. Shared(v, i)'
      BY <2>1, <2>2, <3>2, SharedStays
    <3>4. QED
      BY <3>3
  <2>3. CASE Private(v, i)
    <3>1. \A j \in DOMAIN pages[u] : pages[u][j] # pages[v][i]
      BY <2>3 DEF Private
    <3>2. \A j \in DOMAIN pages[u] : Inserted(u)[j] # pages[v][i]
      BY <2>3, <3>1, InsertedIs DEF Taken, Private
    <3>3. pages'[v][i] \notin free'
      BY <2>1, <2>3, <3>1 DEF Private
    <3>4. pages'[v][i] \notin Cached'
      BY <2>1, <2>3, <3>1, FiledCache DEF Private
    <3>5. ASSUME NEW w \in Running', NEW j \in DOMAIN pages'[w], pages'[w][j] = pages'[v][i]
          PROVE  w = v /\ j = i
      <4>1. CASE w = u
        BY <2>1, <3>2, <3>5, <4>1, InsertedIs
      <4>2. CASE w # u
        BY <2>1, <2>3, <3>5, <4>2 DEF Private
      <4>3. QED
        BY <4>1, <4>2
    <3>6. Private(v, i)'
      BY <3>3, <3>4, <3>5 DEF Private
    <3>7. QED
      BY <3>6
  <2>4. QED
    BY <1>2, <2>2, <2>3 DEF PagesRow
<1>4. QED
  BY <1>3 DEF PagesRow

\* What leaves a request for the free pages was its own.
LEMMA FiledFree ==
  ASSUME Types, UserInv, PageInv, NEW u \in Running, Files(u),
         \A g \in free' : g \in free \/ g \in Replaced(u) \/ g \in TailPages(u)
  PROVE  free' \cap Cached' = {}
<1>1. ASSUME NEW g \in free', g \in Cached' PROVE FALSE
  <2>1. CASE g \in free
    <3>1. g \notin Cached
      BY <2>1 DEF PageInv
    <3>2. QED
      BY <1>1, <2>1, <3>1, FiledCache DEF Private
  <2>2. CASE g \in Replaced(u)
    <3>1. PICK i \in DOMAIN pages[u] : /\ g = pages[u][i] /\ Private(u, i)
                                       /\ \A j \in DOMAIN pages[u] : Inserted(u)[j] # g
      BY <2>2, ReplacedIs
    <3>2. g \notin Cached
      BY <3>1 DEF Private
    <3>3. QED
      BY <1>1, <3>1, <3>2, FiledCache
  <2>3. CASE g \in TailPages(u)
    <3>1. PICK i \in DOMAIN pages[u] \ Complete(u) : g = pages[u][i]
      BY <2>3 DEF TailPages
    <3>2. Inserted(u)[i] = g /\ g \notin Cached
      BY <3>1, InsertedIs DEF Private
    <3>3. PICK j \in Complete(u) : j \in DOMAIN pages[u] /\ g = Inserted(u)[j]
      BY <1>1, <3>2, FiledCache
    <3>4. i = j
      BY <3>1, <3>2, <3>3, InsertedApart
    <3>5. QED
      BY <3>1, <3>3, <3>4
  <2>4. QED
    BY <2>1, <2>2, <2>3
<1>2. QED
  BY <1>1

-------------------------------------------------------------------------------
(* The prompt is cached, and a request ends.                                   *)

LEMMA CachePromptKeeps ==
  ASSUME EntryInv, NEW u \in Users, CachePrompt(u)
  PROVE  EntryInv'
<1>1. /\ Types /\ UserInv /\ BatchInv /\ PageInv /\ DataInv /\ CachedInv
  BY DEF EntryInv
<1>2. /\ total = 0 /\ pages' = [pages EXCEPT ![u] = Inserted(u)] /\ free' = free \cup Replaced(u)
      /\ UNCHANGED <<phase, slot, done, first, count, total>> /\ Files(u) /\ u \in Running
  BY DEF CachePrompt, Files, GpuStays, batchVars, Running
<1>3. /\ pages'[u] = Inserted(u) /\ Running' = Running
      /\ \A v \in Users : v # u => SameRequest(v)
  BY <1>1, <1>2 DEF Types, SameRequest, Running
<1>4. \A v \in Running : v \in Users /\ (v # u => SameRequest(v))
  BY <1>3, RunningIs
<1>5. UserRow(u) /\ PagesRow(u) /\ DataRow(u) /\ GpuStays
  BY <1>1, <1>2 DEF UserInv, PageInv, DataInv, Files
<1> DEFINE l == Len(pages[u])
<1>6. /\ l \in Nat /\ DOMAIN pages[u] = 1 .. l /\ pages[u] \in Seq(Pages) /\ done[u] \in Nat
      /\ \A i \in DOMAIN pages[u] : pages[u][i] \in Pages
  BY <1>1, PageIs
<1>7. DOMAIN Inserted(u) = 1 .. l /\ \A i \in 1 .. l : Inserted(u)[i] \in Pages
  <2>1. DOMAIN Inserted(u) = DOMAIN pages[u]
    BY <1>1, <1>2, InsertedIs
  <2>2. ASSUME NEW i \in DOMAIN pages[u] PROVE Inserted(u)[i] \in Pages
    <3>1. CASE i \in Complete(u)
      BY <1>1, <1>2, <1>6, <3>1, InsertedIs DEF Taken, Cached
    <3>2. CASE i \notin Complete(u)
      BY <1>1, <1>2, <1>6, <3>2, InsertedIs
    <3>3. QED
      BY <3>1, <3>2
  <2>3. QED
    BY <1>6, <2>1, <2>2
<1>8. Inserted(u) \in Seq(Pages) /\ Len(Inserted(u)) = l
  <2>1. Inserted(u) = [i \in 1 .. l |-> Inserted(u)[i]]
    BY <1>6 DEF Inserted
  <2>2. Inserted(u) \in [1 .. l -> Pages]
    BY <1>7, <2>1
  <2> HIDE DEF l
  <2>3. QED
    BY <1>6, <2>2, FunctionIsSeq
<1>9. Types'
  <2>1. pages' \in [Users -> Seq(Pages)]
    BY <1>1, <1>2, <1>8 DEF Types
  <2>2. prefix' \in [Pages -> Seq(Tokens)]
    BY <1>1, <1>2, LabelledIs DEF Files
  <2>3. free' \in SUBSET Pages
    BY <1>1, <1>2, <1>6 DEF Types, Replaced, Range
  <2>4. QED
    BY <1>1, <1>2, <1>5, <2>1, <2>2, <2>3, GpuTypes DEF Types
<1>10. UserInv'
  <2>1. ASSUME NEW v \in Running PROVE UserRow(v)'
    <3>1. UserRow(v) /\ Len(pages'[v]) = Len(pages[v])
      BY <1>1, <1>3, <1>4, <1>8 DEF UserInv, SameRequest
    <3>2. QED
      BY <1>2, <1>3, <3>1 DEF UserRow
  <2>2. QED
    BY <1>3, <2>1 DEF UserInv
<1>11. BatchInv'
  BY <1>1, <1>2, <1>3 DEF BatchInv, BatchRow
<1>12. PageInv'
  <2>1. free' \cap Cached' = {}
    BY <1>1, <1>2, FiledFree
  <2>2. \A g \in free' : g \in free \/ \E j \in DOMAIN pages[u] : pages[u][j] = g
    BY <1>2 DEF Replaced, Range
  <2>3. \A v \in Running : v # u => PagesRow(v)'
    BY <1>1, <1>2, <1>3, <1>4, <2>2, FiledOther DEF SameRequest
  <2>4. ASSUME NEW i \in DOMAIN pages[u] PROVE Shared(u, i)' \/ Private(u, i)'
    <3>1. CASE i \in Complete(u)
      <4>1. i * PageLength <= done[u]
        BY <1>1, <1>2, <1>5, <3>1, CompletePages
      <4>2. prefix'[Inserted(u)[i]] = PageText(u, i)
        BY <1>1, <1>2, <3>1, FiledCache
      <4>3. Shared(u, i)'
        BY <1>2, <1>3, <4>1, <4>2 DEF Shared, PageText, Projected
      <4>4. QED
        BY <4>3
    <3>2. CASE i \notin Complete(u)
      <4>1. Inserted(u)[i] = pages[u][i] /\ Private(u, i)
        BY <1>1, <1>2, <3>2, InsertedIs
      <4>2. pages[u][i] \notin free'
        BY <1>2, <1>6, <1>7, <4>1 DEF Private, Replaced, Range
      <4>3. pages[u][i] \notin Cached'
        <5>1. SUFFICES ASSUME pages[u][i] \in Cached' PROVE FALSE
          OBVIOUS
        <5>2. PICK j \in Complete(u) : j \in DOMAIN pages[u] /\ pages[u][i] = Inserted(u)[j]
          BY <1>1, <1>2, <4>1, <5>1, FiledCache DEF Private
        <5>3. i = j
          BY <1>1, <1>2, <4>1, <5>2, InsertedApart
        <5>4. QED
          BY <3>2, <5>2, <5>3
      <4>4. ASSUME NEW w \in Running, NEW j \in DOMAIN pages'[w], pages'[w][j] = pages[u][i]
            PROVE  w = u /\ j = i
        <5>1. CASE w = u
          BY <1>1, <1>2, <1>3, <1>6, <1>7, <4>1, <4>4, <5>1, InsertedApart
        <5>2. CASE w # u
          BY <1>4, <4>1, <4>4, <5>2 DEF SameRequest, Private
        <5>3. QED
          BY <5>1, <5>2
      <4>5. Private(u, i)'
        BY <1>3, <4>1, <4>2, <4>3, <4>4 DEF Private
      <4>6. QED
        BY <4>5
    <3>3. QED
      BY <3>1, <3>2
  <2>5. PagesRow(u)'
    BY <1>3, <1>6, <1>7, <2>4 DEF PagesRow
  <2>6. /\ \A g \in Cached' : \E i \in Nat \ {0} : Len(prefix'[g]) = i * PageLength
        /\ \A g, h \in Cached' : prefix'[g] = prefix'[h] => g = h
    BY <1>1, <1>2, FiledTexts
  <2>7. \A v \in Running' : PagesRow(v)'
    BY <1>3, <2>3, <2>5
  <2>8. QED
    BY <2>1, <2>6, <2>7 DEF PageInv
<1>13. DataInv'
  <2>1. \A v \in Running : v # u => DataRow(v)'
    BY <1>1, <1>4, <1>5, DataStays DEF DataInv
  <2>2. ring' = ring /\ carry' = carry /\ checkpoint' = checkpoint /\ short' = short /\ long' = long
    BY <1>5 DEF GpuStays, gpuVars
  <2>3. RingRow(u)' /\ CarryRow(u)'
    BY <1>2, <1>5, <2>2 DEF DataRow, RingRow, CarryRow, Projected
  <2>4. ASSUME NEW p \in 0 .. done[u] - 1
        PROVE  HoldsAt(Inserted(u)[p \div PageLength + 1], Text[u], p)
    <3> DEFINE i == p \div PageLength + 1
    <3>0. p \in Nat /\ u \in Users /\ HoldsAt(pages[u][i], Text[u], p)
      BY <1>5, <1>6 DEF DataRow, FilledRow
    <3>1. p \in Nat /\ HoldsAt(pages[u][i], Text[u], p) /\ i \in Nat \ {0} /\ u \in Users
      BY <3>0, RatioSizes
    <3>2. CASE i \in Complete(u)
      <4>1. i * PageLength <= Len(Text[u])
        BY <1>1, <1>2, <1>5, <3>2, CompletePages
      <4>2. \/ Inserted(u)[i] \in Cached /\ prefix[Inserted(u)[i]] = PageText(u, i)
            \/ Inserted(u)[i] = pages[u][i]
        BY <1>1, <1>2, <3>2, InsertedIs DEF Taken
      <4>3. QED
        BY <1>1, <3>1, <4>1, <4>2, HeldByCached
    <3>3. CASE i \notin Complete(u)
      <4>1. i \in DOMAIN pages[u]
        <5>1. done[u] <= PageLength * l
          <6>1. done[u] + count[u] <= PageLength * l /\ count[u] \in Nat
            BY <1>1, <1>5, PageIs DEF UserRow
          <6>2. PageLength * l \in Nat
            BY <1>6, RatioSizes
          <6>3. QED
            BY <1>6, <6>1, <6>2
        <5>2. PageLength * l = l * PageLength /\ l * PageLength \in Nat
          BY <1>6, RatioSizes
        <5>3. p < l * PageLength
          BY <1>6, <3>1, <5>1, <5>2
        <5>4. i <= l
          BY <1>6, <3>1, <5>3, PageBefore
        <5>5. QED
          BY <1>6, <3>1, <5>4
      <4>2. Inserted(u)[i] = pages[u][i]
        BY <1>1, <1>2, <3>3, <4>1, InsertedIs
      <4>3. QED
        BY <3>1, <4>2
    <3>4. QED
      BY <3>2, <3>3
  <2>5. FilledRow(u)'
    BY <1>2, <1>3, <2>2, <2>4 DEF FilledRow, HoldsAt
  <2>6. QED
    BY <1>3, <2>1, <2>3, <2>5 DEF DataInv, DataRow
<1>14. CachedInv'
  BY <1>1, <1>2, FiledRows
<1>15. QED
  BY <1>9, <1>10, <1>11, <1>12, <1>13, <1>14 DEF EntryInv

LEMMA RetireKeeps ==
  ASSUME EntryInv, NEW u \in Users, Retire(u)
  PROVE  EntryInv'
<1>1. /\ Types /\ UserInv /\ BatchInv /\ PageInv /\ DataInv /\ CachedInv
  BY DEF EntryInv
<1>2. /\ total = 0 /\ pages' = [pages EXCEPT ![u] = <<>>]
      /\ free' = free \cup Replaced(u) \cup TailPages(u)
      /\ phase' = [phase EXCEPT ![u] = "gone"] /\ slot' = [slot EXCEPT ![u] = NoSlot]
      /\ done' = [done EXCEPT ![u] = 0]
      /\ UNCHANGED <<first, count, total>> /\ Files(u) /\ u \in Running
  BY DEF Retire, Files, GpuStays, batchVars, Running
<1>3. /\ phase'[u] = "gone" /\ \A v \in Users : v # u => SameRequest(v) /\ phase'[v] = phase[v]
  BY <1>1, <1>2 DEF Types, SameRequest
<1>4. Running' = Running \ {u}
  BY <1>3 DEF Running
<1>5. \A v \in Running' : v \in Running /\ v \in Users /\ v # u /\ SameRequest(v)
  BY <1>3, <1>4, RunningIs
<1>6. \A v \in Users : count[v] = 0
  BY <1>1, <1>2, NothingPrepared
<1>7. GpuStays /\ \A i \in DOMAIN pages[u] : pages[u][i] \in Pages
  BY <1>1, <1>2, PageIs DEF Files
<1>8. Types'
  <2>1. pages' \in [Users -> Seq(Pages)] /\ done' \in [Users -> Nat]
    BY <1>1, <1>2, EmptySeq DEF Types
  <2>2. prefix' \in [Pages -> Seq(Tokens)]
    BY <1>1, <1>2, LabelledIs DEF Files
  <2>3. free' \in SUBSET Pages
    BY <1>1, <1>2, <1>7 DEF Types, Replaced, TailPages, Range
  <2>4. QED
    BY <1>1, <1>2, <1>7, <2>1, <2>2, <2>3, GpuTypes DEF Types
<1>9. UserInv'
  BY <1>1, <1>4, <1>5 DEF UserInv, UserRow, SameRequest
<1>10. BatchInv'
  BY <1>1, <1>2, <1>6 DEF BatchInv
<1>11. PageInv'
  <2>1. free' \cap Cached' = {}
    BY <1>1, <1>2, FiledFree
  <2>2. \A g \in free' : g \in free \/ \E j \in DOMAIN pages[u] : pages[u][j] = g
    BY <1>2 DEF Replaced, TailPages, Range
  <2>3. \A v \in Running' : PagesRow(v)'
    <3>1. \A w \in Running' : w \in Running /\ (w # u => pages'[w] = pages[w])
      BY <1>5 DEF SameRequest
    <3>2. ASSUME NEW v \in Running' PROVE PagesRow(v)'
      <4>1. v \in Running /\ v # u /\ pages'[v] = pages[v] /\ done'[v] = done[v] /\ u \notin Running'
        BY <1>4, <1>5 DEF SameRequest
      <4>2. QED
        BY <1>1, <1>2, <2>2, <3>1, <4>1, FiledOther
    <3>3. QED
      BY <3>2
  <2>4. /\ \A g \in Cached' : \E i \in Nat \ {0} : Len(prefix'[g]) = i * PageLength
        /\ \A g, h \in Cached' : prefix'[g] = prefix'[h] => g = h
    BY <1>1, <1>2, FiledTexts
  <2>5. QED
    BY <2>1, <2>3, <2>4 DEF PageInv
<1>12. DataInv'
  BY <1>1, <1>5, <1>7, DataStays DEF DataInv
<1>13. CachedInv'
  BY <1>1, <1>2, FiledRows
<1>14. QED
  BY <1>8, <1>9, <1>10, <1>11, <1>12, <1>13 DEF EntryInv

-------------------------------------------------------------------------------
(* The rows of a batch.                                                        *)

InBatch(u, q) == done[u] <= q /\ q < done[u] + count[u]
BatchIndex(u, q) == first[u] + q - done[u] + 1
IsBatch(rows) ==
  /\ DOMAIN rows = 1 .. total /\ Len(rows) = total
  /\ \A u \in Users : \A q \in Nat : InBatch(u, q) =>
       /\ BatchIndex(u, q) \in 1 .. total
       /\ rows[BatchIndex(u, q)] = [user |-> u, table |-> slot[u], pos |-> q, pages |-> pages[u]]
  /\ \A r \in 1 .. total : \E u \in Running : \E q \in Nat : InBatch(u, q) /\ r = BatchIndex(u, q)

LEMMA OwnerIs ==
  ASSUME Types, BatchInv, NEW u \in Users, NEW q \in Nat, InBatch(u, q)
  PROVE  /\ BatchIndex(u, q) \in 1 .. total /\ Owner(BatchIndex(u, q)) = u /\ u \in Running
         /\ done[u] + BatchIndex(u, q) - first[u] - 1 = q
<1> DEFINE r == BatchIndex(u, q)
<1>1. first[u] \in Nat /\ count[u] \in Nat /\ done[u] \in Nat /\ total \in Nat
  BY PageIs DEF Types
<1>2. /\ r \in Nat /\ first[u] < r /\ r <= first[u] + count[u] /\ count[u] > 0
      /\ done[u] + r - first[u] - 1 = q
  BY <1>1 DEF InBatch, BatchIndex
<1>3. BatchRow(u)
  BY <1>2 DEF BatchInv
<1>4. r \in 1 .. total /\ u \in Running
  BY <1>1, <1>2, <1>3 DEF BatchRow
<1>5. ASSUME NEW v \in Users, first[v] < r, r <= first[v] + count[v] PROVE v = u
  <2>1. first[v] \in Nat /\ count[v] \in Nat
    BY PageIs
  <2>2. count[v] > 0
    BY <1>2, <1>5, <2>1
  <2>3. v # u => first[u] + count[u] <= first[v] \/ first[v] + count[v] <= first[u]
    BY <1>3, <2>2 DEF BatchRow
  <2>4. QED
    BY <1>1, <1>2, <1>5, <2>1, <2>3
<1> HIDE DEF r
<1>6. Owner(r) = u
  BY <1>2, <1>5 DEF Owner
<1>7. QED
  BY <1>2, <1>4, <1>6 DEF r

LEMMA BatchRowsIs ==
  ASSUME Types, BatchInv
  PROVE  IsBatch(BatchRows)
<1>1. total \in Nat /\ DOMAIN BatchRows = 1 .. total
  BY DEF Types, BatchRows
<1>2. Len(BatchRows) = total
  <2>1. BatchRows \in [1 .. total -> {RowAt(r) : r \in 1 .. total}]
    BY DEF BatchRows
  <2>2. QED
    BY <1>1, <2>1, FunctionIsSeq
<1>3. ASSUME NEW u \in Users, NEW q \in Nat, InBatch(u, q)
      PROVE  /\ BatchIndex(u, q) \in 1 .. total
             /\ BatchRows[BatchIndex(u, q)]
                  = [user |-> u, table |-> slot[u], pos |-> q, pages |-> pages[u]]
  <2>1. /\ BatchIndex(u, q) \in 1 .. total /\ Owner(BatchIndex(u, q)) = u
        /\ done[u] + BatchIndex(u, q) - first[u] - 1 = q
    BY <1>3, OwnerIs
  <2>2. PICK r : r = BatchIndex(u, q)
    OBVIOUS
  <2>3. BatchRows[r] = RowAt(r)
    BY <2>1, <2>2 DEF BatchRows
  <2>4. QED
    BY <2>1, <2>2, <2>3 DEF RowAt
<1>4. ASSUME NEW r \in 1 .. total
      PROVE  \E u \in Running : \E q \in Nat : InBatch(u, q) /\ r = BatchIndex(u, q)
  <2>1. PICK u \in Users : first[u] < r /\ r <= first[u] + count[u]
    BY DEF BatchInv
  <2>2. first[u] \in Nat /\ count[u] \in Nat /\ done[u] \in Nat /\ r \in Nat
    BY PageIs
  <2> DEFINE q == done[u] + (r - first[u] - 1)
  <2>3. q \in Nat /\ InBatch(u, q) /\ r = BatchIndex(u, q)
    BY <2>1, <2>2 DEF InBatch, BatchIndex
  <2>4. u \in Running
    BY <2>3, OwnerIs
  <2>5. QED
    BY <2>3, <2>4
<1>5. QED
  BY <1>1, <1>2, <1>3, <1>4 DEF IsBatch

\* A row with the table row of u is a row of u.
LEMMA RowOfUser ==
  ASSUME Types, UserInv, NEW rows, IsBatch(rows), NEW u \in Running, NEW r \in 1 .. total,
         rows[r].table = slot[u]
  PROVE  \E q \in Nat : InBatch(u, q) /\ r = BatchIndex(u, q) /\ rows[r].pos = q
<1>1. PICK v \in Running, q \in Nat : InBatch(v, q) /\ r = BatchIndex(v, q)
  BY DEF IsBatch
<1>2. v \in Users
  BY RunningIs
<1>3. rows[r] = [user |-> v, table |-> slot[v], pos |-> q, pages |-> pages[v]]
  BY <1>1, <1>2 DEF IsBatch
<1>4. rows[r].table = slot[v] /\ rows[r].pos = q
  BY <1>3
<1>5. slot[v] = slot[u]
  BY <1>4
<1>6. UserRow(u)
  BY DEF UserInv
<1>7. v = u
  BY <1>5, <1>6 DEF UserRow
<1>8. QED
  BY <1>1, <1>4, <1>7

LEMMA RowIs ==
  ASSUME NEW rows, IsBatch(rows), NEW u \in Running, NEW q \in Nat, InBatch(u, q)
  PROVE  /\ BatchIndex(u, q) \in 1 .. total
         /\ rows[BatchIndex(u, q)].user = u /\ rows[BatchIndex(u, q)].table = slot[u]
         /\ rows[BatchIndex(u, q)].pos = q /\ rows[BatchIndex(u, q)].pages = pages[u]
<1>1. u \in Users
  BY RunningIs
<1>2. /\ BatchIndex(u, q) \in 1 .. total
      /\ rows[BatchIndex(u, q)] = [user |-> u, table |-> slot[u], pos |-> q, pages |-> pages[u]]
  BY <1>1 DEF IsBatch
<1>3. QED
  BY <1>2

LEMMA InForwardIs ==
  ASSUME Types, UserInv, NEW rows, IsBatch(rows), NEW u \in Running, NEW p \in Nat, InBatch(u, p),
         NEW d \in Nat, d <= p
  PROVE  InForward(rows, BatchIndex(u, p), d) <=> done[u] <= p - d
<1> DEFINE r == BatchIndex(u, p)
<1>1. u \in Users /\ done[u] \in Nat /\ first[u] \in Nat /\ count[u] \in Nat /\ total \in Nat
  BY RunningIs, PageIs DEF Types
<1>2. r \in 1 .. total /\ rows[r].table = slot[u] /\ rows[r].pos = p
  BY RowIs
<1>3. ASSUME InForward(rows, r, d) PROVE done[u] <= p - d
  <2>1. r - d \in 1 .. total
    BY <1>1, <1>2, <1>3 DEF InForward
  <2>2. rows[r - d].table = slot[u] /\ rows[r - d].pos = p - d
    BY <1>2, <1>3 DEF InForward
  <2>3. PICK q \in Nat : InBatch(u, q) /\ rows[r - d].pos = q
    BY <2>1, <2>2, RowOfUser
  <2>4. QED
    BY <2>2, <2>3 DEF InBatch
<1>4. ASSUME done[u] <= p - d PROVE InForward(rows, r, d)
  <2>1. p - d \in Nat /\ InBatch(u, p - d) /\ BatchIndex(u, p - d) = r - d
    BY <1>1, <1>4 DEF InBatch, BatchIndex
  <2>2. r - d \in 1 .. total /\ rows[r - d].table = slot[u] /\ rows[r - d].pos = p - d
    BY <2>1, RowIs
  <2>3. QED
    BY <1>2, <2>2 DEF InForward
<1>5. QED
  BY <1>3, <1>4

LEMMA ShadowedIs ==
  ASSUME Types, UserInv, NEW rows, IsBatch(rows), NEW u \in Running, NEW q \in Nat, InBatch(u, q),
         NEW size \in Nat
  PROVE  Shadowed(rows, BatchIndex(u, q), size) <=> q + size < done[u] + count[u]
<1> DEFINE r == BatchIndex(u, q)
<1>1. u \in Users /\ done[u] \in Nat /\ first[u] \in Nat /\ count[u] \in Nat /\ total \in Nat
  BY RunningIs, PageIs DEF Types
<1>2. r \in 1 .. total /\ rows[r].table = slot[u] /\ rows[r].pos = q /\ Len(rows) = total
  BY RowIs DEF IsBatch
<1>3. ASSUME Shadowed(rows, r, size) PROVE q + size < done[u] + count[u]
  <2>1. r + size \in 1 .. total
    BY <1>1, <1>2, <1>3 DEF Shadowed
  <2>2. rows[r + size].table = slot[u] /\ rows[r + size].pos = q + size
    BY <1>2, <1>3 DEF Shadowed
  <2>3. PICK p \in Nat : InBatch(u, p) /\ rows[r + size].pos = p
    BY <2>1, <2>2, RowOfUser
  <2>4. QED
    BY <2>2, <2>3 DEF InBatch
<1>4. ASSUME q + size < done[u] + count[u] PROVE Shadowed(rows, r, size)
  <2>1. q + size \in Nat /\ InBatch(u, q + size) /\ BatchIndex(u, q + size) = r + size
    BY <1>1, <1>4 DEF InBatch, BatchIndex
  <2>2. r + size \in 1 .. total /\ rows[r + size].table = slot[u] /\ rows[r + size].pos = q + size
    BY <2>1, RowIs
  <2>3. QED
    BY <1>2, <2>2 DEF Shadowed
<1>5. QED
  BY <1>3, <1>4

\* Of the rows that go to the place of one of the last tokens, the one of that
\* token is stored.
LEMMA WritersAre ==
  ASSUME Types, UserInv, NEW rows, IsBatch(rows), NEW u \in Running, NEW size \in Nat \ {0},
         NEW q \in Nat, q < done[u] + count[u], done[u] + count[u] <= q + size
  PROVE  Writers(rows, slot[u], q % size, size)
           = IF done[u] <= q THEN {BatchIndex(u, q)} ELSE {}
<1> DEFINE W == Writers(rows, slot[u], q % size, size)
<1>1. u \in Users /\ done[u] \in Nat /\ first[u] \in Nat /\ count[u] \in Nat /\ total \in Nat
  BY RunningIs, PageIs DEF Types
<1>2. ASSUME NEW r \in W PROVE done[u] <= q /\ r = BatchIndex(u, q)
  <2>1. /\ r \in 1 .. total /\ rows[r].table = slot[u] /\ rows[r].pos % size = q % size
        /\ ~Shadowed(rows, r, size)
    BY <1>2 DEF Writers, IsBatch
  <2>2. PICK p \in Nat : InBatch(u, p) /\ r = BatchIndex(u, p) /\ rows[r].pos = p
    BY <2>1, RowOfUser
  <2>3. p % size = q % size /\ ~(p + size < done[u] + count[u])
    BY <2>1, <2>2, ShadowedIs
  <2>4. p < q + size /\ q < p + size
    BY <1>1, <2>2, <2>3 DEF InBatch
  <2>5. p = q
    BY <2>3, <2>4, SameRemainder
  <2>6. QED
    BY <2>2, <2>5 DEF InBatch
<1>3. ASSUME done[u] <= q PROVE BatchIndex(u, q) \in W
  <2>1. InBatch(u, q)
    BY <1>3 DEF InBatch
  <2>2. /\ BatchIndex(u, q) \in DOMAIN rows /\ rows[BatchIndex(u, q)].table = slot[u]
        /\ rows[BatchIndex(u, q)].pos = q
    BY <2>1, RowIs DEF IsBatch
  <2>3. ~(q + size < done[u] + count[u])
    BY <1>1
  <2>4. ~Shadowed(rows, BatchIndex(u, q), size)
    BY <2>1, <2>3, ShadowedIs
  <2>5. QED
    BY <2>2, <2>4 DEF Writers
<1> HIDE DEF W
<1>4. W = IF done[u] <= q THEN {BatchIndex(u, q)} ELSE {}
  BY <1>2, <1>3
<1>5. QED
  BY <1>4 DEF W

-------------------------------------------------------------------------------
(* What a forward leaves in the state of a request.                            *)

LEMMA AfterOne ==
  ASSUME NEW old, NEW f, NEW r, DOMAIN f = {r}
  PROVE  After(old, f) = f[r]
<1>1. Cardinality({r}) = 1 /\ DOMAIN f # {}
  BY FS_Singleton
<1>2. (CHOOSE x \in {r} : TRUE) = r
  OBVIOUS
<1>3. QED
  BY <1>1, <1>2 DEF After

LEMMA AfterNone ==
  ASSUME NEW old, NEW f, DOMAIN f = {}
  PROVE  After(old, f) = old
<1>1. Cardinality(DOMAIN f) = 0
  BY FS_EmptySet
<1>2. QED
  BY <1>1 DEF After

LEMMA RingAfter ==
  ASSUME Types, UserInv, NEW rows, IsBatch(rows), StoreRing(rows), NEW u \in Running, NEW q \in Nat,
         q < done[u] + count[u], done[u] + count[u] <= q + 2 * ShortRatio
  PROVE  ring'[slot[u]][q % (2 * ShortRatio)]
           = IF done[u] <= q THEN Projected(u, q) ELSE ring[slot[u]][q % (2 * ShortRatio)]
<1> DEFINE size == 2 * ShortRatio
           m == q % size
           W == Writers(rows, slot[u], m, size)
           f == [r \in W |-> Projected(rows[r].user, rows[r].pos)]
<1>1. size \in Nat \ {0} /\ m \in 0 .. size - 1 /\ slot[u] \in TableRows
  BY RatioSizes DEF UserInv, UserRow
<1>2. ring'[slot[u]][m] = After(ring[slot[u]][m], f)
  BY <1>1 DEF StoreRing
<1>3. W = IF done[u] <= q THEN {BatchIndex(u, q)} ELSE {}
  BY <1>1, WritersAre
<1>4. CASE done[u] <= q
  <2>1. rows[BatchIndex(u, q)].user = u /\ rows[BatchIndex(u, q)].pos = q
    BY <1>4, RowIs DEF InBatch
  <2>2. DOMAIN f = {BatchIndex(u, q)} /\ f[BatchIndex(u, q)] = Projected(u, q)
    BY <1>3, <1>4, <2>1
  <2> HIDE DEF f
  <2>3. After(ring[slot[u]][m], f) = Projected(u, q)
    BY <2>2, AfterOne
  <2>4. QED
    BY <1>2, <1>4, <2>3
<1>5. CASE ~(done[u] <= q)
  <2>1. DOMAIN f = {}
    BY <1>3, <1>5
  <2> HIDE DEF f
  <2>2. After(ring[slot[u]][m], f) = ring[slot[u]][m]
    BY <2>1, AfterNone
  <2>3. QED
    BY <1>2, <1>5, <2>2
<1>6. QED
  BY <1>4, <1>5

LEMMA CarryAfter ==
  ASSUME Types, UserInv, NEW rows, IsBatch(rows), StoreCarry(rows), NEW u \in Running, NEW q \in Nat,
         q < done[u] + count[u], done[u] + count[u] <= q + LongRatio
  PROVE  carry'[slot[u]][q % LongRatio]
           = IF done[u] <= q THEN <<Projected(u, q), q % LongRatio>>
             ELSE carry[slot[u]][q % LongRatio]
<1> DEFINE m == q % LongRatio
           W == Writers(rows, slot[u], m, LongRatio)
           f == [r \in W |-> <<Projected(rows[r].user, rows[r].pos), m>>]
<1>1. LongRatio \in Nat \ {0} /\ m \in 0 .. LongRatio - 1 /\ slot[u] \in TableRows
  BY RatioSizes DEF UserInv, UserRow
<1>2. carry'[slot[u]][m] = After(carry[slot[u]][m], f)
  BY <1>1 DEF StoreCarry
<1>3. W = IF done[u] <= q THEN {BatchIndex(u, q)} ELSE {}
  BY <1>1, WritersAre
<1>4. CASE done[u] <= q
  <2>1. rows[BatchIndex(u, q)].user = u /\ rows[BatchIndex(u, q)].pos = q
    BY <1>4, RowIs DEF InBatch
  <2>2. DOMAIN f = {BatchIndex(u, q)} /\ f[BatchIndex(u, q)] = <<Projected(u, q), m>>
    BY <1>3, <1>4, <2>1
  <2> HIDE DEF f
  <2>3. After(carry[slot[u]][m], f) = <<Projected(u, q), m>>
    BY <2>2, AfterOne
  <2>4. QED
    BY <1>2, <1>4, <2>3
<1>5. CASE ~(done[u] <= q)
  <2>1. DOMAIN f = {}
    BY <1>3, <1>5
  <2> HIDE DEF f
  <2>2. After(carry[slot[u]][m], f) = carry[slot[u]][m]
    BY <2>1, AfterNone
  <2>3. QED
    BY <1>2, <1>5, <2>2
<1>6. QED
  BY <1>4, <1>5

\* A boundary at a later position is not before that of an earlier one.
LEMMA BoundaryGrows ==
  ASSUME NEW n \in Nat, NEW m \in Nat, NEW k \in Nat \ {0}, n <= m
  PROVE  /\ (n \div k) * k <= (m \div k) * k /\ (m \div k) * k <= m /\ m < (m \div k) * k + k
         /\ (n \div k) * k \in Nat /\ (m \div k) * k \in Nat
<1> DEFINE a == n \div k
           b == m \div k
<1>1. a \in Nat /\ b \in Nat /\ a <= b
  BY Divided, DivisionGrows
<1>2. m % k \in Nat /\ m % k < k /\ m = b * k + (m % k)
  BY Divided
<1> HIDE DEF a, b
<1>3. a * k \in Nat /\ b * k \in Nat
  BY <1>1
<1>4. a * k <= b * k
  BY <1>1
<1>5. QED
  BY <1>2, <1>3, <1>4 DEF a, b

LEMMA StateAfter ==
  ASSUME Types, UserInv, NEW rows, IsBatch(rows), StoreRing(rows), StoreCarry(rows),
         NEW u \in Running, DataRow(u), done'[u] = done[u] + count[u], slot'[u] = slot[u]
  PROVE  RingRow(u)' /\ CarryRow(u)'
<1> DEFINE n == done[u] + count[u]
<1>1. done[u] \in Nat /\ n \in Nat /\ done[u] <= n
  BY RunningIs, PageIs
<1>2. ASSUME NEW q \in 0 .. n - 1, (n \div PageLength) * PageLength <= q, n <= q + 2 * ShortRatio
      PROVE  ring'[slot[u]][q % (2 * ShortRatio)] = Projected(u, q)
  <2>1. q \in Nat /\ q < n
    BY <1>1
  <2>2. CASE done[u] <= q
    BY <1>2, <2>1, <2>2, RingAfter
  <2>3. CASE ~(done[u] <= q)
    <3> DEFINE a == (done[u] \div PageLength) * PageLength
               b == (n \div PageLength) * PageLength
    <3>1. a <= b /\ a \in Nat /\ b \in Nat
      BY <1>1, RatioSizes, BoundaryGrows
    <3> HIDE DEF a, b, n
    <3>2. a <= q
      BY <1>2, <2>1, <3>1 DEF b
    <3>3. q \in 0 .. done[u] - 1 /\ done[u] <= q + 2 * ShortRatio
      BY <1>1, <1>2, <2>1, <2>3, RatioSizes
    <3>4. ring[slot[u]][q % (2 * ShortRatio)] = Projected(u, q)
      BY <3>2, <3>3 DEF DataRow, RingRow, a
    <3>5. q < done[u] + count[u] /\ done[u] + count[u] <= q + 2 * ShortRatio
      BY <1>2, <2>1 DEF n
    <3>6. QED
      BY <2>1, <2>3, <3>4, <3>5, RingAfter
  <2>4. QED
    BY <2>2, <2>3
<1>3. ASSUME NEW q \in 0 .. n - 1, (n \div LongRatio) * LongRatio <= q
      PROVE  carry'[slot[u]][q % LongRatio] = <<Projected(u, q), q % LongRatio>>
  <2> DEFINE a == (done[u] \div LongRatio) * LongRatio
             b == (n \div LongRatio) * LongRatio
  <2>1. q \in Nat /\ q < n
    BY <1>1
  <2>2. a <= b /\ a \in Nat /\ b \in Nat /\ n < b + LongRatio /\ LongRatio \in Nat
    BY <1>1, RatioSizes, BoundaryGrows
  <2> HIDE DEF a, b, n
  <2>3. n <= q + LongRatio /\ a <= q
    BY <1>1, <1>3, <2>1, <2>2 DEF b
  <2>4. q < done[u] + count[u] /\ done[u] + count[u] <= q + LongRatio
    BY <2>1, <2>3 DEF n
  <2>5. CASE done[u] <= q
    BY <2>1, <2>4, <2>5, CarryAfter
  <2>6. CASE ~(done[u] <= q)
    <3>1. q \in 0 .. done[u] - 1
      BY <1>1, <2>1, <2>6
    <3>2. carry[slot[u]][q % LongRatio] = <<Projected(u, q), q % LongRatio>>
      BY <2>3, <3>1 DEF DataRow, CarryRow, a
    <3>3. QED
      BY <2>1, <2>4, <2>6, <3>2, CarryAfter
  <2>7. QED
    BY <2>5, <2>6
<1>4. RingRow(u)'
  BY <1>2 DEF RingRow, Projected
<1>5. CarryRow(u)'
  BY <1>3 DEF CarryRow, Projected
<1>6. QED
  BY <1>4, <1>5

-------------------------------------------------------------------------------
(* The page that a row of the batch is stored in.                              *)

\* A page that the batch stores to is the request's own.
LEMMA StoredPage ==
  ASSUME Types, UserInv, PageInv, NEW v \in Running, NEW q \in Nat, InBatch(v, q)
  PROVE  /\ q \div PageLength + 1 \in DOMAIN pages[v]
         /\ Private(v, q \div PageLength + 1)
<1> DEFINE j == q \div PageLength + 1
           l == Len(pages[v])
<1>1. /\ v \in Users /\ done[v] \in Nat /\ count[v] \in Nat /\ l \in Nat
      /\ DOMAIN pages[v] = 1 .. l
  BY RunningIs, PageIs
<1>2. UserRow(v) /\ PagesRow(v)
  BY DEF UserInv, PageInv
<1>3. j \in Nat \ {0} /\ q < j * PageLength /\ j * PageLength \in Nat
  BY OnPage, RatioSizes
<1>4. done[v] <= q /\ q < done[v] + count[v]
  BY DEF InBatch
<1>5. PageLength * l = l * PageLength /\ l * PageLength \in Nat
  BY <1>1, RatioSizes
<1>6. q < l * PageLength
  BY <1>1, <1>2, <1>4, <1>5 DEF UserRow
<1>7. j <= l
  BY <1>1, <1>6, PageBefore
<1>8. j \in DOMAIN pages[v]
  BY <1>1, <1>3, <1>7
<1> HIDE DEF j, l
<1>9. ~Shared(v, j)
  BY <1>1, <1>3, <1>4 DEF Shared
<1>10. Private(v, j)
  BY <1>2, <1>8, <1>9 DEF PagesRow
<1>11. QED
  BY <1>8, <1>10 DEF j

LEMMA SamePage ==
  ASSUME Types, UserInv, PageInv, NEW rows, IsBatch(rows), NEW u \in Running, NEW p \in Nat,
         p < done[u] + count[u], NEW r \in 1 .. total,
         ComponentPage(rows[r], rows[r].pos) = pages[u][p \div PageLength + 1]
  PROVE  \E q \in Nat : /\ InBatch(u, q) /\ r = BatchIndex(u, q) /\ rows[r].pos = q
                        /\ q \div PageLength = p \div PageLength
<1>1. PICK v \in Running, q \in Nat : InBatch(v, q) /\ r = BatchIndex(v, q)
  BY DEF IsBatch
<1>2. rows[r].pos = q /\ rows[r].pages = pages[v]
  BY <1>1, RowIs
<1> DEFINE i == p \div PageLength + 1
           j == q \div PageLength + 1
           l == Len(pages[u])
<1>3. pages[v][j] = pages[u][i]
  BY <1>2 DEF ComponentPage
<1>4. Private(v, j)
  BY <1>1, StoredPage
<1>5. i \in DOMAIN pages[u]
  <2>1. /\ done[u] \in Nat /\ count[u] \in Nat /\ l \in Nat /\ DOMAIN pages[u] = 1 .. l
    BY RunningIs, PageIs
  <2>2. PageLength * l = l * PageLength /\ l * PageLength \in Nat
    BY <2>1, RatioSizes
  <2>3. UserRow(u)
    BY DEF UserInv
  <2>4. p < l * PageLength
    BY <2>1, <2>2, <2>3 DEF UserRow
  <2>5. i <= l /\ i \in Nat \ {0}
    BY <2>1, <2>4, PageBefore, OnPage
  <2>6. QED
    BY <2>1, <2>5
<1>6. p \div PageLength \in Nat /\ q \div PageLength \in Nat
  BY OnPage
<1>7. u = v /\ i = j
  <2> HIDE DEF i, j
  <2>1. QED
    BY <1>3, <1>4, <1>5 DEF Private
<1>8. q \div PageLength = p \div PageLength
  BY <1>6, <1>7
<1>9. QED
  BY <1>1, <1>2, <1>7, <1>8

\* No row goes to a page of the cache.
LEMMA CachedPageStays ==
  ASSUME Types, UserInv, PageInv, NEW rows, IsBatch(rows), NEW g \in Cached, NEW r \in 1 .. total
  PROVE  ComponentPage(rows[r], rows[r].pos) # g
<1>1. PICK v \in Running, q \in Nat : InBatch(v, q) /\ r = BatchIndex(v, q)
  BY DEF IsBatch
<1>2. rows[r].pos = q /\ rows[r].pages = pages[v]
  BY <1>1, RowIs
<1>3. Private(v, q \div PageLength + 1)
  BY <1>1, StoredPage
<1>4. QED
  BY <1>2, <1>3 DEF ComponentPage, Private

-------------------------------------------------------------------------------
(* The entries and checkpoints of the pages after a forward.                   *)

\* The ratios.
IsRatio(k) == k \in Nat \ {0} /\ PageLength % k = 0

LEMMA NestedInPage ==
  ASSUME NEW p \in Nat, NEW k, IsRatio(k)
  PROVE  /\ (p % PageLength) % k = p % k
         /\ p \div k = (p \div PageLength) * (PageLength \div k) + ((p % PageLength) \div k)
         /\ (p % PageLength) \div k \in 0 .. (PageLength \div k) - 1
<1> DEFINE g == PageLength
<1>1. g \in Nat \ {0} /\ k \in Nat \ {0} /\ g % k = 0
  BY RatioSizes DEF IsRatio
<1> HIDE DEF g
<1>2. /\ (p % g) % k = p % k
      /\ p \div k = (p \div g) * (g \div k) + ((p % g) \div k)
      /\ (p % g) \div k \in 0 .. (g \div k) - 1
  BY <1>1, Nested, Zenon
<1>3. QED
  BY <1>2 DEF g

\* The entry of a position among those of its page.
LEMMA EntryIs ==
  ASSUME NEW p \in Nat, NEW k, IsRatio(k)
  PROVE  /\ PageLength \div k \in Nat \ {0}
         /\ EntryOf(p, k) \in 0 .. (PageLength \div k) - 1
         /\ p \div k = (p \div PageLength) * (PageLength \div k) + EntryOf(p, k)
<1> DEFINE c == PageLength \div k
           a == p \div PageLength
           b == (p % PageLength) \div k
           n == p \div k
<1>1. PageLength \in Nat \ {0} /\ k \in Nat \ {0} /\ PageLength % k = 0
  BY RatioSizes DEF IsRatio
<1>2. c \in Nat \ {0} /\ a \in Nat /\ n \in Nat
  BY <1>1, DivisorIs, Divided
<1>3. n = a * c + b /\ b \in 0 .. c - 1
  <2>1. /\ p \div k = (p \div PageLength) * (PageLength \div k) + ((p % PageLength) \div k)
        /\ (p % PageLength) \div k \in 0 .. (PageLength \div k) - 1
    BY NestedInPage, Zenon
  <2>2. QED
    BY <2>1
<1> HIDE DEF a, b, c, n
<1>4. n % c = b
  BY <1>2, <1>3, DivisionIs
<1>5. EntryOf(p, k) = n % c
  BY DEF EntryOf, n, c
<1>6. EntryOf(p, k) = b
  BY <1>4, <1>5
<1>7. c \in Nat \ {0} /\ EntryOf(p, k) \in 0 .. c - 1 /\ n = a * c + EntryOf(p, k)
  BY <1>2, <1>3, <1>6
<1>8. QED
  BY <1>7 DEF a, c, n

\* The last position of a group.
LEMMA LastIs ==
  ASSUME NEW p \in Nat, NEW k \in Nat \ {0}, (p + 1) % k = 0
  PROVE  p = (p \div k) * k + (k - 1) /\ p % k = k - 1 /\ p \div k \in Nat /\ (p \div k) * k \in Nat
<1> DEFINE c == (p + 1) \div k
           a == c - 1
<1>1. c \in Nat /\ p + 1 = c * k + 0
  BY Divided
<1> HIDE DEF c
<1>2. c # 0
  BY <1>1
<1>3. a \in Nat /\ c = a + 1
  BY <1>1, <1>2
<1> HIDE DEF a
<1>4. (a + 1) * k = a * k + k /\ a * k \in Nat
  BY <1>3
<1>5. p = a * k + (k - 1)
  BY <1>1, <1>3, <1>4
<1>6. k - 1 \in 0 .. k - 1
  OBVIOUS
<1>7. p \div k = a /\ p % k = k - 1
  BY <1>3, <1>5, <1>6, DivisionIs
<1>8. QED
  BY <1>3, <1>4, <1>5, <1>7

\* Of a batch only the row of position p stores the entry of that position.
LEMMA EndsAre ==
  ASSUME Types, UserInv, PageInv, NEW rows, IsBatch(rows), NEW u \in Running, NEW p \in Nat,
         p < done[u] + count[u], NEW k, IsRatio(k), (p + 1) % k = 0
  PROVE  Ends(rows, pages[u][p \div PageLength + 1], EntryOf(p, k), k)
           = IF done[u] <= p THEN {BatchIndex(u, p)} ELSE {}
<1> DEFINE g == pages[u][p \div PageLength + 1]
           W == Ends(rows, g, EntryOf(p, k), k)
<1>1. k \in Nat \ {0} /\ DOMAIN rows = 1 .. total
  BY DEF IsRatio, IsBatch
<1>2. ASSUME NEW r \in W PROVE done[u] <= p /\ r = BatchIndex(u, p)
  <2>1. /\ r \in 1 .. total /\ ComponentPage(rows[r], rows[r].pos) = g
        /\ (rows[r].pos + 1) % k = 0 /\ EntryOf(rows[r].pos, k) = EntryOf(p, k)
    BY <1>1, <1>2 DEF Ends, EntryOf
  <2>2. PICK q \in Nat : /\ InBatch(u, q) /\ r = BatchIndex(u, q) /\ rows[r].pos = q
                         /\ q \div PageLength = p \div PageLength
    BY <2>1, SamePage
  <2>3. (q + 1) % k = 0 /\ EntryOf(q, k) = EntryOf(p, k)
    BY <2>1, <2>2
  <2>4. q \div k = p \div k
    <3>1. q \div k = (q \div PageLength) * (PageLength \div k) + EntryOf(q, k)
      BY EntryIs
    <3>2. p \div k = (p \div PageLength) * (PageLength \div k) + EntryOf(p, k)
      BY EntryIs
    <3>3. QED
      BY <2>2, <2>3, <3>1, <3>2
  <2>5. q = p
    <3>1. q = (q \div k) * k + (k - 1)
      BY <1>1, <2>3, LastIs
    <3>2. p = (p \div k) * k + (k - 1)
      BY <1>1, LastIs
    <3>3. QED
      BY <2>4, <3>1, <3>2
  <2>6. QED
    BY <2>2, <2>5 DEF InBatch
<1>3. ASSUME done[u] <= p PROVE BatchIndex(u, p) \in W
  <2>1. /\ BatchIndex(u, p) \in 1 .. total /\ rows[BatchIndex(u, p)].pos = p
        /\ rows[BatchIndex(u, p)].pages = pages[u]
    BY <1>3, RowIs DEF InBatch
  <2>2. QED
    BY <1>1, <2>1 DEF Ends, ComponentPage, EntryOf
<1> HIDE DEF W
<1>4. W = IF done[u] <= p THEN {BatchIndex(u, p)} ELSE {}
  BY <1>2, <1>3
<1>5. QED
  BY <1>4 DEF W

\* Where the last group of a page lies.
LEMMA TailIs ==
  ASSUME NEW p \in Nat, p % PageLength >= PageLength - ShortRatio
  PROVE  /\ p % PageLength = PageLength - ShortRatio + (p % ShortRatio)
         /\ p % ShortRatio \in 0 .. ShortRatio - 1
<1> DEFINE k == ShortRatio
           c == PageLength \div k
           a == c - 1
           b == p % PageLength
           d == b - (PageLength - k)
<1>1. PageLength \in Nat \ {0} /\ k \in Nat \ {0} /\ PageLength % k = 0
  BY RatioSizes
<1>2. c \in Nat \ {0} /\ PageLength = c * k
  BY <1>1, DivisorIs
<1>3. b \in Nat /\ b < PageLength /\ b >= PageLength - k
  BY <1>1, Divided
<1>4. b % k = p % k
  BY <1>1, NestedInPage DEF IsRatio
<1> HIDE DEF b, c
<1>5. a \in Nat /\ (a + 1) * k = a * k + k /\ a + 1 = c /\ a * k \in Nat
  BY <1>1, <1>2
<1> HIDE DEF a
<1>6. PageLength = a * k + k
  BY <1>2, <1>5
<1>7. d \in 0 .. k - 1 /\ b = a * k + d
  <2> DEFINE e == a * k
  <2>1. e \in Nat /\ PageLength = e + k
    BY <1>5, <1>6
  <2> HIDE DEF e
  <2>2. d \in 0 .. k - 1 /\ b = e + d
    BY <1>1, <1>3, <2>1
  <2>3. QED
    BY <2>2 DEF e
<1> HIDE DEF d
<1>8. b % k = d
  BY <1>1, <1>3, <1>5, <1>7, DivisionIs
<1>9. p % k = d
  BY <1>4, <1>8
<1>10. b = PageLength - k + d
  BY <1>1, <1>3 DEF d
<1>11. QED
  BY <1>7, <1>9, <1>10 DEF b

LEMMA KeptAre ==
  ASSUME Types, UserInv, PageInv, NEW rows, IsBatch(rows), NEW u \in Running, NEW p \in Nat,
         p < done[u] + count[u], p % PageLength >= PageLength - ShortRatio
  PROVE  Kept(rows, pages[u][p \div PageLength + 1], p % ShortRatio)
           = IF done[u] <= p THEN {BatchIndex(u, p)} ELSE {}
<1> DEFINE g == pages[u][p \div PageLength + 1]
           W == Kept(rows, g, p % ShortRatio)
<1>1. DOMAIN rows = 1 .. total /\ PageLength \in Nat \ {0}
  BY RatioSizes DEF IsBatch
<1>2. p % PageLength = PageLength - ShortRatio + (p % ShortRatio)
  BY TailIs
<1>3. ASSUME NEW r \in W PROVE done[u] <= p /\ r = BatchIndex(u, p)
  <2>1. /\ r \in 1 .. total /\ ComponentPage(rows[r], rows[r].pos) = g
        /\ rows[r].pos % PageLength = p % PageLength
    BY <1>1, <1>2, <1>3 DEF Kept
  <2>2. PICK q \in Nat : /\ InBatch(u, q) /\ r = BatchIndex(u, q) /\ rows[r].pos = q
                         /\ q \div PageLength = p \div PageLength
    BY <2>1, SamePage
  <2>3. q % PageLength = p % PageLength
    BY <2>1, <2>2
  <2>4. q = p
    <3>1. q = (q \div PageLength) * PageLength + (q % PageLength)
      BY <1>1, Divided
    <3>2. p = (p \div PageLength) * PageLength + (p % PageLength)
      BY <1>1, Divided
    <3>3. QED
      BY <2>2, <2>3, <3>1, <3>2
  <2>5. QED
    BY <2>2, <2>4 DEF InBatch
<1>4. ASSUME done[u] <= p PROVE BatchIndex(u, p) \in W
  <2>1. /\ BatchIndex(u, p) \in 1 .. total /\ rows[BatchIndex(u, p)].pos = p
        /\ rows[BatchIndex(u, p)].pages = pages[u]
    BY <1>4, RowIs DEF InBatch
  <2>2. QED
    BY <1>1, <1>2, <2>1 DEF Kept, ComponentPage
<1> HIDE DEF W
<1>5. W = IF done[u] <= p THEN {BatchIndex(u, p)} ELSE {}
  BY <1>3, <1>4
<1>6. QED
  BY <1>5 DEF W

-------------------------------------------------------------------------------
(* What an entry is pooled from.                                               *)

\* A row of the older half that is on the page before is one of its checkpoint;
\* one of the younger half is on the same page.
LEMMA OlderHalf ==
  ASSUME NEW p \in Nat, (p + 1) % ShortRatio = 0, NEW i \in 0 .. 2 * ShortRatio - 1, NEW q \in Nat,
         q = p - (2 * ShortRatio - 1 - i)
  PROVE  /\ ~FromCheckpoint(i, p, q) => q \div PageLength = p \div PageLength
         /\ FromCheckpoint(i, p, q) => q % PageLength >= PageLength - ShortRatio
<1> DEFINE k == ShortRatio
           a == p \div PageLength
           b == p % PageLength
           c == q \div PageLength
           d == q % PageLength
<1>1. PageLength \in Nat \ {0} /\ k \in Nat \ {0} /\ PageLength % k = 0 /\ i \in Nat /\ i < 2 * k
  BY RatioSizes
<1>2. a \in Nat /\ b \in Nat /\ b < PageLength /\ p = a * PageLength + b
  BY <1>1, Divided
<1>3. c \in Nat /\ d \in Nat /\ d < PageLength /\ q = c * PageLength + d
  BY <1>1, Divided
<1>4. b % k = k - 1
  <2>1. b % k = p % k
    BY <1>1, NestedInPage DEF IsRatio
  <2>2. p % k = k - 1
    BY <1>1, LastIs
  <2>3. QED
    BY <2>1, <2>2
<1> HIDE DEF a, b, c, d
<1>5. b >= k - 1
  <2>1. (b \div k) * k \in Nat /\ b = (b \div k) * k + (k - 1)
    <3> DEFINE e == b \div k
    <3>1. e \in Nat /\ b = e * k + (b % k)
      BY <1>1, <1>2, Divided
    <3> HIDE DEF e
    <3>2. e * k \in Nat /\ b = e * k + (k - 1)
      BY <1>1, <1>4, <3>1
    <3>3. QED
      BY <3>2 DEF e
  <2> DEFINE e == (b \div k) * k
  <2> HIDE DEF e
  <2>2. e \in Nat /\ b = e + (k - 1)
    BY <2>1 DEF e
  <2>3. QED
    BY <1>1, <2>2
<1> DEFINE x == a * PageLength
           y == c * PageLength
<1>6. x \in Nat /\ y \in Nat /\ p = x + b /\ q = y + d
  BY <1>1, <1>2, <1>3
<1>7. /\ a < c => x + PageLength <= y
      /\ c < a => y + PageLength <= x
  BY <1>1, <1>2, <1>3, Products
<1> HIDE DEF x, y
<1>8. q <= p /\ ~(a < c)
  BY <1>1, <1>2, <1>3, <1>6, <1>7
<1>9. CASE c = a
  <2>1. ~FromCheckpoint(i, p, q)
    BY <1>9 DEF FromCheckpoint, a, c
  <2>2. QED
    BY <1>9, <2>1 DEF a, c
<1>10. CASE c # a
  <2>1. c < a /\ y + PageLength <= x
    BY <1>2, <1>3, <1>7, <1>8, <1>10
  <2>2. i < k
    <3>1. q = p - (2 * k - 1 - i) /\ q < x /\ p >= x + (k - 1)
      BY <1>1, <1>2, <1>3, <1>5, <1>6, <2>1
    <3>2. QED
      BY <1>1, <1>6, <3>1
  <2>3. q >= x - k
    BY <1>1, <1>2, <1>5, <1>6, <2>2
  <2>4. d >= PageLength - k
    BY <1>1, <1>3, <1>6, <2>1, <2>3
  <2>5. FromCheckpoint(i, p, q)
    BY <1>10, <2>2 DEF FromCheckpoint, a, c
  <2>6. QED
    BY <2>4, <2>5 DEF d
<1>11. QED
  BY <1>9, <1>10

LEMMA ShortPooledIs ==
  ASSUME Types, UserInv, NEW rows, IsBatch(rows), NEW u \in Running, DataRow(u), NEW p \in Nat,
         InBatch(u, p), (p + 1) % ShortRatio = 0
  PROVE  ShortPooled(rows, BatchIndex(u, p)) = ShortOf(Text[u], p)
<1> DEFINE r == BatchIndex(u, p)
<1>1. /\ rows[r].user = u /\ rows[r].table = slot[u] /\ rows[r].pos = p /\ rows[r].pages = pages[u]
      /\ done[u] \in Nat /\ done[u] <= p /\ ShortRatio \in Nat \ {0}
  BY RowIs, RunningIs, PageIs, RatioSizes DEF InBatch
<1>2. ASSUME NEW i \in 0 .. 2 * ShortRatio - 1
      PROVE  ShortSource(rows, r, i)
               = LET q == p - (2 * ShortRatio - 1 - i)
                 IN  IF q < 0 THEN Nothing ELSE SubSeq(Text[u], 1, q + 1)
  <2> DEFINE d == 2 * ShortRatio - 1 - i
             q == p - d
  <2>1. d \in Nat /\ q \in Int /\ q <= p
    BY <1>1
  <2>2. CASE q < 0
    BY <1>1, <2>2 DEF ShortSource
  <2>3. CASE ~(q < 0)
    <3>1. q \in Nat /\ d <= p
      BY <2>1, <2>3
    <3>2. InForward(rows, r, d) <=> done[u] <= q
      BY <2>1, <3>1, InForwardIs
    <3>3. ShortSource(rows, r, i)
            = IF InForward(rows, r, d) THEN Projected(u, q)
              ELSE IF FromCheckpoint(i, p, q)
                   THEN checkpoint[ComponentPage(rows[r], q)][q % ShortRatio]
                   ELSE ring[slot[u]][q % (2 * ShortRatio)]
      BY <1>1, <2>3 DEF ShortSource
    <3>4. /\ ~FromCheckpoint(i, p, q) => q \div PageLength = p \div PageLength
          /\ FromCheckpoint(i, p, q) => q % PageLength >= PageLength - ShortRatio
      BY <3>1, OlderHalf
    <3>5. CASE done[u] <= q
      BY <2>3, <3>2, <3>3, <3>5 DEF Projected
    <3>6. CASE ~(done[u] <= q) /\ FromCheckpoint(i, p, q)
      <4>1. q \in 0 .. done[u] - 1
        BY <1>1, <3>1, <3>6
      <4>2. HoldsAt(pages[u][q \div PageLength + 1], Text[u], q)
        BY <4>1 DEF DataRow, FilledRow
      <4>3. checkpoint[pages[u][q \div PageLength + 1]][q % ShortRatio] = SubSeq(Text[u], 1, q + 1)
        BY <3>4, <3>6, <4>2 DEF HoldsAt
      <4>4. QED
        BY <1>1, <2>3, <3>2, <3>3, <3>6, <4>3 DEF ComponentPage
    <3>7. CASE ~(done[u] <= q) /\ ~FromCheckpoint(i, p, q)
      <4>1. q \in 0 .. done[u] - 1 /\ done[u] <= q + 2 * ShortRatio
        BY <1>1, <3>1, <3>7
      <4>2. (done[u] \div PageLength) * PageLength <= q
        <5> DEFINE a == (done[u] \div PageLength) * PageLength
                   b == (p \div PageLength) * PageLength
                   c == (q \div PageLength) * PageLength
        <5>1. a <= b /\ a \in Nat /\ b \in Nat
          BY <1>1, RatioSizes, BoundaryGrows
        <5>2. c <= q /\ c \in Nat /\ c = b
          BY <3>1, <3>4, <3>7, OnPage
        <5> HIDE DEF a, b, c
        <5>3. a <= q
          BY <3>1, <5>1, <5>2
        <5>4. QED
          BY <5>3 DEF a
      <4>3. ring[slot[u]][q % (2 * ShortRatio)] = Projected(u, q)
        BY <4>1, <4>2 DEF DataRow, RingRow
      <4>4. QED
        BY <2>3, <3>2, <3>3, <3>7, <4>3 DEF Projected
    <3>8. QED
      BY <3>5, <3>6, <3>7
  <2>4. QED
    BY <2>2, <2>3
<1> HIDE DEF r
<1>3. ShortPooled(rows, r) = ShortOf(Text[u], p)
  BY <1>2 DEF ShortPooled, ShortOf
<1>4. QED
  BY <1>3 DEF r

LEMMA LongPooledIs ==
  ASSUME Types, UserInv, NEW rows, IsBatch(rows), NEW u \in Running, DataRow(u), NEW p \in Nat,
         InBatch(u, p), (p + 1) % LongRatio = 0
  PROVE  LongPooled(rows, BatchIndex(u, p)) = LongOf(Text[u], p)
<1> DEFINE r == BatchIndex(u, p)
           k == LongRatio
           c == p \div k
           e == c * k
<1>1. /\ rows[r].user = u /\ rows[r].table = slot[u] /\ rows[r].pos = p
      /\ done[u] \in Nat /\ done[u] <= p /\ k \in Nat \ {0}
  BY RowIs, RunningIs, PageIs, RatioSizes DEF InBatch
<1>2. c \in Nat /\ e \in Nat /\ p = e + (k - 1)
  BY <1>1, LastIs
<1>3. (done[u] \div k) * k <= e /\ (done[u] \div k) * k \in Nat
  BY <1>1, BoundaryGrows
<1> HIDE DEF e, c
<1>4. ASSUME NEW i \in 0 .. k - 1
      PROVE  LongSource(rows, r, i) = <<SubSeq(Text[u], 1, p - (k - 1 - i) + 1), i>>
  <2> DEFINE d == k - 1 - i
             q == p - d
  <2>1. d \in Nat /\ q \in Nat /\ d <= p /\ q = e + i
    BY <1>1, <1>2
  <2>2. InForward(rows, r, d) <=> done[u] <= q
    BY <2>1, InForwardIs
  <2>3. LongSource(rows, r, i)
          = IF InForward(rows, r, d) THEN <<Projected(u, q), i>> ELSE carry[slot[u]][i]
    BY <1>1 DEF LongSource
  <2>4. CASE done[u] <= q
    BY <2>2, <2>3, <2>4 DEF Projected
  <2>5. CASE ~(done[u] <= q)
    <3>1. q \in 0 .. done[u] - 1
      BY <1>1, <2>1, <2>5
    <3>2. (done[u] \div k) * k <= q
      <4> DEFINE a == (done[u] \div k) * k
      <4>1. a <= e /\ a \in Nat
        BY <1>3
      <4> HIDE DEF a
      <4>2. a <= q
        BY <1>1, <1>2, <2>1, <4>1
      <4>3. QED
        BY <4>2 DEF a
    <3>3. q % k = i
      <4>1. q = c * k + i
        BY <2>1 DEF e
      <4>2. q \in Nat /\ k \in Nat \ {0} /\ c \in Int /\ i \in 0 .. k - 1
        BY <1>1, <1>2, <2>1
      <4> HIDE DEF q, k
      <4>3. QED
        BY <4>1, <4>2, DivisionIs
    <3>4. carry[slot[u]][q % k] = <<Projected(u, q), q % k>>
      BY <3>1, <3>2 DEF DataRow, CarryRow
    <3>5. carry[slot[u]][i] = <<Projected(u, q), i>>
      BY <3>3, <3>4
    <3>6. QED
      BY <2>2, <2>3, <2>5, <3>5 DEF Projected
  <2>6. QED
    BY <2>4, <2>5
<1> HIDE DEF r
<1>5. LongPooled(rows, r) = LongOf(Text[u], p)
  BY <1>4 DEF LongPooled, LongOf
<1>6. QED
  BY <1>5 DEF r

-------------------------------------------------------------------------------
(* A forward.                                                                  *)

Stores(rows) ==
  IsBatch(rows) /\ StoreRing(rows) /\ StoreCarry(rows) /\ StoreCheckpoint(rows) /\ PublishEntries(rows)

\* The page of a running request has an entry of p as soon as p is forwarded.
LEMMA ShortAfter ==
  ASSUME Types, UserInv, PageInv, NEW rows, Stores(rows), NEW u \in Running, DataRow(u),
         NEW p \in Nat, p < done[u] + count[u], (p + 1) % ShortRatio = 0,
         NEW g \in Pages, g = pages[u][p \div PageLength + 1]
  PROVE  short'[g][EntryOf(p, ShortRatio)]
           = IF done[u] <= p THEN ShortOf(Text[u], p) ELSE short[g][EntryOf(p, ShortRatio)]
<1> DEFINE e == EntryOf(p, ShortRatio)
           W == Ends(rows, g, e, ShortRatio)
           f == [r \in W |-> ShortPooled(rows, r)]
<1>1. IsRatio(ShortRatio) /\ IsBatch(rows)
  BY RatioSizes DEF IsRatio, Stores
<1>2. e \in DOMAIN short[g]
  BY <1>1, EntryIs DEF Types
<1>3. short'[g][e] = After(short[g][e], f)
  BY <1>2 DEF Stores, PublishEntries
<1>4. W = IF done[u] <= p THEN {BatchIndex(u, p)} ELSE {}
  BY <1>1, EndsAre
<1>5. CASE done[u] <= p
  <2>1. ShortPooled(rows, BatchIndex(u, p)) = ShortOf(Text[u], p)
    BY <1>1, <1>5, ShortPooledIs DEF InBatch
  <2>2. DOMAIN f = {BatchIndex(u, p)} /\ f[BatchIndex(u, p)] = ShortOf(Text[u], p)
    BY <1>4, <1>5, <2>1
  <2> HIDE DEF f, e
  <2>3. After(short[g][e], f) = ShortOf(Text[u], p)
    BY <2>2, AfterOne
  <2>4. QED
    BY <1>3, <1>5, <2>3 DEF e
<1>6. CASE ~(done[u] <= p)
  <2>1. DOMAIN f = {}
    BY <1>4, <1>6
  <2> HIDE DEF f, e
  <2>2. After(short[g][e], f) = short[g][e]
    BY <2>1, AfterNone
  <2>3. QED
    BY <1>3, <1>6, <2>2 DEF e
<1>7. QED
  BY <1>5, <1>6

LEMMA LongAfter ==
  ASSUME Types, UserInv, PageInv, NEW rows, Stores(rows), NEW u \in Running, DataRow(u),
         NEW p \in Nat, p < done[u] + count[u], (p + 1) % LongRatio = 0,
         NEW g \in Pages, g = pages[u][p \div PageLength + 1]
  PROVE  long'[g][EntryOf(p, LongRatio)]
           = IF done[u] <= p THEN LongOf(Text[u], p) ELSE long[g][EntryOf(p, LongRatio)]
<1> DEFINE e == EntryOf(p, LongRatio)
           W == Ends(rows, g, e, LongRatio)
           f == [r \in W |-> LongPooled(rows, r)]
<1>1. IsRatio(LongRatio) /\ IsBatch(rows)
  BY RatioSizes DEF IsRatio, Stores
<1>2. e \in DOMAIN long[g]
  BY <1>1, EntryIs DEF Types
<1>3. long'[g][e] = After(long[g][e], f)
  BY <1>2 DEF Stores, PublishEntries
<1>4. W = IF done[u] <= p THEN {BatchIndex(u, p)} ELSE {}
  BY <1>1, EndsAre
<1>5. CASE done[u] <= p
  <2>1. LongPooled(rows, BatchIndex(u, p)) = LongOf(Text[u], p)
    BY <1>1, <1>5, LongPooledIs DEF InBatch
  <2>2. DOMAIN f = {BatchIndex(u, p)} /\ f[BatchIndex(u, p)] = LongOf(Text[u], p)
    BY <1>4, <1>5, <2>1
  <2> HIDE DEF f, e
  <2>3. After(long[g][e], f) = LongOf(Text[u], p)
    BY <2>2, AfterOne
  <2>4. QED
    BY <1>3, <1>5, <2>3 DEF e
<1>6. CASE ~(done[u] <= p)
  <2>1. DOMAIN f = {}
    BY <1>4, <1>6
  <2> HIDE DEF f, e
  <2>2. After(long[g][e], f) = long[g][e]
    BY <2>1, AfterNone
  <2>3. QED
    BY <1>3, <1>6, <2>2 DEF e
<1>7. QED
  BY <1>5, <1>6

LEMMA CheckpointAfter ==
  ASSUME Types, UserInv, PageInv, NEW rows, Stores(rows), NEW u \in Running,
         NEW p \in Nat, p < done[u] + count[u], p % PageLength >= PageLength - ShortRatio,
         NEW g \in Pages, g = pages[u][p \div PageLength + 1]
  PROVE  checkpoint'[g][p % ShortRatio]
           = IF done[u] <= p THEN SubSeq(Text[u], 1, p + 1) ELSE checkpoint[g][p % ShortRatio]
<1> DEFINE m == p % ShortRatio
           W == Kept(rows, g, m)
           f == [r \in W |-> Projected(rows[r].user, rows[r].pos)]
<1>1. m \in 0 .. ShortRatio - 1 /\ IsBatch(rows)
  BY TailIs DEF Stores
<1>2. checkpoint'[g][m] = After(checkpoint[g][m], f)
  BY <1>1 DEF Stores, StoreCheckpoint
<1>3. W = IF done[u] <= p THEN {BatchIndex(u, p)} ELSE {}
  BY <1>1, KeptAre
<1>4. CASE done[u] <= p
  <2>1. rows[BatchIndex(u, p)].user = u /\ rows[BatchIndex(u, p)].pos = p
    BY <1>1, <1>4, RowIs DEF InBatch
  <2>2. DOMAIN f = {BatchIndex(u, p)} /\ f[BatchIndex(u, p)] = SubSeq(Text[u], 1, p + 1)
    BY <1>3, <1>4, <2>1 DEF Projected
  <2> HIDE DEF f, m
  <2>3. After(checkpoint[g][m], f) = SubSeq(Text[u], 1, p + 1)
    BY <2>2, AfterOne
  <2>4. QED
    BY <1>2, <1>4, <2>3 DEF m
<1>5. CASE ~(done[u] <= p)
  <2>1. DOMAIN f = {}
    BY <1>3, <1>5
  <2> HIDE DEF f, m
  <2>2. After(checkpoint[g][m], f) = checkpoint[g][m]
    BY <2>1, AfterNone
  <2>3. QED
    BY <1>2, <1>5, <2>2 DEF m
<1>6. QED
  BY <1>4, <1>5

LEMMA FilledAfter ==
  ASSUME Types, UserInv, PageInv, NEW rows, Stores(rows), NEW u \in Running, DataRow(u),
         NEW p \in Nat, p < done[u] + count[u],
         NEW g \in Pages, g = pages[u][p \div PageLength + 1]
  PROVE  HoldsAt(g, Text[u], p)'
<1>1. ASSUME ~(done[u] <= p) PROVE HoldsAt(g, Text[u], p)
  <2>1. done[u] \in Nat /\ p \in 0 .. done[u] - 1
    BY <1>1, RunningIs, PageIs
  <2>2. QED
    BY <2>1 DEF DataRow, FilledRow
<1>2. (p + 1) % ShortRatio = 0 => short'[g][EntryOf(p, ShortRatio)] = ShortOf(Text[u], p)
  BY <1>1, ShortAfter DEF HoldsAt
<1>3. (p + 1) % LongRatio = 0 => long'[g][EntryOf(p, LongRatio)] = LongOf(Text[u], p)
  BY <1>1, LongAfter DEF HoldsAt
<1>4. p % PageLength >= PageLength - ShortRatio =>
        checkpoint'[g][p % ShortRatio] = SubSeq(Text[u], 1, p + 1)
  BY <1>1, CheckpointAfter DEF HoldsAt
<1>5. QED
  BY <1>2, <1>3, <1>4 DEF HoldsAt

\* The pages of the cache stay what they are.
LEMMA CachedAfter ==
  ASSUME Types, UserInv, PageInv, NEW rows, Stores(rows), NEW g \in Cached, NEW p \in Nat
  PROVE  /\ short'[g][EntryOf(p, ShortRatio)] = short[g][EntryOf(p, ShortRatio)]
         /\ long'[g][EntryOf(p, LongRatio)] = long[g][EntryOf(p, LongRatio)]
         /\ checkpoint'[g][p % ShortRatio] = checkpoint[g][p % ShortRatio]
<1>1. /\ IsBatch(rows) /\ DOMAIN rows = 1 .. total /\ g \in Pages
      /\ IsRatio(ShortRatio) /\ IsRatio(LongRatio)
  BY RatioSizes DEF Stores, IsBatch, IsRatio, Cached
<1>2. \A r \in DOMAIN rows : ComponentPage(rows[r], rows[r].pos) # g
  BY <1>1, CachedPageStays
<1>3. short'[g][EntryOf(p, ShortRatio)] = short[g][EntryOf(p, ShortRatio)]
  <2> DEFINE e == EntryOf(p, ShortRatio)
             f == [r \in Ends(rows, g, e, ShortRatio) |-> ShortPooled(rows, r)]
  <2>1. e \in DOMAIN short[g]
    BY <1>1, EntryIs DEF Types
  <2>2. short'[g][e] = After(short[g][e], f)
    BY <1>1, <2>1 DEF Stores, PublishEntries
  <2>3. DOMAIN f = {}
    BY <1>2 DEF Ends
  <2> HIDE DEF f
  <2>4. QED
    BY <2>2, <2>3, AfterNone
<1>4. long'[g][EntryOf(p, LongRatio)] = long[g][EntryOf(p, LongRatio)]
  <2> DEFINE e == EntryOf(p, LongRatio)
             f == [r \in Ends(rows, g, e, LongRatio) |-> LongPooled(rows, r)]
  <2>1. e \in DOMAIN long[g]
    BY <1>1, EntryIs DEF Types
  <2>2. long'[g][e] = After(long[g][e], f)
    BY <1>1, <2>1 DEF Stores, PublishEntries
  <2>3. DOMAIN f = {}
    BY <1>2 DEF Ends
  <2> HIDE DEF f
  <2>4. QED
    BY <2>2, <2>3, AfterNone
<1>5. checkpoint'[g][p % ShortRatio] = checkpoint[g][p % ShortRatio]
  <2> DEFINE m == p % ShortRatio
             f == [r \in Kept(rows, g, m) |-> Projected(rows[r].user, rows[r].pos)]
  <2>1. m \in 0 .. ShortRatio - 1
    BY RatioSizes
  <2>2. checkpoint'[g][m] = After(checkpoint[g][m], f)
    BY <1>1, <2>1 DEF Stores, StoreCheckpoint
  <2>3. DOMAIN f = {}
    BY <1>2 DEF Kept
  <2> HIDE DEF f
  <2>4. QED
    BY <2>2, <2>3, AfterNone
<1>6. QED
  BY <1>3, <1>4, <1>5

LEMMA CachedRowAfter ==
  ASSUME Types, UserInv, PageInv, NEW rows, Stores(rows), NEW g \in Cached, CachedRow(g),
         prefix' = prefix
  PROVE  CachedRow(g)'
<1>1. PICK s : s = prefix[g]
  OBVIOUS
<1>2. PICK i \in Nat \ {0} : Len(s) = i * PageLength
  BY <1>1 DEF PageInv
<1>3. i * PageLength \in Nat /\ i * PageLength >= PageLength /\ PageLength \in Nat
  BY RatioSizes
<1>4. ASSUME NEW p \in Len(s) - PageLength .. Len(s) - 1 PROVE HoldsAt(g, s, p)'
  <2>1. p \in Nat
    BY <1>2, <1>3
  <2>2. HoldsAt(g, s, p)
    BY <1>1 DEF CachedRow
  <2>3. QED
    BY <2>1, <2>2, CachedAfter DEF HoldsAt
<1>5. prefix'[g] = s
  BY <1>1
<1>6. QED
  BY <1>4, <1>5 DEF CachedRow, HoldsAt

LEMMA ForwardKeeps ==
  ASSUME EntryInv, Forward
  PROVE  EntryInv'
<1>1. /\ Types /\ UserInv /\ BatchInv /\ PageInv /\ DataInv /\ CachedInv
  BY DEF EntryInv
<1>0. PICK rows : rows = BatchRows
  OBVIOUS
<1>2. Stores(rows)
  BY <1>0, <1>1, BatchRowsIs DEF Forward, Stores
<1>3. /\ done' = [v \in Users |-> done[v] + count[v]] /\ first' = [v \in Users |-> 0]
      /\ count' = [v \in Users |-> 0] /\ total' = 0 /\ phase' = phase /\ slot' = slot
      /\ pages' = pages /\ free' = free /\ prefix' = prefix
  BY DEF Forward, cacheVars
<1>4. Running' = Running /\ Cached' = Cached
  BY <1>3 DEF Running, Cached
<1>5. ASSUME NEW u \in Running
      PROVE  /\ u \in Users /\ done[u] \in Nat /\ count[u] \in Nat /\ done'[u] = done[u] + count[u]
             /\ done'[u] \in Nat /\ count'[u] = 0 /\ first'[u] = 0 /\ pages'[u] = pages[u]
             /\ slot'[u] = slot[u] /\ UserRow(u) /\ PagesRow(u) /\ DataRow(u)
  <2>1. u \in Users /\ done[u] \in Nat /\ count[u] \in Nat
    BY <1>1, RunningIs, PageIs
  <2>2. QED
    BY <1>1, <1>3, <2>1 DEF UserInv, PageInv, DataInv
<1>6. Types'
  <2>1. done' \in [Users -> Nat] /\ first' \in [Users -> Nat] /\ count' \in [Users -> Nat]
    BY <1>1, <1>3, PageIs
  <2>2. \A g \in Pages : DOMAIN short'[g] = DOMAIN short[g] /\ DOMAIN long'[g] = DOMAIN long[g]
    BY <1>2 DEF Stores, PublishEntries
  <2>3. QED
    BY <1>1, <1>3, <2>1, <2>2 DEF Types
<1>7. UserInv'
  <2>1. ASSUME NEW u \in Running PROVE UserRow(u)'
    <3>1. done'[u] + count'[u] = done[u] + count[u]
      BY <1>5
    <3>2. QED
      BY <1>3, <1>4, <1>5, <3>1 DEF UserRow
  <2>2. QED
    BY <1>4, <2>1 DEF UserInv
<1>8. BatchInv'
  BY <1>3 DEF BatchInv
<1>9. PageInv'
  <2>1. ASSUME NEW u \in Running, NEW i \in DOMAIN pages[u] PROVE Shared(u, i)' \/ Private(u, i)'
    <3>1. i \in Nat
      BY <1>1, <1>5, PageIs
    <3>2. CASE Shared(u, i)
      <4>1. done'[u] >= done[u]
        BY <1>5
      <4>2. QED
        BY <1>3, <1>5, <3>1, <3>2, <4>1, SharedStays
    <3>3. CASE Private(u, i)
      BY <1>3, <1>4, <3>3 DEF Private
    <3>4. QED
      BY <1>5, <3>2, <3>3 DEF PagesRow
  <2>2. \A u \in Running : PagesRow(u)'
    BY <1>3, <2>1 DEF PagesRow
  <2>3. QED
    BY <1>1, <1>3, <1>4, <2>2 DEF PageInv
<1>10. DataInv'
  <2>1. ASSUME NEW u \in Running PROVE DataRow(u)'
    <3>1. RingRow(u)' /\ CarryRow(u)'
      BY <1>1, <1>2, <1>5, StateAfter DEF Stores
    <3>2. ASSUME NEW p \in 0 .. done'[u] - 1
          PROVE  HoldsAt(pages[u][p \div PageLength + 1], Text[u], p)'
      <4> DEFINE i == p \div PageLength + 1
                 l == Len(pages[u])
      <4>1. p \in Nat /\ p < done[u] + count[u]
        BY <1>5, <3>2
      <4>2. PICK g : g = pages[u][i]
        OBVIOUS
      <4>3. g \in Pages
        <5>1. l \in Nat /\ DOMAIN pages[u] = 1 .. l /\ \A j \in DOMAIN pages[u] : pages[u][j] \in Pages
          BY <1>1, <1>5, PageIs
        <5>2. PageLength * l = l * PageLength /\ l * PageLength \in Nat
          BY <5>1, RatioSizes
        <5>3. p < l * PageLength
          BY <1>5, <4>1, <5>2 DEF UserRow
        <5>4. i \in 1 .. l
          <6>1. i \in Nat \ {0}
            BY <4>1, OnPage
          <6>2. i <= l
            BY <4>1, <5>1, <5>3, PageBefore
          <6> HIDE DEF i, l
          <6>3. QED
            BY <5>1, <6>1, <6>2
        <5>5. QED
          BY <4>2, <5>1, <5>4
      <4>4. HoldsAt(g, Text[u], p)'
        BY <1>1, <1>2, <1>5, <4>1, <4>2, <4>3, FilledAfter
      <4>5. pages'[u][i] = g
        BY <1>3, <4>2
      <4>6. QED
        BY <4>4, <4>5 DEF HoldsAt
    <3>3. FilledRow(u)'
      BY <3>2 DEF FilledRow
    <3>4. QED
      BY <3>1, <3>3 DEF DataRow
  <2>2. QED
    BY <1>4, <2>1 DEF DataInv
<1>11. CachedInv'
  <2>1. ASSUME NEW g \in Cached PROVE CachedRow(g)'
    BY <1>1, <1>2, <1>3, CachedRowAfter DEF CachedInv
  <2>2. QED
    BY <1>4, <2>1 DEF CachedInv
<1>12. QED
  BY <1>6, <1>7, <1>8, <1>9, <1>10, <1>11 DEF EntryInv

-------------------------------------------------------------------------------
(* The theorems.                                                               *)

LEMMA EntryInvSteps ==
  ASSUME EntryInv, [CompressorNext]_compressorVars
  PROVE  EntryInv'
<1>1. ASSUME NEW u \in Users, Admit(u) PROVE EntryInv'
  BY <1>1, AdmitKeeps
<1>2. ASSUME NEW u \in Users, CachePrompt(u) PROVE EntryInv'
  BY <1>2, CachePromptKeeps
<1>3. ASSUME NEW u \in Users, Retire(u) PROVE EntryInv'
  BY <1>3, RetireKeeps
<1>4. ASSUME NEW u \in Users, Join(u) PROVE EntryInv'
  BY <1>4, JoinKeeps
<1>5. ASSUME NEW g \in Pages, Evict(g) PROVE EntryInv'
  BY <1>5, EvictKeeps
<1>6. CASE Forward
  BY <1>6, ForwardKeeps
<1>7. CASE UNCHANGED compressorVars
  <2>1. GpuStays /\ UNCHANGED <<phase, slot, done, pages, free, prefix, first, count, total>>
    BY <1>7 DEF compressorVars, reqVars, cacheVars, batchVars, GpuStays
  <2>2. Running' = Running /\ Cached' = Cached /\ \A v \in Running : SameRequest(v)
    BY <2>1 DEF Running, Cached, SameRequest
  <2>3. Types'
    BY <2>1, GpuTypes DEF EntryInv, Types
  <2>4. UserInv' /\ BatchInv' /\ PageInv'
    BY <2>1, <2>2 DEF EntryInv, UserInv, UserRow, BatchInv, BatchRow, PageInv, PagesRow, Shared,
                      Private, PageText, Projected
  <2>5. DataInv'
    BY <2>1, <2>2, DataStays DEF EntryInv, DataInv
  <2>6. CachedInv'
    BY <2>1, <2>2, CachedStays DEF EntryInv, CachedInv
  <2>7. QED
    BY <2>3, <2>4, <2>5, <2>6 DEF EntryInv
<1>8. QED
  BY <1>1, <1>2, <1>3, <1>4, <1>5, <1>6, <1>7 DEF CompressorNext, Quiescent

LEMMA InvariantIsExact ==
  ASSUME EntryInv
  PROVE  EntriesAreExact
<1>1. ASSUME NEW u \in Running, NEW p \in 0 .. done[u] - 1
      PROVE  LET g == pages[u][p \div PageLength + 1]
             IN  /\ (p + 1) % ShortRatio = 0 =>
                      short[g][(p \div ShortRatio) % (PageLength \div ShortRatio)]
                        = ReferenceShort(u, p)
                 /\ (p + 1) % LongRatio = 0 =>
                      long[g][(p \div LongRatio) % (PageLength \div LongRatio)]
                        = ReferenceLong(u, p)
  <2>1. HoldsAt(pages[u][p \div PageLength + 1], Text[u], p)
    BY <1>1 DEF EntryInv, DataInv, DataRow, FilledRow
  <2>2. ReferenceShort(u, p) = ShortOf(Text[u], p) /\ ReferenceLong(u, p) = LongOf(Text[u], p)
    BY DEF ReferenceShort, ReferenceLong, ShortOf, LongOf, Projected
  <2>3. QED
    BY <2>1, <2>2 DEF HoldsAt, EntryOf
<1>2. QED
  BY <1>1 DEF EntriesAreExact

\* The invariant of the compressor: the rows of the ring and of the carried
\* group that the next forward of a request may read are those of its last
\* tokens, every entry and checkpoint of its pages and of the cached ones is
\* that of the reference, and a page that a request will write is its own.
THEOREM EntryInvariant == CompressorSpec => []EntryInv
<1>1. CompressorInit => EntryInv
  BY EntryInvHolds
<1>2. EntryInv /\ [CompressorNext]_compressorVars => EntryInv'
  BY EntryInvSteps
<1>3. QED
  BY <1>1, <1>2, PTL DEF CompressorSpec

\* For every number of requests, texts, ratios and pages: each compressed entry
\* that a running request can read is the one a compressor would compute that
\* sees the whole text at once, however the forwards were cut, whoever had the
\* table row before and whoever wrote the shared pages.
THEOREM EntriesAlwaysExact == CompressorSpec => []EntriesAreExact
<1>1. EntryInv => EntriesAreExact
  BY InvariantIsExact
<1>2. QED
  BY <1>1, EntryInvariant, PTL
===============================================================================
