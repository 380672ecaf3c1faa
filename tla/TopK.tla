--------------------------------- MODULE TopK ---------------------------------
(***************************************************************************)
(* The indexer's top-k of one row (kernel/csrc/jit/dsv4_topk_v1.cu): which *)
(* C4 entries the attention of the row will read.  A block of K threads    *)
(* finds a provisional choice by radix selection, one digit of the scores  *)
(* at a time, through counters in shared memory that the threads bump in   *)
(* any order; then it recomputes the choice from the least score of the    *)
(* provisional one, so that neither ties nor slots depend on that order.   *)
(*                                                                         *)
(* A score is the key that convert_to_uint32 makes of it, most significant *)
(* digit first.  -0 and +0 have different keys and are the same score.     *)
(* Counts that every thread adds to before a barrier and none reads are    *)
(* taken whole.                                                            *)
(***************************************************************************)
EXTENDS Integers, FiniteSets

CONSTANTS
  K,         \* kTopK: the slots of a row, and the threads of its block
  Staging,   \* SMEM_INPUT_SIZE
  Radix,     \* RADIX
  Rounds,    \* digits of a key
  Coarse,    \* convert_to_uint8: the bin of a key in half precision
  NegZero, PosZero,
  PageSize,  \* page_size of the row's page table
  Ratio,     \* ratio
  Rows       \* what a row may be (Legal)

Slots == 0 .. K - 1
Keys == [1 .. Rounds -> 0 .. Radix - 1]
Less(a, b) == \E r \in 1 .. Rounds : a[r] < b[r] /\ \A s \in 1 .. r - 1 : a[s] = b[s]

(* A row: its clamped length, its width in entries, the key of each entry,  *)
(* the entries whose score is not finite, and its page table.               *)
Items(w) == 0 .. w.len - 1
Legal(w) ==
  /\ w.len \in Nat
  /\ w.key \in [Items(w) -> Keys]
  /\ w.bad \subseteq Items(w)
  /\ w.pages \in [0 .. w.len \div PageSize -> Nat]

\* What the theorems assume of the kernel's parameters.
Sensible ==
  /\ K \in Nat \ {0} /\ Staging \in Nat /\ K < Staging
  /\ Radix \in Nat \ {0} /\ Rounds \in Nat \ {0} /\ PageSize \in Nat \ {0} /\ Ratio \in Nat \ {0}
  /\ Coarse \in [Keys -> 0 .. Radix - 1]
  /\ \A a, b \in Keys : Less(a, b) => Coarse[a] <= Coarse[b]
  /\ NegZero \in Keys /\ PosZero \in Keys /\ Less(NegZero, PosZero)
  /\ \A a \in Keys : Less(a, PosZero) => a = NegZero \/ Less(a, NegZero)
  /\ \A w \in Rows : Legal(w)

\* _indexer_topk: a length never exceeds the scores it counts.
ClampedLen(seqLen, width) ==
  IF seqLen < 0 THEN 0 ELSE IF seqLen > width THEN width ELSE seqLen

VARIABLES
  row,       \* the row at hand; it does not change
  pc,        \* between two barriers of the block
  round,     \* 0: the half-precision bins; r: digit r of the keys
  remain,    \* remain_topk
  bin,       \* s_threshold_bin_id
  input,     \* s_input_idx[r_idx]: what this pass looks at
  todo,      \* of it, what no thread has looked at yet
  staged,    \* s_input_idx[r_idx ^ 1]
  count,     \* s_num_input[r_idx ^ 1]
  taken,     \* s_counter
  ties,      \* s_last_remain
  selected,  \* the slots: an entry, or NoItem where none was written
  out        \* what the row returns
vars == <<row, pc, round, remain, bin, input, todo, staged, count, taken, ties, selected, out>>

NoItem == -1
NoOutput == [valid |-> FALSE, raw |-> {}, page |-> {}, full |-> {}, len |-> 0]
Entries == Items(row)
Digit(i) == IF round = 0 THEN Coarse[row.key[i]] ELSE row.key[i][round]
Above(t) == {i \in input : Digit(i) > t}
AtBin(t) == {i \in input : Digit(i) = t}
Placed == {selected[s] : s \in Slots} \ {NoItem}

-------------------------------------------------------------------------------
(* The canonical order: the larger score first, and of equal scores the     *)
(* smaller index.                                                           *)

Canonical(k) == IF k = NegZero THEN PosZero ELSE k
Score(w, i) == Canonical(w.key[i])
Before(w, i, j) ==
  Less(Score(w, j), Score(w, i)) \/ (Score(w, i) = Score(w, j) /\ i < j)

Greater(w, k) == {i \in Items(w) : Less(k, Score(w, i))}
Equal(w, k) == {i \in Items(w) : Score(w, i) = k}
Ordinal(w, i) == Cardinality({j \in Equal(w, Score(w, i)) : j < i})
Need(w, k) == K - Cardinality(Greater(w, k))
Chosen(w, k) == Greater(w, k) \cup {i \in Equal(w, k) : Ordinal(w, i) < Need(w, k)}

\* The checks of canonical_topk: the counts of its two scans fit the slots.
CountsFit(w, k) ==
  /\ Cardinality(Greater(w, k)) <= K
  /\ Cardinality(Equal(w, k)) >= Need(w, k)
  /\ Cardinality(Chosen(w, k)) = K

\* The least score of the provisional choice; an empty slot counts as the largest.
Threshold ==
  CHOOSE k \in {Score(row, i) : i \in Placed} :
     \A i \in Placed : ~Less(Score(row, i), k)

\* What the bitonic network leaves: slot s holds the entry with s others before it.
Rank(w, c, i) == Cardinality({j \in c : Before(w, j, i)})
Ordered(w, c) ==
  [s \in Slots |-> IF \E i \in c : Rank(w, c, i) = s
                   THEN CHOOSE i \in c : Rank(w, c, i) = s ELSE NoItem]

PageIndex(w, i) == w.pages[i \div PageSize] * PageSize + (i % PageSize)
Output(w, raw) ==
  LET page == [s \in Slots |-> IF raw[s] >= 0 THEN PageIndex(w, raw[s]) ELSE -1]
  IN  [valid |-> TRUE, raw |-> raw, page |-> page,
       full |-> [s \in Slots |-> IF page[s] >= 0 THEN page[s] * Ratio + (Ratio - 1) ELSE -1],
       len |-> IF w.len < K THEN w.len ELSE K]
Rejected ==
  LET none == [s \in Slots |-> NoItem]
  IN  [valid |-> FALSE, raw |-> none, page |-> none, full |-> none, len |-> -1]

-------------------------------------------------------------------------------
(* radix_topk.                                                              *)

Init ==
  /\ row \in Rows /\ pc = "start" /\ out = NoOutput
  /\ round = 0 /\ remain = K /\ bin = 0 /\ count = 0 /\ taken = 0 /\ ties = 0
  /\ input = {} /\ todo = {} /\ staged = {}
  /\ selected = [s \in Slots |-> NoItem]

Finish(o) == out' = o /\ pc' = "done"

\* canonical_topk: scores that are not finite, then rows that fit whole.
Start ==
  /\ pc = "start"
  /\ \/ row.bad # {} /\ Finish(Rejected) /\ UNCHANGED input
     \/ row.bad = {} /\ row.len <= K /\ Finish(Output(row, Ordered(row, Entries)))
        /\ UNCHANGED input
     \/ row.bad = {} /\ row.len > K /\ pc' = "find" /\ input' = Entries /\ UNCHANGED out
  /\ UNCHANGED <<row, round, remain, bin, todo, staged, count, taken, ties, selected>>

\* The cumulative histogram of what the pass looks at, and the bin at which
\* it passes what remains; if there is none the variable keeps its value.
Crosses(t) ==
  /\ Cardinality(Above(t)) <= remain
  /\ Cardinality(Above(t)) + Cardinality(AtBin(t)) > remain

FindBin ==
  /\ pc = "find" /\ pc' = "place"
  /\ \/ \E t \in 0 .. Radix - 1 :
          /\ Crosses(t)
          /\ bin' = t /\ count' = 0 /\ staged' = {}
          /\ ties' = remain - Cardinality(Above(t))
          /\ remain' = remain - Cardinality(Above(t))
     \/ /\ ~\E t \in 0 .. Radix - 1 : Crosses(t)
        /\ remain' = remain - Cardinality(Above(bin))
        /\ UNCHANGED <<bin, count, staged, ties>>
  /\ todo' = input
  /\ UNCHANGED <<row, round, input, taken, selected, out>>

Look(i) == pc = "place" /\ i \in todo /\ todo' = todo \ {i}

\* output[atomicAdd(&s_counter, 1)] = idx
PlaceGreater(i) ==
  /\ Look(i) /\ Digit(i) > bin
  /\ selected' = [selected EXCEPT ![taken] = i] /\ taken' = taken + 1
  /\ UNCHANGED <<row, pc, round, remain, bin, input, staged, count, ties, out>>

\* An entry of the bin goes on to the next digit, if there is room for it.
Stage(i) ==
  /\ Look(i) /\ Digit(i) = bin /\ remain # 0 /\ round < Rounds
  /\ count' = count + 1
  /\ staged' = IF count < Staging THEN staged \cup {i} ELSE staged
  /\ UNCHANGED <<row, pc, round, remain, bin, input, taken, ties, selected, out>>

\* After the last digit the entries of the bin are equal; the first to come
\* fill the slots from the end of the row's.
PlaceTie(i) ==
  /\ Look(i) /\ Digit(i) = bin /\ remain # 0 /\ round = Rounds
  /\ ties' = ties - 1
  /\ selected' = IF ties > 0 THEN [selected EXCEPT ![K - ties] = i] ELSE selected
  /\ UNCHANGED <<row, pc, round, remain, bin, input, staged, count, taken, out>>

Pass(i) ==
  /\ Look(i) /\ (Digit(i) < bin \/ (Digit(i) = bin /\ remain = 0))
  /\ UNCHANGED <<row, pc, round, remain, bin, input, staged, count, taken, ties, selected, out>>

EndPass ==
  /\ pc = "place" /\ todo = {}
  /\ IF remain = 0 \/ round = Rounds
     THEN pc' = "choose" /\ UNCHANGED <<round, input>>
     ELSE pc' = "find" /\ round' = round + 1 /\ input' = staged
  /\ UNCHANGED <<row, remain, bin, todo, staged, count, taken, ties, selected, out>>

-------------------------------------------------------------------------------
(* The rest of canonical_topk.                                              *)

Choose ==
  /\ pc = "choose"
  /\ Finish(IF CountsFit(row, Threshold)
            THEN Output(row, Ordered(row, Chosen(row, Threshold))) ELSE Rejected)
  /\ UNCHANGED <<row, round, remain, bin, input, todo, staged, count, taken, ties, selected>>

Next ==
  \/ Start \/ FindBin \/ EndPass \/ Choose
  \/ \E i \in todo : PlaceGreater(i) \/ Stage(i) \/ PlaceTie(i) \/ Pass(i)

Done == pc = "done" /\ UNCHANGED vars
Spec == Init /\ [][Next \/ Done]_vars

-------------------------------------------------------------------------------
(* Properties.                                                              *)

(* The reference of tests/kernel/test_dsv4_topk_deterministic.py: a row is   *)
(* rejected only for a score that is not finite.                            *)
FiniteRowsAreSelected == pc = "done" /\ row.bad = {} => out.valid

(* What a valid row returns is the best of its entries, each before the     *)
(* lesser ones, whatever order the threads ran in: no entry that was left   *)
(* out comes before one that was taken, and no slot that could be filled is *)
(* empty.                                                                   *)
SelectionIsExact ==
  pc = "done" /\ out.valid =>
    LET best == {out.raw[s] : s \in 0 .. out.len - 1}
    IN  /\ best \subseteq Entries /\ Cardinality(best) = out.len
        /\ \A i \in best, j \in Entries \ best : Before(row, i, j)
        /\ \A s, t \in 0 .. out.len - 1 : s < t => Before(row, out.raw[s], out.raw[t])
        /\ \A s \in out.len .. K - 1 : out.raw[s] = NoItem

(* The threshold is read from slots that this row wrote: the counters fill  *)
(* every slot once, and none outside, although the head of the slots is     *)
(* filled from one counter and their tail from another.                     *)
SlotsAreFilled ==
  /\ taken \in 0 .. K
  /\ pc = "choose" => /\ \A s \in Slots : selected[s] \in Entries
                      /\ \A s, t \in Slots : selected[s] = selected[t] => s = t

\* As long as the row, or its fullest bin, fits the staging buffer.
FittingRowsAreSelected == row.len <= Staging => FiniteRowsAreSelected
===============================================================================
