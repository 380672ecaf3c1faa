---------------------------- MODULE SparseAttention ----------------------------
(***************************************************************************)
(* The sparse attention of one row and head over its two sources: the      *)
(* compressed entries and the sliding window.  There are two kernels: one  *)
(* for forwards with more than one token a request, which goes through the *)
(* columns once with an online softmax, and one for decodes, which gathers *)
(* the columns, lets several programs each take a part in blocks, and      *)
(* combines their parts.                                                   *)
(*                                                                         *)
(* A sum of exponentials is kept as its terms, a column with the exponent  *)
(* of its weight; a term vanishes when its weight is too small for the     *)
(* format.  Scores are whole numbers, rounding is left out.  The check of  *)
(* the ownership version before the launch is in DecodeTables.             *)
(***************************************************************************)
EXTENDS Integers

CONSTANTS
  Scores,     \* what q . kv, scaled, and a sink may be
  Low,        \* -FLT_MAX, -1.0e30: no score yet, or none at all
  Far,        \* exp(-x) is zero for a larger x
  BlockN,     \* block_n
  MaxSplits,  \* at most so many programs share a row
  AttentionRows  \* what a row may be (LegalRow)

Kinds == {"compressed", "swa"}

(* A row: for both sources the width of its index table, the length of the  *)
(* row, its indices, the rows of the cache and the score of each; a sink or *)
(* none; and the longest query of the batch.  A row without compressed      *)
(* entries has a width of 0; a length may be negative (a rejected top-k) or *)
(* count indices that are -1 (a length that is clamped to 1).               *)
LegalRow(w) ==
  /\ w.width \in [Kinds -> Nat] /\ w.width["swa"] > 0
  /\ w.len \in [Kinds -> Int] /\ w.cacheRows \in [Kinds -> Nat]
  /\ w.sink \subseteq Scores /\ (\A a, b \in w.sink : a = b) /\ w.maxSeqlenQ \in Nat
  /\ \A k \in Kinds :
       /\ w.len[k] <= w.width[k]
       /\ w.index[k] \in [0 .. w.width[k] - 1 -> Int]
       /\ \A j \in 0 .. w.width[k] - 1 : w.index[k][j] < w.cacheRows[k]
       /\ w.score[k] \in [0 .. w.cacheRows[k] - 1 -> Scores]

\* What the theorems assume of the parameters.
SensibleRows ==
  /\ Scores \subseteq Int /\ Low \in Int /\ Far \in Nat
  /\ \A s \in Scores : Low + Far < s
  /\ BlockN \in Nat \ {0} /\ MaxSplits \in Nat \ {0}
  /\ \A w \in AttentionRows : LegalRow(w)

VARIABLES
  row,       \* the row at hand; it does not change
  pc,        \* which kernel runs
  kind, at,  \* online: the source and the slot it has come to
  peak,      \* online: m
  terms,     \* online: l and acc
  gathered,  \* gathered, invalid_mask
  todo,      \* the slots that are not gathered yet
  part,      \* of each split: its next block, e_max, e_sum and acc
  out        \* the quotient, as its terms above and below
attentionVars == <<row, pc, kind, at, peak, terms, gathered, todo, part, out>>

-------------------------------------------------------------------------------
(* Terms.  A column is its source, its slot and its row in the cache; a     *)
(* lane without a column scores Low, and a sink stands for itself.          *)

Columns ==
  UNION {{<<k, j, row.index[k][j]>> : j \in {i \in 0 .. row.len[k] - 1 : row.index[k][i] >= 0}}
         : k \in Kinds}
Sinks == {<<"sink", s, 0>> : s \in row.sink}
Weight(x) ==
  IF x[1] = "pad" THEN Low ELSE IF x[1] = "sink" THEN x[2] ELSE row.score[x[1]][x[3]]

\* The terms of lanes xs relative to m, and terms after a factor of exp(-d).
Terms(xs, m) == {<<x, Weight(x) - m>> : x \in {y \in xs : Weight(y) - m >= -Far}}
Rescaled(t, d) == {<<u[1], u[2] - d>> : u \in {v \in t : v[2] - d >= -Far}}

\* One step of an online softmax: from terms relative to m to terms relative to p.
Updated(t, m, p, xs) == Rescaled(t, p - m) \cup Terms(xs, p)

\* The largest of m and the scores of lanes xs.
Peaks(m, xs) ==
  {p \in {m} \cup {Weight(x) : x \in xs} : m <= p /\ \A x \in xs : Weight(x) <= p}

\* acc / l, and zero where either is.
Above(t) == {u \in t : u[1][1] \in Kinds}
Quotient(t) == IF Above(t) = {} THEN <<{}, {}>> ELSE <<Above(t), t>>

-------------------------------------------------------------------------------
AttentionInit ==
  /\ row \in AttentionRows /\ pc = "launch" /\ kind = "compressed" /\ at = 0
  /\ peak = Low /\ terms = {} /\ gathered = <<>> /\ todo = {} /\ part = <<>>
  /\ out = <<{}, {}>>

\* _sparse_attention_two_source: which of the kernels.
Slots(w) == 0 .. w.width["compressed"] + w.width["swa"] - 1
Launch ==
  /\ pc = "launch"
  /\ IF row.maxSeqlenQ <= 1
     THEN /\ pc' = "gather" /\ todo' = Slots(row)
          /\ gathered' = [n \in Slots(row) |-> [invalid |-> FALSE, row |-> 0]]
          /\ UNCHANGED <<peak, terms>>
     ELSE /\ pc' = "online"
          /\ peak' \in IF row.sink = {} THEN {Low} ELSE row.sink
          /\ terms' = Terms(Sinks, peak')
          /\ UNCHANGED <<gathered, todo>>
  /\ UNCHANGED <<row, kind, at, part, out>>

(* sparse_attention_kernel: the columns one after the other.                *)
Accumulate ==
  /\ pc = "online" /\ at < row.len[kind] /\ at' = at + 1
  /\ LET x == <<kind, at, row.index[kind][at]>>
     IN  IF x[3] >= 0
         THEN \E m \in Peaks(peak, {x}) :
                peak' = m /\ terms' = Updated(terms, peak, m, {x})
         ELSE UNCHANGED <<peak, terms>>
  /\ UNCHANGED <<row, pc, kind, gathered, todo, part, out>>

NextSource ==
  /\ pc = "online" /\ at >= row.len[kind] /\ kind = "compressed"
  /\ kind' = "swa" /\ at' = 0
  /\ UNCHANGED <<row, pc, peak, terms, gathered, todo, part, out>>

Write ==
  /\ pc = "online" /\ at >= row.len[kind] /\ kind = "swa"
  /\ out' = Quotient(terms) /\ pc' = "done"
  /\ UNCHANGED <<row, kind, at, peak, terms, gathered, todo, part>>

-------------------------------------------------------------------------------
(* sparse_attention_splitk_bf16.                                            *)

CDiv(a, b) == (a + b - 1) \div b
Total(w) == w.width["compressed"] + w.width["swa"]
Splits(w) ==
  LET t == CDiv(Total(w), BlockN) IN IF t > MaxSplits THEN MaxSplits ELSE IF t < 1 THEN 1 ELSE t
Chunk(w) == CDiv(Total(w), Splits(w))
Blocks(w) == CDiv(Chunk(w), BlockN)

Kind(n) == IF n < row.width["compressed"] THEN "compressed" ELSE "swa"
Slot(n) == IF n < row.width["compressed"] THEN n ELSE n - row.width["compressed"]

\* One program for each slot of either source.
Gathered(n) ==
  LET i == row.index[Kind(n)][Slot(n)]
      inRange == i >= 0 /\ i < row.cacheRows[Kind(n)]
  IN  [invalid |-> ~inRange \/ Slot(n) >= row.len[Kind(n)], row |-> IF inRange THEN i ELSE 0]
Gather(n) ==
  /\ pc = "gather" /\ n \in todo /\ todo' = todo \ {n}
  /\ gathered' = [gathered EXCEPT ![n] = Gathered(n)]
  /\ UNCHANGED <<row, pc, kind, at, peak, terms, part, out>>

LaunchSplits ==
  /\ pc = "gather" /\ todo = {} /\ pc' = "split"
  /\ part' = [s \in 0 .. Splits(row) - 1 |-> [block |-> 0, peak |-> Low, terms |-> {}]]
  /\ UNCHANGED <<row, kind, at, peak, terms, gathered, todo, out>>

\* The lanes of a split; those past its end, and invalid ones, have no column.
End(s) ==
  LET e == s * Chunk(row) + Chunk(row) IN IF e < Total(row) THEN e ELSE Total(row)
Lane(s, n) ==
  IF n < End(s) /\ ~gathered[n].invalid
  THEN <<Kind(n), Slot(n), gathered[n].row>> ELSE <<"pad", s, n>>
Lanes(s, b) ==
  {Lane(s, n) : n \in s * Chunk(row) + b * BlockN .. s * Chunk(row) + b * BlockN + BlockN - 1}

Split(s) ==
  /\ pc = "split" /\ part[s].block < Blocks(row)
  /\ LET xs == Lanes(s, part[s].block)
     IN  \E m \in Peaks(part[s].peak, xs) :
           part' = [part EXCEPT ![s] =
             [block |-> part[s].block + 1, peak |-> m,
              terms |-> Updated(part[s].terms, part[s].peak, m, xs)]]
  /\ UNCHANGED <<row, pc, kind, at, peak, terms, gathered, todo, out>>

\* The largest of Low, the peaks of the splits and the sink.
GlobalPeaks ==
  LET ps == {Low} \cup {part[s].peak : s \in DOMAIN part} \cup row.sink
  IN  {p \in ps : \A q \in ps : q <= p}
Combine ==
  /\ pc = "split" /\ \A s \in DOMAIN part : part[s].block = Blocks(row)
  /\ \E m \in GlobalPeaks :
       out' = Quotient((UNION {Rescaled(part[s].terms, m - part[s].peak) : s \in DOMAIN part})
                       \cup Terms(Sinks, m))
  /\ pc' = "done"
  /\ UNCHANGED <<row, kind, at, peak, terms, gathered, todo, part>>

AttentionNext ==
  \/ Launch \/ Accumulate \/ NextSource \/ Write \/ LaunchSplits \/ Combine
  \/ \E n \in todo : Gather(n)
  \/ \E s \in DOMAIN part : Split(s)

Done == pc = "done" /\ UNCHANGED attentionVars
AttentionSpec == AttentionInit /\ [][AttentionNext \/ Done]_attentionVars

-------------------------------------------------------------------------------
(* Properties.                                                              *)

(* Both kernels write the softmax of the scores of exactly the columns that *)
(* the lengths and indices name, each once, with the sink below: however    *)
(* the columns are cut into splits and blocks, wherever there are blocks    *)
(* without a column, and in whichever order the maximum moves.              *)
OutputIsSoftmax ==
  pc = "done" =>
    \E m \in Peaks(Low, Columns \cup Sinks) : out = Quotient(Terms(Columns \cup Sinks, m))

===============================================================================
