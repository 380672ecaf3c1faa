----------------------------- MODULE Compressor -----------------------------
(***************************************************************************)
(* The state that the online compressor of DeepSeek V4 carries between     *)
(* forwards.  A C4 layer reduces every group of ShortRatio tokens,         *)
(* together with the group before it, to one entry; a C128 layer reduces   *)
(* groups of LongRatio.  A group may begin in one forward and end in       *)
(* another: its rows wait in a ring that belongs to the request's table    *)
(* row, and is not cleared for the next owner.  A request that starts from *)
(* cached pages has no ring yet; the last rows of a complete page are kept *)
(* with the page, as its checkpoint.                                       *)
(*                                                                         *)
(* What a layer projects for a token depends on all tokens up to it, so    *)
(* the projected row of a token is that prefix.  A pooled entry is the     *)
(* sequence of the rows it was reduced from: the position in the sequence  *)
(* says which half (left, right) and which row of `ape` went with each.    *)
(* Attention and indexer compressors run the same code on their own state; *)
(* one of them is modelled.                                                *)
(***************************************************************************)
EXTENDS Integers, FiniteSets, Sequences, Functions

CONSTANTS
  Users,      \* requests
  TableRows,  \* rows of the request table; padding has a row of its own
  Pages,      \* component pages
  Text,       \* what each request forwards: its prompt, then its answer
  Input,      \* how many of these tokens are the prompt
  ShortRatio, \* 4
  LongRatio,  \* 128
  PageLength,
  MaxRows     \* bound: tokens in one forward

Tokens == UNION {Range(Text[u]) : u \in Users}

ASSUME CompressorAssumption ==
  /\ MaxRows \in Nat
  /\ ShortRatio \in Nat \ {0} /\ LongRatio \in Nat \ {0} /\ PageLength \in Nat \ {0}
  /\ PageLength % ShortRatio = 0 /\ PageLength % LongRatio = 0
  /\ \A u \in Users : Text[u] \in Seq(Tokens) /\ Input[u] \in 1 .. Len(Text[u])

VARIABLES
  phase,      \* "waiting", "running" or "gone"
  slot,       \* Req.table_idx of a running request
  done,       \* its tokens that have been forwarded or came from the prefix cache
  pages,      \* its component pages, in order
  free,       \* the component pages that are free
  prefix,     \* of a page in the prefix cache: the text that it ends
  first,      \* offset of a request's rows in the batch that is being prepared
  count,      \* its rows in that batch
  total,      \* rows of that batch
  ring,       \* C4 sequence state: slot -> position % (2 * ShortRatio) -> row
  carry,      \* C128 state: slot -> position % LongRatio -> row with its bias
  checkpoint, \* page -> position % ShortRatio -> row
  short,      \* C4 entries: page -> index -> rows
  long        \* C128 entries: page -> index -> rows with their bias

reqVars == <<phase, slot, done, pages>>
cacheVars == <<free, prefix>>
batchVars == <<first, count, total>>
gpuVars == <<ring, carry, checkpoint, short, long>>
compressorVars == <<reqVars, cacheVars, batchVars, gpuVars>>

NoSlot == "none"
NotCached == <<>>
\* What is not a row has the form of one.
Stale == <<"uninitialised">>   \* torch.empty
Torn == <<"torn">>             \* two programs of one launch stored here
Nothing == <<"masked">>        \* a score of -inf

-------------------------------------------------------------------------------
Projected(u, p) == SubSeq(Text[u], 1, p + 1)
Running == {u \in Users : phase[u] = "running"}
Cached == {g \in Pages : prefix[g] # NotCached}
PageText(u, i) == Projected(u, i * PageLength - 1)
CeilDiv(a, b) == (a + b - 1) \div b

CompressorInit ==
  /\ phase = [u \in Users |-> "waiting"]
  /\ slot = [u \in Users |-> NoSlot]
  /\ done = [u \in Users |-> 0] /\ pages = [u \in Users |-> <<>>]
  /\ free = Pages
  /\ prefix = [g \in Pages |-> NotCached]
  /\ first = [u \in Users |-> 0] /\ count = [u \in Users |-> 0] /\ total = 0
  /\ ring = [s \in TableRows |-> [m \in 0 .. 2 * ShortRatio - 1 |-> Stale]]
  /\ carry = [s \in TableRows |-> [m \in 0 .. LongRatio - 1 |-> Stale]]
  /\ checkpoint = [g \in Pages |-> [m \in 0 .. ShortRatio - 1 |-> Stale]]
  /\ short = [g \in Pages |-> [e \in 0 .. PageLength \div ShortRatio - 1 |-> Stale]]
  /\ long = [g \in Pages |-> [e \in 0 .. PageLength \div LongRatio - 1 |-> Stale]]

-------------------------------------------------------------------------------
(* The prefix cache: which page it holds for the i-th page of a text.          *)

HasPage(u, i) == \E g \in Cached : prefix[g] = PageText(u, i)
PageFor(u, i) == CHOOSE g \in Cached : prefix[g] = PageText(u, i)
Matches(u) == {n \in 0 .. (Input[u] - 1) \div PageLength : \A i \in 1 .. n : HasPage(u, i)}

(* match_req and acquire_sequence_slot, which takes the state as it is.  The  *)
(* match stops earlier where a window has been released.                     *)
Admit(u) ==
  /\ phase[u] = "waiting" /\ total = 0
  /\ \E s \in TableRows \ {slot[v] : v \in Running} : slot' = [slot EXCEPT ![u] = s]
  /\ \E n \in Matches(u) :
       /\ done' = [done EXCEPT ![u] = PageLength * n]
       /\ pages' = [pages EXCEPT ![u] = [i \in 1 .. n |-> PageFor(u, i)]]
  /\ phase' = [phase EXCEPT ![u] = "running"]
  /\ UNCHANGED <<cacheVars, batchVars, gpuVars>>

(* cache_req: complete pages enter the cache, and where it has one with the   *)
(* same text the request goes on with that one and its own page is freed.     *)
Complete(u) == 1 .. done[u] \div PageLength
Inserted(u) == [i \in DOMAIN pages[u] |->
                 IF i \in Complete(u) /\ HasPage(u, i) THEN PageFor(u, i) ELSE pages[u][i]]
Labelled(u) ==
  [g \in Pages |-> IF \E i \in Complete(u) : Inserted(u)[i] = g
                   THEN PageText(u, CHOOSE i \in Complete(u) : Inserted(u)[i] = g)
                   ELSE prefix[g]]
Replaced(u) == Range(pages[u]) \ Range(Inserted(u))
TailPages(u) == {pages[u][i] : i \in DOMAIN pages[u] \ Complete(u)}

(* When the forward that ended the prompt is processed, which may be after    *)
(* the first decodes have been issued.                                        *)
CachePrompt(u) ==
  /\ phase[u] = "running" /\ total = 0 /\ done[u] >= Input[u]
  /\ pages' = [pages EXCEPT ![u] = Inserted(u)]
  /\ prefix' = Labelled(u)
  /\ free' = free \cup Replaced(u)
  /\ UNCHANGED <<phase, slot, done, batchVars, gpuVars>>

(* The end of a request, or an abort: the tail goes with it.                  *)
Retire(u) ==
  /\ phase[u] = "running" /\ total = 0
  /\ phase' = [phase EXCEPT ![u] = "gone"]
  /\ slot' = [slot EXCEPT ![u] = NoSlot]
  /\ done' = [done EXCEPT ![u] = 0]
  /\ pages' = [pages EXCEPT ![u] = <<>>]
  /\ prefix' = Labelled(u)
  /\ free' = free \cup Replaced(u) \cup TailPages(u)
  /\ UNCHANGED <<batchVars, gpuVars>>

Locked(g) == \E u \in Running : g \in Range(pages[u])
BeginsWith(t, s) == Len(s) <= Len(t) /\ SubSeq(t, 1, Len(s)) = s
IsLeaf(g) == \A h \in Cached \ {g} : ~BeginsWith(prefix[h], prefix[g])

Evict(g) ==
  /\ g \in Cached /\ ~Locked(g) /\ IsLeaf(g)
  /\ prefix' = [prefix EXCEPT ![g] = NotCached]
  /\ free' = free \cup {g}
  /\ UNCHANGED <<reqVars, batchVars, gpuVars>>

-------------------------------------------------------------------------------
(* A batch is prepared one request after the other.  It is prefill chunks or   *)
(* decodes; the pages of its rows are taken from the free ones.               *)
Prefilling(u) == done[u] < Input[u]
Room(u) == IF Prefilling(u) THEN Input[u] - done[u]
           ELSE IF done[u] < Len(Text[u]) THEN 1 ELSE 0
NewPages(u, n) == CeilDiv(done[u] + n, PageLength) - Len(pages[u])

Join(u) ==
  /\ phase[u] = "running" /\ count[u] = 0
  /\ \A v \in Users : count[v] > 0 => (Prefilling(v) <=> Prefilling(u))
  /\ \E n \in 1 .. Room(u) :
       /\ total + n <= MaxRows
       /\ \E new \in Injection(1 .. NewPages(u, n), free) :
            /\ pages' = [pages EXCEPT ![u] = @ \o new]
            /\ free' = free \ Range(new)
       /\ first' = [first EXCEPT ![u] = total]
       /\ count' = [count EXCEPT ![u] = n]
       /\ total' = total + n
  /\ UNCHANGED <<phase, slot, done, prefix, gpuVars>>

-------------------------------------------------------------------------------
(* The forward of a batch: a row has the table row and the pages of its       *)
(* request.  An operator below is what one program of a launch computes.      *)

Owner(r) == CHOOSE u \in Users : first[u] < r /\ r <= first[u] + count[u]
RowAt(r) == LET u == Owner(r) IN
  [user |-> u, table |-> slot[u], pos |-> done[u] + r - first[u] - 1, pages |-> pages[u]]
BatchRows == [r \in 1 .. total |-> RowAt(r)]

ComponentPage(row, q) == row.pages[q \div PageLength + 1]

(* A source row d tokens back is in this forward.                             *)
InForward(rows, r, d) ==
  /\ r - d >= 1
  /\ rows[r - d].table = rows[r].table
  /\ rows[r - d].pos = rows[r].pos - d

\* Mutant: all carried rows come from the ring.
NeverFromCheckpoint(i, p, q) == FALSE
(* The older half of a page's first group is in the page before.              *)
FromCheckpoint(i, p, q) == i < ShortRatio /\ q \div PageLength # p \div PageLength

(* The i-th row of the entry that ends with row r of the forward.             *)
ShortSource(rows, r, i) ==
  LET d == 2 * ShortRatio - 1 - i
      p == rows[r].pos
      q == p - d
  IN  IF q < 0 THEN Nothing
      ELSE IF InForward(rows, r, d) THEN Projected(rows[r].user, q)
      ELSE IF FromCheckpoint(i, p, q) THEN checkpoint[ComponentPage(rows[r], q)][q % ShortRatio]
      ELSE ring[rows[r].table][q % (2 * ShortRatio)]

ShortPooled(rows, r) == [i \in 0 .. 2 * ShortRatio - 1 |-> ShortSource(rows, r, i)]

(* The bias is added here to a row of this forward; a carried row has it.     *)
LongSource(rows, r, i) ==
  LET d == LongRatio - 1 - i
  IN  IF InForward(rows, r, d)
      THEN <<Projected(rows[r].user, rows[r].pos - d), i>>
      ELSE carry[rows[r].table][i]

LongPooled(rows, r) == [i \in 0 .. LongRatio - 1 |-> LongSource(rows, r, i)]

\* Mutant: a row is stored although a later one goes to the same place.
NeverShadowed(rows, r, size) == FALSE
(* A later row of this forward goes to the same place of the state.           *)
Shadowed(rows, r, size) ==
  /\ r + size <= Len(rows)
  /\ rows[r + size].table = rows[r].table
  /\ rows[r + size].pos = rows[r].pos + size

(* What a location holds after these rows have been stored there: stored is   *)
(* a function on the rows.                                                    *)
After(old, stored) ==
  CASE DOMAIN stored = {} -> old
    [] Cardinality(DOMAIN stored) = 1 -> stored[CHOOSE r \in DOMAIN stored : TRUE]
    [] OTHER -> Torn

Writers(rows, s, m, size) ==
  {r \in DOMAIN rows : rows[r].table = s /\ rows[r].pos % size = m /\ ~Shadowed(rows, r, size)}

StoreRing(rows) ==
  ring' = [s \in TableRows |-> [m \in 0 .. 2 * ShortRatio - 1 |->
             After(ring[s][m], [r \in Writers(rows, s, m, 2 * ShortRatio) |->
                                  Projected(rows[r].user, rows[r].pos)])]]

StoreCarry(rows) ==
  carry' = [s \in TableRows |-> [m \in 0 .. LongRatio - 1 |->
              After(carry[s][m], [r \in Writers(rows, s, m, LongRatio) |->
                                    <<Projected(rows[r].user, rows[r].pos), m>>])]]

(* Only the last rows of a page are kept.                                     *)
Kept(rows, g, m) ==
  {r \in DOMAIN rows : /\ ComponentPage(rows[r], rows[r].pos) = g
                       /\ rows[r].pos % PageLength = PageLength - ShortRatio + m}

StoreCheckpoint(rows) ==
  checkpoint' = [g \in Pages |-> [m \in 0 .. ShortRatio - 1 |->
    After(checkpoint[g][m], [r \in Kept(rows, g, m) |-> Projected(rows[r].user, rows[r].pos)])]]

(* store_compressed: an entry goes to the page of its last row.               *)
Ends(rows, g, e, size) ==
  {r \in DOMAIN rows : /\ (rows[r].pos + 1) % size = 0
                       /\ ComponentPage(rows[r], rows[r].pos) = g
                       /\ (rows[r].pos \div size) % (PageLength \div size) = e}

PublishEntries(rows) ==
  /\ short' = [g \in Pages |-> [e \in DOMAIN short[g] |->
                 After(short[g][e], [r \in Ends(rows, g, e, ShortRatio) |-> ShortPooled(rows, r)])]]
  /\ long' = [g \in Pages |-> [e \in DOMAIN long[g] |->
                After(long[g][e], [r \in Ends(rows, g, e, LongRatio) |-> LongPooled(rows, r)])]]

Forward ==
  /\ total > 0
  /\ LET rows == BatchRows
     IN  StoreRing(rows) /\ StoreCarry(rows) /\ StoreCheckpoint(rows) /\ PublishEntries(rows)
  /\ done' = [u \in Users |-> done[u] + count[u]]
  /\ first' = [u \in Users |-> 0] /\ count' = [u \in Users |-> 0] /\ total' = 0
  /\ UNCHANGED <<phase, slot, pages, cacheVars>>

Quiescent == (\A u \in Users : phase[u] = "gone") /\ UNCHANGED compressorVars

CompressorNext ==
  \/ \E u \in Users : Admit(u) \/ CachePrompt(u) \/ Retire(u) \/ Join(u)
  \/ \E g \in Pages : Evict(g)
  \/ Forward
  \/ Quiescent

CompressorSpec == CompressorInit /\ [][CompressorNext]_compressorVars

-------------------------------------------------------------------------------
(* The entries of the reference: what a compressor computes that sees the     *)
(* whole text at once.                                                        *)
ReferenceShort(u, p) ==
  [i \in 0 .. 2 * ShortRatio - 1 |->
     LET q == p - (2 * ShortRatio - 1 - i) IN IF q < 0 THEN Nothing ELSE Projected(u, q)]
ReferenceLong(u, p) ==
  [i \in 0 .. LongRatio - 1 |-> <<Projected(u, p - (LongRatio - 1 - i)), i>>]

(* Every compressed entry of a running request, wherever its forwards were    *)
(* cut, whoever had its table row before and whoever wrote the pages it       *)
(* shares, is the one of the reference.  It is what the poison tests of the   *)
(* C4 checkpoint (deepseek_v4_c4_compact_checkpoint_proof.py) sample: no row  *)
(* of another request, of another position or of uninitialised state.        *)
EntriesAreExact ==
  \A u \in Running : \A p \in 0 .. done[u] - 1 :
    LET g == pages[u][p \div PageLength + 1]
    IN  /\ (p + 1) % ShortRatio = 0 =>
             short[g][(p \div ShortRatio) % (PageLength \div ShortRatio)] = ReferenceShort(u, p)
        /\ (p + 1) % LongRatio = 0 =>
             long[g][(p \div LongRatio) % (PageLength \div LongRatio)] = ReferenceLong(u, p)
===============================================================================
