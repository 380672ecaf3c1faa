----------------------------- MODULE GraphRunner -----------------------------
(***************************************************************************)
(* The CUDA graphs of the decode forwards (engine/graph.py) and the two    *)
(* sets of surfaces they have been recorded over, one per context class    *)
(* (attention/deepseek_v4.py).  All graphs share one input buffer; those   *)
(* of a class share its surfaces.  Nothing is cleared between forwards, so *)
(* a replay works on its own batch only if every row it reads has been     *)
(* written for this batch, in the surfaces of the class it was recorded    *)
(* over.                                                                    *)
(*                                                                         *)
(* Whether a batch is replayed is decided three times: when it is padded,  *)
(* when its metadata is prepared, and when it is launched.                 *)
(***************************************************************************)
EXTENDS RuntimeConfig

CONSTANTS
  Buckets,       \* resolved_graph_bs
  ModelLimit,    \* model_context_limit: the aligned max_seq_len
  Batches,       \* what the scheduler may launch (LegalBatch)
  Dummy,         \* the row of dummy_req
  Blank,         \* what a buffer holds before it is written
  InGraph,       \* the device, the page size and the layers allow that the
                 \* metadata is prepared inside the graph
  None

Classes == {"short", "wide"}
Cells(n) == 0 .. n - 1
MaxGraphBs == Largest(Buckets)

(* A batch: decode or prefill, its size, and for each request the row it is   *)
(* (token, location, position, tables, state) and its length, device_len.      *)
LegalBatch(b) ==
  /\ b.decode \in BOOLEAN /\ b.size \in Nat \ {0}
  /\ DOMAIN b.row = Cells(b.size)
  /\ b.len \in [Cells(b.size) -> Nat]

WidthOf(class) ==
  IF class = "short" THEN Lesser(Larger(ShortWidth(ModelLimit), 1), Larger(ModelLimit, 1))
  ELSE ModelLimit
Fits(b, class) == \A i \in Cells(b.size) : b.len[i] <= WidthOf(class)

\* _context_class_for_batch, can_use_cuda_graph, and the choice of pad_batch
ClassOf(b) == IF Fits(b, "short") THEN "short" ELSE IF Fits(b, "wide") THEN "wide" ELSE None
SupportsShape(b) == b.decode /\ b.size <= MaxGraphBs
CanUseGraph(b) == SupportsShape(b) /\ ClassOf(b) # None
Bucket(n) == CHOOSE k \in Buckets : n <= k /\ \A j \in Buckets : n <= j => k <= j
PaddedSize(b) == IF CanUseGraph(b) THEN Bucket(b.size) ELSE b.size

VARIABLES
  stage,      \* "start", "capturing", "serving" or "failed": an error was raised
  todo,       \* the keys that are still to be captured
  graphs,     \* graph_map: by key, the rows of a graph and the class of its surfaces
  selected,   \* capture_context_class
  prepares,   \* prep_metadata_in_graph
  input,      \* the rows of the input buffer
  live,       \* num_token_non_padded
  surfaces,   \* for each class, the rows of the tables copied into it
  pending,    \* the batch that has been padded and prepared, or None
  last        \* what the last forward has computed, or None

vars == <<stage, todo, graphs, selected, prepares, input, live, surfaces, pending, last>>

NoGraphs == [k \in {} |-> None]
GraphKeys == [m : Buckets, class : Classes]
BlankRows == [i \in Cells(MaxGraphBs) |-> Blank]

Init ==
  /\ stage = "start" /\ todo = {} /\ graphs = NoGraphs
  /\ selected = None /\ prepares = FALSE
  /\ input = BlankRows /\ live = 0 /\ surfaces = [c \in Classes |-> BlankRows]
  /\ pending = None /\ last = None

(* init_capture_graph_classes and bind_capture_graph_inputs: one capture for   *)
(* each class over the inputs of the buffer, the first one being selected.     *)
Bind == selected' = "short" /\ prepares' = InGraph

(* The start of _capture_graphs up to its loop.  Without buckets nothing is    *)
(* captured, and without metadata in the graph nothing can be.                 *)
InitCapture ==
  /\ stage = "start"
  /\ todo' = GraphKeys
  /\ IF Buckets = {}
     THEN stage' = "serving" /\ UNCHANGED <<selected, prepares>>
     ELSE Bind /\ stage' = IF InGraph THEN "capturing" ELSE "failed"
  /\ UNCHANGED <<graphs, input, live, surfaces, pending, last>>

(* One turn of the loop of _capture_graphs: short before wide, the largest    *)
(* bucket first.  The warm-up and the recording run on dummy rows, over the    *)
(* surfaces that are selected.                                                 *)
Precedes(j, k) == IF j.class = k.class THEN j.m > k.m ELSE j.class = "short"

Capture(k) ==
  /\ stage = "capturing" /\ k \in todo
  /\ \A j \in todo : ~Precedes(j, k)
  /\ selected' = k.class
  /\ live' = k.m
  /\ graphs' = [j \in DOMAIN graphs \cup {k} |->
                  IF j = k THEN [rows |-> k.m, over |-> selected'] ELSE graphs[j]]
  /\ todo' = todo \ {k}
  /\ UNCHANGED <<stage, prepares, input, surfaces, pending, last>>

CaptureFails ==
  /\ stage = "capturing" /\ stage' = "failed"
  /\ graphs' = NoGraphs
  /\ UNCHANGED <<todo, selected, prepares, input, live, surfaces, pending, last>>

(* _finalize_graph_memory_ledger: the graphs are kept unless the capture took  *)
(* more than was planned.                                                      *)
Finalize ==
  /\ stage = "capturing" /\ todo = {}
  /\ \/ stage' = "serving" /\ UNCHANGED graphs
     \/ stage' = "failed" /\ graphs' = NoGraphs
  /\ UNCHANGED <<todo, selected, prepares, input, live, surfaces, pending, last>>

(* _prepare_batch: pad_batch, then prepare_metadata, which selects a class     *)
(* and prepares raw metadata for a batch that it takes for a replay.           *)
Prepare(b) ==
  /\ stage = "serving" /\ pending = None
  /\ LET asks == prepares /\ b.decode /\ ClassOf(b) # None
         padded == PaddedSize(b)
     IN  /\ selected' = IF asks THEN ClassOf(b) ELSE selected
         /\ pending' = [batch |-> b, class |-> ClassOf(b), padded |-> padded,
                        raw |-> asks /\ padded \in Buckets /\ Fits(b, selected'),
                        row |-> [i \in Cells(padded) |-> IF i < b.size THEN b.row[i] ELSE Dummy]]
  /\ UNCHANGED <<stage, todo, graphs, prepares, input, live, surfaces, last>>

\* A slice that is copied into the first rows of a buffer.
Over(buffer, rows, n) == [i \in DOMAIN buffer |-> IF i < n THEN rows[i] ELSE buffer[i]]

\* prepare_for_replay: the raw metadata of a batch goes into the surfaces of its class.
PrepareForReplay(class, rows, n) ==
  /\ selected' = class
  /\ surfaces' = [surfaces EXCEPT ![class] = Over(@, rows, n)]

KeyOf(p) == [m |-> p.padded, class |-> ClassOf(p.batch)]

(* _replay_to_buffer: copy the inputs, look the graph up, copy the metadata    *)
(* into the surfaces of the class, and replay.                                 *)
Replay ==
  /\ pending # None /\ CanUseGraph(pending.batch)
  /\ KeyOf(pending) \in DOMAIN graphs /\ pending.raw /\ Fits(pending.batch, pending.class)
  /\ LET n == pending.padded
         g == graphs[KeyOf(pending)]
     IN  /\ input' = Over(input, pending.row, n)
         /\ live' = pending.batch.size
         /\ PrepareForReplay(pending.class, pending.row, n)
         /\ last' = [batch |-> pending.batch, mode |-> "graph", live |-> live',
                     row |-> [i \in Cells(g.rows) |->
                                [input |-> input'[i], tables |-> surfaces'[g.over][i]]]]
  /\ pending' = None
  /\ UNCHANGED <<stage, todo, graphs, prepares>>

(* A prefill, or a decode without a graph.  Raw metadata has no surfaces that  *)
(* an eager forward could read.                                                *)
Eager ==
  /\ pending # None /\ ~CanUseGraph(pending.batch) /\ ~pending.raw
  /\ last' = [batch |-> pending.batch, mode |-> "eager", live |-> pending.batch.size,
              row |-> [i \in DOMAIN pending.row |->
                         [input |-> pending.row[i], tables |-> pending.row[i]]]]
  /\ pending' = None
  /\ UNCHANGED <<stage, todo, graphs, selected, prepares, input, live, surfaces>>

(* The errors of a launch: no graph of this key, metadata of the wrong kind,   *)
(* or wider than the class.                                                    *)
LaunchFails ==
  /\ pending # None
  /\ IF CanUseGraph(pending.batch)
     THEN \/ KeyOf(pending) \notin DOMAIN graphs
          \/ ~pending.raw
          \/ ~Fits(pending.batch, pending.class)
     ELSE pending.raw
  /\ stage' = "failed" /\ pending' = None
  /\ UNCHANGED <<todo, graphs, selected, prepares, input, live, surfaces, last>>

Next ==
  \/ InitCapture \/ CaptureFails \/ Finalize
  \/ \E k \in GraphKeys : Capture(k)
  \/ \E b \in Batches : Prepare(b)
  \/ Replay \/ Eager \/ LaunchFails

Spec == Init /\ [][Next]_vars

-------------------------------------------------------------------------------
(* A forward has computed the rows of its own batch: every row it read, in    *)
(* the inputs and in the tables, was written for this batch, whichever graphs *)
(* of whichever class and size ran before; the rows that pad it are dummies,  *)
(* which store nothing over the entries of a request.                         *)
ComputesItsBatch ==
  last # None =>
    /\ last.live = last.batch.size
    /\ Cells(last.batch.size) \subseteq DOMAIN last.row
    /\ \A i \in DOMAIN last.row :
         LET own == IF i < last.batch.size THEN last.batch.row[i] ELSE Dummy
         IN  last.row[i] = [input |-> own, tables |-> own]

(* Once the engine serves, no forward fails for want of a graph or for        *)
(* metadata of the wrong kind: the three decisions always agree.              *)
LaunchesSucceed == [][stage = "serving" => stage' = "serving"]_vars

(* What the theorems assume of the configuration and of the batches.          *)
RunnerOK ==
  /\ Buckets \subseteq Nat \ {0}
  /\ ModelLimit \in Nat \ {0} /\ ContextCap \in Nat \ {0}
  /\ InGraph \in BOOLEAN
  /\ None \notin Classes
  /\ \A b \in Batches : LegalBatch(b)
==============================================================================
