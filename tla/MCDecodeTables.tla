--------------------------- MODULE MCDecodeTables ---------------------------
(* An instance of DecodeTables for TLC. *)
EXTENDS DecodeTables, GraphPolicy

Users == 1 .. 3
Rows == 1 .. 2

\* --cuda-graph-max-bs 1: a decode of two rows is eager.
GraphSizes == Resolved([bs |-> Unset, maxBs |-> 1, running |-> 2, disabled |-> FALSE,
                        defaults |-> {1, 2, 4, 8}, legacyMax |-> 0])

\* A prompt, one that is a prefix of it, and one that parts from both.
Long  == [text |-> <<"a", "b", "c">>, input |-> 4, output |-> 2]
Short == [text |-> <<"a", "b", "c">>, input |-> 3, output |-> 3]
Other == [text |-> <<"a", "d", "e">>, input |-> 3, output |-> 2]
Loads == {<<Long, Short, Other>>, <<Long, Long, Other>>, <<Short, Other, Other>>}
===============================================================================
