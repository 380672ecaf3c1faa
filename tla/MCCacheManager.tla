--------------------------- MODULE MCCacheManager ---------------------------
(* Instances of CacheManager for TLC. *)
EXTENDS CacheManager

\* A long prompt; a shorter one that is a prefix of it; one that parts from both
\* after the first page; and one that nobody shares.
Long    == [text |-> <<"a", "b", "c", "d">>, input |-> 7, output |-> 1]
Short   == [text |-> <<"a", "b", "c">>, input |-> 2, output |-> 3]
Other   == [text |-> <<"a", "d", "e">>, input |-> 5, output |-> 2]
Private == [text |-> <<"p", "q", "r">>, input |-> 3, output |-> 4]

\* Requests are interchangeable: one workload for each choice of three kinds.
Users == 1..3
Sorted ==
  LET k == <<Long, Short, Other, Private>>
  IN  UNION {UNION {{<<k[i], k[j], k[l]>> : l \in j..4} : j \in i..4} : i \in 1..4}
===============================================================================
