---------------------------- MODULE MCCompressor ----------------------------
(* An instance of Compressor for TLC. *)
EXTENDS Compressor, TLC

PlaceSymmetry == Permutations(TableRows) \cup Permutations(Pages)

\* A text, one with the same first page, and the first once more.
Texts == <<<<"a", "b", "c", "d", "e", "f">>,
           <<"a", "b", "c", "d", "u", "v", "x", "y", "z">>,
           <<"a", "b", "c", "d", "e", "f">>>>
Inputs == <<5, 9, 6>>
===============================================================================
