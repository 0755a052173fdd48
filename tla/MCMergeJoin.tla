----------------------------- MODULE MCMergeJoin -----------------------------
(* Instances of MergeJoin for TLC.  A stream is the ascending keys of the   *)
(* tuples that one side delivers.                                          *)
EXTENDS MergeJoin

\* One range, both or none used; keys repeated or not; a last key without a range.
MCStreams == {<<>>, <<0, 1>>, <<1, 2, 3>>, <<0, 3, 3>>, <<1, 4>>}
===============================================================================
