------------------------------ MODULE MCShuffle1 ------------------------------
(* Instances of Shuffle1 for TLC.  A tuple <<l, r, k>> is the k-th tuple of  *)
(* range r that lower l reads.                                             *)
EXTENDS Shuffle1

CONSTANTS PerRange, UsedRanges      \* bounds: tuples of each used range

MCTuples == Lowers \X Ranges \X (1..PerRange)
MCRangeOf == [t \in MCTuples |-> t[2]]

\* Every lower reads the tuples of each used range, interleaved.
MCInput ==
    [l \in Lowers |-> [k \in 1..(PerRange * UsedRanges) |->
        <<l, ((k - 1) % UsedRanges) + 1, ((k - 1) \div UsedRanges) + 1>>]]
===============================================================================
