--------------------------- MODULE MCShuffleSorted ---------------------------
\* Two lowers whose shares of each upper have none, one or more than a block of
\* tuples, and one key that is not below DATAVOLUME, out of order in its range.
EXTENDS ShuffleSorted

MCPlans ==
    {[uppers |-> 1, keys |-> <<<<3, 0, 1, 2>>, <<1, 0>>>>],
     [uppers |-> 1, keys |-> <<<<1, 5, 3, 2>>, <<2>>>>],
     [uppers |-> 2, keys |-> <<<<0, 3, 1, 1>>, <<3>>>>]}

=============================================================================
