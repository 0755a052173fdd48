------------------------------ MODULE MCPCBuffer ------------------------------
(***************************************************************************)
(* PCBuffer and the tree of its get_sorted, for TLC.  Only the thread       *)
(* inside get_sorted uses the tree, and no step of the tree looks at the    *)
(* queues or changes them.  So each takes its steps while the other rests   *)
(* in an initial state: more interleavings would reach no other state of    *)
(* either.                                                                 *)
(***************************************************************************)
EXTENDS PCBuffer, LoserTree

TreeRests == TreeInit /\ \A i \in Leaves : L[i] = 0

MCInit == Init /\ TreeInit
MCNext ==
    \/ TreeRests /\ Next /\ UNCHANGED treeVars
    \/ Init /\ TreeNext /\ UNCHANGED vars

MCSpec == MCInit /\ [][MCNext]_<<vars, treeVars>> /\ Fairness
===============================================================================
