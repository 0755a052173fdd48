------------------------------ MODULE LoserTree ------------------------------
(***************************************************************************)
(* LoserTree, the tournament by which PCBuffer::get_sorted merges its       *)
(* columns.  L[1..n] are the keys at the leaves; B[0] is the winner and     *)
(* B[1..n-1] the loser of every match, all of them numbers of leaves.  The  *)
(* loops of initialize, play and replay are steps of one thread.            *)
(*                                                                         *)
(* Node q has the children 2q and 2q+1.  The matches are the nodes 1..n-1,  *)
(* the leaves the nodes n..2n-1: those of the lowest level come first in L. *)
(***************************************************************************)
EXTENDS Integers, FiniteSets

CONSTANTS
    n,          \* leaves, one per column
    Keys        \* what a leaf may hold

\* With a single leaf B[0] would be an operand before it is written.
ASSUME TreeAssumption == n \in Nat /\ n >= 2 /\ Keys \subseteq Nat

VARIABLES
    tpc,        \* the loop that runs, "idle" between two calls
    s,          \* first match of the lowest level that has any
    L, B,
    i_,         \* i, the right leaf of initialize's next match
    p_,         \* p of play and replay
    temp1,      \* the winner on its way up in play
    champ       \* champ[p]: winner of all matches at and below p, 0 if open (history)

treeVars == <<tpc, s, L, B, i_, p_, temp1, champ>>

Leaves == 1 .. n
Matches == 1 .. n - 1

\* Memory of B that nobody has written.
Unset == 0

\* CompareTemp::compare and the two sides of a match; the left one wins a tie.
compare(x, y) == ~ (x > y)
win(A, left, right) == IF compare(A[left], A[right]) THEN left ELSE right
lose(A, left, right) == IF ~ compare(A[left], A[right]) THEN left ELSE right

lowExt == 2 * (n - s)
offset == 2 * s - 1

TreeInit ==
    /\ tpc = "size" /\ s = 1
    /\ L \in [Leaves -> Keys]
    /\ B = [p \in 0 .. n - 1 |-> Unset]
    /\ i_ = 2 /\ p_ = 1 /\ temp1 = Unset
    /\ champ = [p \in Matches |-> 0]

-----------------------------------------------------------------------------
(* initialize and play.                                                    *)

\* The loop that doubles s.
Deeper == 2 * s <= n - 1
Size ==
    /\ tpc = "size"
    /\ IF Deeper THEN s' = 2 * s /\ UNCHANGED tpc
       ELSE tpc' = "matches" /\ UNCHANGED s
    /\ UNCHANGED <<L, B, i_, p_, temp1, champ>>

\* play up to its loop.
play(p, left, right) ==
    /\ B' = [B EXCEPT ![p] = lose(L, left, right)]
    /\ temp1' = win(L, left, right)
    /\ champ' = [champ EXCEPT ![p] = win(L, left, right)]
    /\ p_' = p /\ tpc' = "climb"
    /\ UNCHANGED <<s, L>>

\* The loop over the leaves of the lowest level.
LowMatch ==
    /\ tpc = "matches" /\ i_ % 2 = 0 /\ i_ <= lowExt
    /\ play((i_ + offset) \div 2, i_ - 1, i_)
    /\ i_' = i_ + 2

\* n is odd: a match and a leaf are compared.
OddMatch ==
    /\ tpc = "matches" /\ i_ % 2 = 0 /\ i_ > lowExt /\ n % 2 = 1
    /\ play(n \div 2, B[(n - 1) \div 2], lowExt + 1)
    /\ i_' = lowExt + 3

\* The loop over the other leaves.
HighMatch ==
    /\ tpc = "matches" /\ i_ % 2 = n % 2 /\ i_ > lowExt /\ i_ <= n
    /\ play((i_ - lowExt + n - 1) \div 2, i_ - 1, i_)
    /\ i_' = i_ + 2

Built ==
    /\ tpc = "matches" /\ i_ % 2 = n % 2 /\ i_ > lowExt /\ i_ > n
    /\ tpc' = "idle"
    /\ UNCHANGED <<s, L, B, i_, p_, temp1, champ>>

\* From a right child the winner plays on against its parent's contender; from a
\* left child it becomes the contender.
Climb ==
    /\ tpc = "climb" /\ p_ > 1 /\ p_ % 2 = 1
    /\ LET q == p_ \div 2
       IN  /\ temp1' = win(L, temp1, B[q])
           /\ B' = [B EXCEPT ![q] = lose(L, temp1, B[q])]
           /\ champ' = [champ EXCEPT ![q] = win(L, temp1, B[q])]
           /\ p_' = q
    /\ UNCHANGED <<tpc, s, L, i_>>

\* SettleHere leaves the winner at its own match.
SettleHere ==
    /\ tpc = "climb" /\ ~ (p_ > 1 /\ p_ % 2 = 1)
    /\ B' = [B EXCEPT ![p_] = temp1]
    /\ tpc' = "matches"
    /\ UNCHANGED <<s, L, i_, p_, temp1, champ>>
Settle ==
    /\ tpc = "climb" /\ ~ (p_ > 1 /\ p_ % 2 = 1)
    /\ B' = [B EXCEPT ![p_ \div 2] = temp1]
    /\ tpc' = "matches"
    /\ UNCHANGED <<s, L, i_, p_, temp1, champ>>

-----------------------------------------------------------------------------
(* Load and replay.                                                        *)

\* The first match of leaf i; parentHigh takes every leaf for one of the upper level.
parentHigh(i) == (i - lowExt + n - 1) \div 2
parent(i) == IF i <= lowExt THEN (i + offset) \div 2 ELSE (i - lowExt + n - 1) \div 2

\* The winner's next key, and its first match.
Load(key) ==
    /\ tpc = "idle"
    /\ L' = [L EXCEPT ![B[0]] = key]
    /\ LET i == B[0]
           p == parent(i)
       IN  /\ B' = [B EXCEPT ![0] = win(L', i, B[p]), ![p] = lose(L', i, B[p])]
           /\ champ' = [champ EXCEPT ![p] = win(L', i, B[p])]
           /\ p_' = p
    /\ tpc' = "rise"
    /\ UNCHANGED <<s, i_, temp1>>

\* The loop goes on up to the match at the root.
Rises == p_ \div 2 >= 1
replay ==
    /\ tpc = "rise"
    /\ LET q == p_ \div 2
       IN  IF Rises
           THEN /\ B' = [B EXCEPT ![0] = win(L, B[q], B[0]), ![q] = lose(L, B[q], B[0])]
                /\ champ' = [champ EXCEPT ![q] = win(L, B[q], B[0])]
                /\ p_' = q
                /\ UNCHANGED tpc
           ELSE tpc' = "idle" /\ UNCHANGED <<B, champ, p_>>
    /\ UNCHANGED <<s, L, i_, temp1>>

initialize == Size \/ LowMatch \/ OddMatch \/ HighMatch \/ Built \/ Climb \/ Settle

TreeNext == initialize \/ replay \/ \E key \in Keys : Load(key)

TreeSpec == TreeInit /\ [][TreeNext]_treeVars

-----------------------------------------------------------------------------
\* Between two calls of get_sorted's loop the winner is a least leaf, whatever the
\* keys were, and every other leaf is the loser of exactly one match.  The matches
\* are played in an order that a tree which is not full makes irregular, and replay
\* trusts every entry off its way to be still right.
WinnerIsLeast ==
    tpc = "idle" =>
        /\ {B[p] : p \in 0 .. n - 1} = Leaves
        /\ B[0] \in Leaves
        /\ \A i \in Leaves : L[B[0]] <= L[i]

\* No entry of B is an operand before it was written: the contender at a right
\* child's parent, the left operand of the odd match, and the entries replay meets.
OperandsWritten ==
    /\ tpc = "climb" /\ p_ > 1 /\ p_ % 2 = 1 => B[p_ \div 2] # Unset
    /\ tpc = "matches" /\ i_ % 2 = 0 /\ i_ > lowExt /\ n % 2 = 1 => B[(n - 1) \div 2] # Unset
    /\ tpc \in {"idle", "rise"} => \A p \in 0 .. n - 1 : B[p] # Unset

=============================================================================
