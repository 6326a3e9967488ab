---------------------------- MODULE MCOrderBook ----------------------------
(***************************************************************************)
(* The instance of OrderBook that TLC checks: two exchanges and two levels *)
(* of depth; messages in any order, with repeated prices, prices of zero   *)
(* and not a number, amounts of zero and amounts that tie.                 *)
(***************************************************************************)
EXTENDS OrderBook

At(p, a) == [price |-> p, amount |-> a]

\* Every side of up to two entries, and longer ones that are cut: best first for
\* bids or for asks, with a zero, a repetition or the best price beyond the cut;
\* and the price zero, which has the key of NaN.
Sequences ==
    UNION {[1..n -> [price : {NaN, 1, 2}, amount : {1, 2}] \cup {At(1, 0)}] : n \in 0..2}
        \cup {<<At(3, 1), At(2, 1), At(1, 2)>>, <<At(1, 1), At(2, 2), At(3, 1)>>,
              <<At(2, 1), At(1, 0), At(0, 1)>>, <<At(1, 0), At(2, 1), At(3, 1)>>,
              <<At(2, 1), At(2, 1), At(1, 1)>>, <<At(1, 1), At(2, 2), At(NaN, 2)>>,
              <<At(0, 1)>>, <<At(0, 1), At(NaN, 2)>>}

\* What one side has while the other has any of them.
Few == {<<>>, <<At(2, 1)>>, <<At(1, 1), At(2, 2)>>}

MCMessages == [bids : Sequences, asks : Few] \cup [bids : Few, asks : Sequences]

MCTimes == {1, 2}

Symmetry == Permutations(Sources)

=============================================================================
