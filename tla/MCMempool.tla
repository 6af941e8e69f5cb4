------------------------------ MODULE MCMempool ------------------------------
(* Instances of Mempool: two wallets, three transactions.  t1 and t2 draw  *)
(* on the same wallet, whose balance may not cover both; t3 pays most.     *)
EXTENDS Mempool

CONSTANTS t1, t2, t3, w1, w2

MCTxs == {t1, t2, t3}
MCWallets == {w1, w2}
MCFrom == [t \in MCTxs |-> IF t = t3 THEN w2 ELSE w1]
MCAmount == [t \in MCTxs |-> IF t = t2 THEN 2 ELSE 1]
MCFee == [t \in MCTxs |-> CASE t = t1 -> 1 [] t = t2 -> 2 [] t = t3 -> 3]
MCSize == [t \in MCTxs |-> IF t = t1 THEN 1 ELSE 2]
\* Balances that make t1 and t2 exclude each other, and ones that do not.
MCScarce == [w \in MCWallets |-> 2]
MCAmple == [w \in MCWallets |-> 6]

\* Two clients, or one and a peer.
MCArrivals ==
    Init /\ [][Next /\ (budget'.submits = 0 => budget'.deliveries = MaxDeliveries)]_vars
MCFairArrivals == MCArrivals /\ Fairness
=============================================================================
