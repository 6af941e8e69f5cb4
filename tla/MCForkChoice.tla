---------------------------- MODULE MCForkChoice ----------------------------
(* Instances of ForkChoice over one tree of blocks:                        *)
(*     genesis - a1 - a2 - a3                                              *)
(*             - b1 - b2 - b3                                              *)
(* produced by one validator, who lost a block and mined another, or by    *)
(* two, the heavier of which leads.                                        *)
EXTENDS ForkChoice

CONSTANTS a1, a2, a3, b1, b2, b3, v1, v2

MCBlocks == {a1, a2, a3, b1, b2, b3}
MCParent == [b \in MCBlocks |-> CASE b \in {a1, b1} -> Genesis
                 [] b = a2 -> a1 [] b = a3 -> a2 [] b = b2 -> b1 [] b = b3 -> b2]
MCHeightOf == [b \in MCBlocks \cup {Genesis} |->
                 CASE b = Genesis -> 0 [] b \in {a1, b1} -> 1
                   [] b \in {a2, b2} -> 2 [] b \in {a3, b3} -> 3]
MCChain == [b \in MCBlocks |->
              {c \in (IF b \in {a1, a2, a3} THEN {a1, a2, a3} ELSE {b1, b2, b3}) :
                   MCHeightOf[c] <= MCHeightOf[b]}]
\* Hash mode with one producer.
MCOneProducer == [b \in MCBlocks |-> v1]
MCHashLeader == [h \in 1..3 |-> [c \in [Validators -> Weights] |-> v1]]
\* CAAC mode: v1 produces the a blocks, v2 the b blocks.
MCTwoProducers == [b \in MCBlocks |-> IF b \in {a1, a2, a3} THEN v1 ELSE v2]
MCCaacLeader == [h \in 1..3 |-> [c \in [Validators -> Weights] |->
                                   IF c[v2] > c[v1] THEN v2 ELSE v1]]
=============================================================================
