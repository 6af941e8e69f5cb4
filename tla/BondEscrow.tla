------------------------------- MODULE BondEscrow -------------------------------
(***************************************************************************)
(* What the ledger promises about a challenger's bond and a worker's bond, *)
(* whatever the court, the prover and crashes do: a bond is taken whole    *)
(* from a purse that has it, is held once, leaves the escrow whole and     *)
(* once, to its challenger or to the ecosystem wallet, and a worker's bond *)
(* only ever goes to the ecosystem wallet, all of it.  ZkCourt is shown to *)
(* implement this.                                                         *)
(***************************************************************************)
EXTENDS Naturals

CONSTANTS Inference, Challenger, Worker, Bond

VARIABLES purse, held, eco, stake

escrowVars == <<purse, held, eco, stake>>

EscrowInit ==
    /\ purse \in [Challenger -> Nat]
    /\ held = [b \in Inference \X Challenger |-> 0]
    /\ eco = 0
    /\ stake \in [Worker -> Nat]

Take(i, c) ==
    /\ held[<<i, c>>] = 0 /\ purse[c] >= Bond
    /\ purse' = [purse EXCEPT ![c] = @ - Bond]
    /\ held' = [held EXCEPT ![<<i, c>>] = Bond]
    /\ UNCHANGED <<eco, stake>>

Refund(i, c) ==
    /\ held[<<i, c>>] > 0
    /\ purse' = [purse EXCEPT ![c] = @ + held[<<i, c>>]]
    /\ held' = [held EXCEPT ![<<i, c>>] = 0]
    /\ UNCHANGED <<eco, stake>>

Forfeit(i, c) ==
    /\ held[<<i, c>>] > 0
    /\ eco' = eco + held[<<i, c>>]
    /\ held' = [held EXCEPT ![<<i, c>>] = 0]
    /\ UNCHANGED <<purse, stake>>

Confiscate(w) ==
    /\ stake[w] > 0
    /\ eco' = eco + stake[w]
    /\ stake' = [stake EXCEPT ![w] = 0]
    /\ UNCHANGED <<purse, held>>

EscrowNext ==
    \/ \E i \in Inference, c \in Challenger : Take(i, c) \/ Refund(i, c) \/ Forfeit(i, c)
    \/ \E w \in Worker : Confiscate(w)

EscrowSpec == EscrowInit /\ [][EscrowNext]_escrowVars
================================================================================
