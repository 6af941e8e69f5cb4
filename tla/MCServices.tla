------------------------------ MODULE MCServices ------------------------------
(***************************************************************************)
(* One instance of the services on top of the ledger: the registry of      *)
(* anonymous members and its sync, the court, inference calls, the two     *)
(* payers, and AI workloads.  They share no state; each behaviour explores *)
(* the one that focus names.                                               *)
(***************************************************************************)
EXTENDS AnonRegistry, ZkCourt, Inference, Payouts, Workloads

-----------------------------------------------------------------------------
(* Registry: a peer holds three members, the third of whom also arrives by *)
(* gossip.                                                                 *)

MCOffers == {[w |-> 3, c |-> 30, at |-> 1]}
MCPeerSet == {[w |-> 1, c |-> 10, at |-> 0], [w |-> 2, c |-> 20, at |-> 0], [w |-> 3, c |-> 30, at |-> 1]}

(* Inference: the node's own wallet and a user's, two calls at a time, of  *)
(* one of four mixes of entry points.                                      *)

MCMaxNonce == [w \in Wallet |-> IF w = NodeWallet THEN 2 ELSE 1]
MCMixes == {{"infer"}, {"utility"}, {"signed", "enterprise", "submit"}, {"proxy"}}

(* Payers: one member with two wallets, two members with one wallet; three *)
(* fees that share a sender or a caller.                                   *)

MCGrants == {[member |-> "m1", to |-> "x"], [member |-> "m1", to |-> "y"], [member |-> "m2", to |-> "x"]}
MCFees == {[to |-> "f1", wallet |-> "a", client |-> "c"], [to |-> "f2", wallet |-> "a", client |-> "d"],
           [to |-> "f3", wallet |-> "b", client |-> "c"]}

(* Workloads: task 1 cannot be proved; a remote block brings both demands, *)
(* another a rival's claim.                                                *)

MCRest == {ClaimTx(1, "w", "court"), ClaimTx(2, "w", "inference")}
MCRemote == {{DemandTx(1), DemandTx(2)}, {ClaimTx(2, "v", "court")}}

-----------------------------------------------------------------------------
VARIABLE focus

Foci == {"registry", "court", "calls", "pay", "work"}

servicesVars == <<registryVars, courtVars, infVars, payVars, wlVars, focus>>

ServicesInit ==
    /\ focus \in Foci
    /\ RegistryInit /\ CourtInit /\ InferenceInit /\ PayInit /\ WorkInit
    /\ focus # "calls" => worker.seen = "fresh" /\ mix = {"proxy"}
    /\ focus # "pay" => payOn = {"grant"}

Registry(A) == focus = "registry" /\ A /\ UNCHANGED <<courtVars, infVars, payVars, wlVars, focus>>
Court(A) == focus = "court" /\ A /\ UNCHANGED <<registryVars, infVars, payVars, wlVars, focus>>
Calls(A) == focus = "calls" /\ A /\ UNCHANGED <<mix, registryVars, courtVars, payVars, wlVars, focus>>
Pay(A) == focus = "pay" /\ A /\ UNCHANGED <<registryVars, courtVars, infVars, wlVars, focus>>
Work(A) == focus = "work" /\ A /\ UNCHANGED <<registryVars, courtVars, infVars, payVars, focus>>

ServicesNext ==
    \/ Registry(RegistryNext) \/ Court(CourtNext) \/ Calls(InferenceNext) \/ Pay(PayNext) \/ Work(WorkNext)

\* The fairness of the five specifications (the court's pipelines are tasks of the runtime).
\* The focus never changes, so one condition serves an actor of each.
MCPipes == <<"p1", "p2">>
MCCalls == <<"c1", "c2">>
Actor(k) ==
    \/ Registry(SyncStep) /\ k = 1
    \/ Court(PipeStep(MCPipes[k]))
    \/ Calls(CallStep(MCCalls[k]))
    \/ Work(IF k = 1 THEN DaemonStep ELSE MineWork)

ServicesSpec ==
    /\ ServicesInit /\ [][ServicesNext]_servicesVars
    /\ WF_servicesVars(Actor(1)) /\ WF_servicesVars(Actor(2))

\* Registries meet, bonds are settled, calls are answered and tasks served.
ServicesLive ==
    /\ focus = "registry" => RegistryConverges
    /\ focus = "court" => BondSettles
    /\ focus = "calls" => CallEnds
    /\ focus = "work" => TaskServed
===============================================================================
