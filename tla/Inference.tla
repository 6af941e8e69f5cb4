------------------------------- MODULE Inference -------------------------------
(***************************************************************************)
(* Paid inference (rest/handlers/ai.rs, rest/handlers/enterprise.rs,       *)
(* ai_proxy.rs, the inference topic of p2p_network.rs and the charges of   *)
(* ledger.rs), seen from the node a client talks to.                       *)
(*                                                                         *)
(* A request burns its wallet's next nonce before anything else, then      *)
(* either runs on this node and is charged afterwards, or is published on  *)
(* the gossip topic and waits for a worker's answer under the hash of its  *)
(* prompt.  Every await of a handler is a step of its own, so requests     *)
(* interleave there; a message the network loses is one never delivered.   *)
(* Keys, boxes and JSON shapes are data: a payload the code cannot open is *)
(* the choice that a job fails.                                            *)
(***************************************************************************)
EXTENDS Naturals, FiniteSets

CONSTANTS
    Wallet, NodeWallet,     \* TET_WALLET_ID: the only sender whose results this node takes
    Prompt,
    Call,                   \* concurrent REST calls
    OpeningFunds,
    MinBalance, Charge,     \* 10 TET, AI_INFER_LOCAL_CHARGE_MICRO (also max_fee and the paid amounts)
    Permits,                \* WORKER_INFERENCE_SEMAPHORE
    CostLimit, CallCost,    \* TET_COST_GUARD_USD_LIMIT and one external call, in micro-USD
    DailyCap,               \* TET_GENESIS_AI_DAILY_SOFT_CAP
    MaxNonce,               \* bound: nonces used, per wallet
    Mixes                   \* bound: the kinds of call made together

ASSUME InferenceAssumption ==
    /\ NodeWallet \in Wallet
    /\ {OpeningFunds, MinBalance, Charge, Permits, CostLimit, CallCost, DailyCap} \subseteq Nat
    /\ MaxNonce \in [Wallet -> Nat]
    /\ Charge > 0 /\ CallCost > 0 /\ IsFiniteSet(Call) /\ Call # {} /\ "none" \notin Call

VARIABLES
    aiNonce,    \* META_AI_NONCE_PREFIX: the last nonce used
    funds,      \* balances
    calls,      \* the REST calls in flight
    waiters,    \* PENDING_INFERENCE_WAITERS_BY_TRACE_ROOT: prompt -> call
    topic,      \* messages on the inference topic
    jobs,       \* requests the worker computes, one permit each
    worker,     \* the worker as this node sees it: [seen, bonded]
    guard,      \* ai_cost_month: micro-USD booked this month
    quota,      \* ai_quota: proxy calls of a founding member today
    charges,    \* history: nonce-bound charges per wallet
    mix         \* the member of Mixes this behaviour explores

infVars == <<aiNonce, funds, calls, waiters, topic, jobs, worker, guard, quota, charges, mix>>

NoCall == "none"
\* "-" stands for an empty string.
Fresh == [at |-> "idle", kind |-> "-", wallet |-> NodeWallet, prompt |-> "-", nonce |-> 0,
          signed |-> FALSE, rx |-> "none"]
Free(r) == calls[r].at \in {"idle", "refused"}
\* The handler returns, with the answer or one of its many errors.
Returns(r) == calls' = [calls EXCEPT ![r] = Fresh]
\* The one error a property tells apart: 401 / 409, the nonce is not the next.
RefusesNonce(r, c) == calls' = [calls EXCEPT ![r] = [Fresh EXCEPT !.at = "refused", !.signed = c.signed]]
Goto(r, c, at) == calls' = [calls EXCEPT ![r] = [c EXCEPT !.at = at]]

(***************************************************************************)
(* Nonces                                                                  *)
(***************************************************************************)
\* Mutant: a nonce that was used is taken again.
FreshOrUsed(w, n) == n \in 1..(aiNonce[w] + 1)
\* ai_consume_nonce: one transaction, nonce = last + 1.
NonceOk(w, n) == n = aiNonce[w] + 1

(***************************************************************************)
(* The waiters: one per prompt hash                                        *)
(***************************************************************************)
\* A sender that is dropped closes the channel of the call that waits on it.
CloseChannel(cs, r) == IF r = NoCall THEN cs ELSE [cs EXCEPT ![r].rx = "closed"]
\* register_inference_waiter: the insert drops the waiter that was there.
RegisterWaiter(r, c) ==
    /\ waiters' = [waiters EXCEPT ![c.prompt] = r]
    /\ calls' = [CloseChannel(calls, waiters[c.prompt]) EXCEPT ![r] = [c EXCEPT !.at = "publishing", !.rx = "open"]]

\* Mutant: the call returns and its waiter stays.
LeaveWaiter(r) ==
    /\ UNCHANGED waiters
    /\ Returns(r)
\* unregister_inference_waiter, by prompt hash: whoever waits there.
EndWaiter(r) ==
    LET p == calls[r].prompt  o == waiters[p] IN
    /\ waiters' = [waiters EXCEPT ![p] = NoCall]
    /\ calls' = [CloseChannel(calls, o) EXCEPT ![r] = Fresh]

(***************************************************************************)
(* Entering                                                                *)
(***************************************************************************)
Asks(kind, w, p, n) == [Fresh EXCEPT !.kind = kind, !.wallet = w, !.prompt = p, !.nonce = n]

\* post_ai_utility_impl, the P2P branch, once the nonce is settled: the header
\* names the wallet, the balance covers max_fee, the waiter goes in.
ToWorker(r, c, headerOk) ==
    \/ ~headerOk /\ Returns(r) /\ UNCHANGED waiters
    \/ headerOk /\ funds[c.wallet] < Charge /\ Returns(r) /\ UNCHANGED waiters
    \/ headerOk /\ funds[c.wallet] >= Charge /\ RegisterWaiter(r, c)

\* post_ai_infer: nonce, signature, balance, then the first registered worker
\* (a stale one too) or this node.
InferBody(r, c, sigOk, headerOk) ==
    LET w == c.wallet IN
    \/ /\ ~NonceOk(w, c.nonce)
       /\ RefusesNonce(r, c) /\ UNCHANGED <<aiNonce, waiters>>
    \/ /\ NonceOk(w, c.nonce)
       /\ aiNonce' = [aiNonce EXCEPT ![w] = c.nonce]
       /\ \/ ~sigOk /\ Returns(r) /\ UNCHANGED waiters
          \/ sigOk /\ funds[w] < MinBalance /\ Returns(r) /\ UNCHANGED waiters
          \/ /\ sigOk /\ funds[w] >= MinBalance
             /\ IF worker.seen = "absent" THEN Goto(r, c, "computing") /\ UNCHANGED waiters
                                          ELSE ToWorker(r, c, headerOk)

Infer(r, w, p, n, sigOk, headerOk) ==
    /\ Free(r)
    /\ InferBody(r, Asks("infer", w, p, n), sigOk, headerOk)
    /\ UNCHANGED <<funds, topic, jobs, worker, guard, quota, charges>>

\* post_ai_infer_signed: takes the nonce, checks its own signature and forwards
\* the same nonce to post_ai_infer.
InferSigned(r, w, p, n, sigOk) ==
    LET c == Asks("infer", w, p, n) IN
    /\ Free(r)
    /\ \/ ~NonceOk(w, n) /\ RefusesNonce(r, c) /\ UNCHANGED aiNonce
       \/ /\ NonceOk(w, n)
          /\ aiNonce' = [aiNonce EXCEPT ![w] = n]
          /\ IF sigOk THEN Goto(r, [c EXCEPT !.signed = TRUE], "forwarding") ELSE Returns(r)
    /\ UNCHANGED <<funds, waiters, topic, jobs, worker, guard, quota, charges>>
Forward(r) ==
    /\ calls[r].at = "forwarding"
    /\ InferBody(r, calls[r], TRUE, TRUE)
    /\ UNCHANGED <<funds, topic, jobs, worker, guard, quota, charges>>

\* post_ai_utility: with a target it is the P2P path, without one this node
\* computes and nobody is charged.
Utility(r, w, p, n, target, sigOk) ==
    LET c == Asks("utility", w, p, n) IN
    /\ Free(r)
    /\ \/ ~NonceOk(w, n) /\ RefusesNonce(r, c) /\ UNCHANGED <<aiNonce, waiters>>
       \/ /\ NonceOk(w, n)
          /\ aiNonce' = [aiNonce EXCEPT ![w] = n]
          /\ \/ ~sigOk /\ Returns(r) /\ UNCHANGED waiters
             \/ sigOk /\ target /\ ToWorker(r, c, TRUE)
             \/ sigOk /\ ~target /\ Goto(r, c, "computing") /\ UNCHANGED waiters
    /\ UNCHANGED <<funds, topic, jobs, worker, guard, quota, charges>>

\* post_enterprise_inference: the envelope is verified before the nonce; only a
\* fresh worker is picked, and one that has no bond leaves the registry.
Enterprise(r, w, p, n) ==
    LET c == Asks("enterprise", w, p, n) IN
    /\ Free(r)
    /\ \/ ~NonceOk(w, n) /\ RefusesNonce(r, c) /\ UNCHANGED <<aiNonce, worker>>
       \/ /\ NonceOk(w, n)
          /\ aiNonce' = [aiNonce EXCEPT ![w] = n]
          /\ \/ worker.seen # "fresh" /\ Returns(r) /\ UNCHANGED worker
             \/ /\ worker.seen = "fresh" /\ ~worker.bonded
                /\ Returns(r) /\ worker' = [worker EXCEPT !.seen = "absent"]
             \/ worker.seen = "fresh" /\ worker.bonded /\ Goto(r, c, "computing") /\ UNCHANGED worker
    /\ UNCHANGED <<funds, waiters, topic, jobs, guard, quota, charges>>

\* post_enterprise_inference_submit: balance, nonce, then the mempool, which may
\* be full: the nonce is gone.
EnterpriseSubmit(r, w, p, n) ==
    LET c == Asks("submit", w, p, n) IN
    /\ Free(r)
    /\ \/ funds[w] < Charge /\ Returns(r) /\ UNCHANGED aiNonce
       \/ funds[w] >= Charge /\ ~NonceOk(w, n) /\ RefusesNonce(r, c) /\ UNCHANGED aiNonce
       \/ /\ funds[w] >= Charge /\ NonceOk(w, n)
          /\ aiNonce' = [aiNonce EXCEPT ![w] = n]
          /\ Returns(r)
    /\ UNCHANGED <<funds, waiters, topic, jobs, worker, guard, quota, charges>>

(***************************************************************************)
(* On this node                                                            *)
(***************************************************************************)
\* run_local_inference
Compute(r, ok) ==
    /\ calls[r].at = "computing"
    /\ IF ok /\ calls[r].kind # "utility" THEN Goto(r, calls[r], "settling") ELSE Returns(r)
    /\ UNCHANGED <<aiNonce, funds, waiters, topic, jobs, worker, guard, quota, charges>>

\* settle_ai_inference_dynamic_charge (after the inference-block delay), with its
\* session row; settle_ai_utility_payment for an enterprise.
SettleCall(r) ==
    LET c == calls[r]  w == c.wallet IN
    /\ c.at = "settling"
    /\ IF funds[w] < Charge
       THEN Returns(r) /\ UNCHANGED <<funds, charges>>
       ELSE /\ funds' = [funds EXCEPT ![w] = @ - Charge]
            /\ charges' = [charges EXCEPT ![w] = @ + 1]
            /\ IF c.kind = "enterprise" THEN Returns(r) ELSE Goto(r, c, "proving")
    /\ UNCHANGED <<aiNonce, waiters, topic, jobs, worker, guard, quota>>

\* generate_receipt_b64; a delivered inference is recorded with the court.
Prove(r) ==
    /\ calls[r].at = "proving"
    /\ Returns(r)
    /\ UNCHANGED <<aiNonce, funds, waiters, topic, jobs, worker, guard, quota, charges>>

(***************************************************************************)
(* Through the topic                                                       *)
(***************************************************************************)
Message(kind, c) == [kind |-> kind, sender |-> c.wallet, prompt |-> c.prompt, nonce |-> c.nonce]

\* broadcast_inference_with_ack, twelve attempts.
Publish(r) ==
    /\ calls[r].at = "publishing"
    /\ topic' = topic \union {Message("request", calls[r])}
    /\ Goto(r, calls[r], "waiting")
    /\ UNCHANGED <<aiNonce, funds, waiters, jobs, worker, guard, quota, charges>>
PublishFails(r) ==
    /\ calls[r].at = "publishing"
    /\ EndWaiter(r)
    /\ UNCHANGED <<aiNonce, funds, topic, jobs, worker, guard, quota, charges>>

\* run_swarm_loop, a request on the worker: a permit or a silent drop.
TakeJob(m) ==
    /\ m \in topic /\ m.kind = "request"
    /\ topic' = topic \ {m}
    /\ jobs' = IF Cardinality(jobs) < Permits THEN jobs \union {m} ELSE jobs
    /\ UNCHANGED <<aiNonce, funds, calls, waiters, worker, guard, quota, charges>>
\* The spawned task: decrypt, infer, prove, publish; any of them may fail.
FinishJob(m, ok) ==
    /\ m \in jobs
    /\ jobs' = jobs \ {m}
    /\ topic' = IF ok THEN topic \union {[m EXCEPT !.kind = "result"]} ELSE topic
    /\ UNCHANGED <<aiNonce, funds, calls, waiters, worker, guard, quota, charges>>

\* run_swarm_loop, a result: from a bonded worker, for this node, with a receipt
\* that verifies; fulfill_inference_waiter takes the waiter out and sends.
TakeResult(m, verifies) ==
    /\ m \in topic /\ m.kind = "result"
    /\ topic' = topic \ {m}
    /\ LET r == waiters[m.prompt] IN
       IF worker.bonded /\ m.sender = NodeWallet /\ verifies /\ r # NoCall
       THEN /\ waiters' = [waiters EXCEPT ![m.prompt] = NoCall]
            /\ calls' = [calls EXCEPT ![r].rx = "sent"]
       ELSE UNCHANGED <<waiters, calls>>
    /\ UNCHANGED <<aiNonce, funds, jobs, worker, guard, quota, charges>>

\* The wait ends with an answer, with a channel that closed or after 90 s.
Wakes(r) ==
    /\ EndWaiter(r)
    /\ UNCHANGED <<aiNonce, funds, topic, jobs, worker, guard, quota, charges>>
Answered(r) == calls[r].at = "waiting" /\ calls[r].rx = "sent" /\ Wakes(r)
Closed(r) == calls[r].at = "waiting" /\ calls[r].rx = "closed" /\ Wakes(r)
\* Mutant: only a sender that is gone ends the wait.
NoTimeout(r) == FALSE
TimedOut(r) == calls[r].at = "waiting" /\ calls[r].rx = "open" /\ Wakes(r)

(***************************************************************************)
(* The worker as this node sees it: POST /worker/heartbeat, the TTL, and    *)
(* its bond, which blocks and the court change.                            *)
(***************************************************************************)
Heartbeat ==
    /\ worker.bonded /\ worker.seen # "fresh"
    /\ worker' = [worker EXCEPT !.seen = "fresh"]
    /\ UNCHANGED <<aiNonce, funds, calls, waiters, topic, jobs, guard, quota, charges>>
GoesStale ==
    /\ worker.seen = "fresh"
    /\ worker' = [worker EXCEPT !.seen = "stale"]
    /\ UNCHANGED <<aiNonce, funds, calls, waiters, topic, jobs, guard, quota, charges>>
LosesBond ==
    /\ worker.bonded
    /\ worker' = [worker EXCEPT !.bonded = FALSE]
    /\ UNCHANGED <<aiNonce, funds, calls, waiters, topic, jobs, guard, quota, charges>>

(***************************************************************************)
(* The proxy: no nonce; guard, quota, payment and booking one after another*)
(***************************************************************************)
\* Mutant: the month's last call may start at the limit.
GuardAtLimit == guard <= CostLimit
GuardOpen == guard < CostLimit

\* handle_ai_proxy up to the payment; founding members count the call first.
ProxyCheck(r, w, member) ==
    LET c == Asks("proxy", w, "-", 0)
        onWorker == worker.seen = "fresh"
        counted == [quota EXCEPT ![w] = IF member THEN @ + 1 ELSE @] IN
    /\ Free(r)
    /\ \/ ~onWorker /\ ~GuardOpen /\ Returns(r) /\ UNCHANGED quota
       \/ /\ onWorker \/ GuardOpen
          /\ quota[w] <= DailyCap
          /\ quota' = counted
          /\ IF member /\ counted[w] > DailyCap THEN Returns(r)
             ELSE Goto(r, c, IF onWorker THEN "paying_worker" ELSE "paying_api")
    /\ UNCHANGED <<aiNonce, funds, waiters, topic, jobs, worker, guard, charges>>
\* The transfer, then the worker's proof or the booking of the API's price.
ProxyPay(r) ==
    LET c == calls[r] IN
    /\ c.at \in {"paying_worker", "paying_api"}
    /\ \/ funds[c.wallet] < Charge /\ Returns(r) /\ UNCHANGED <<funds, guard>>
       \/ /\ funds[c.wallet] >= Charge
          /\ funds' = [funds EXCEPT ![c.wallet] = @ - Charge]
          /\ guard' = IF c.at = "paying_api" THEN guard + CallCost ELSE guard
          /\ Returns(r)
    /\ UNCHANGED <<aiNonce, waiters, topic, jobs, worker, quota, charges>>

(***************************************************************************)
(* The specification                                                       *)
(***************************************************************************)
InferenceInit ==
    /\ aiNonce = [w \in Wallet |-> 0] /\ charges = [w \in Wallet |-> 0]
    /\ funds = [w \in Wallet |-> OpeningFunds] /\ quota = [w \in Wallet |-> 0]
    /\ calls = [r \in Call |-> Fresh]
    /\ waiters = [p \in Prompt |-> NoCall]
    /\ topic = {} /\ jobs = {} /\ guard = 0
    /\ worker \in [seen: {"absent", "fresh"}, bonded: {TRUE}]
    /\ mix \in Mixes

Enters(r) ==
    \E w \in Wallet, p \in Prompt : \E n \in 1..MaxNonce[w], b, h \in BOOLEAN :
        \/ "infer" \in mix /\ Infer(r, w, p, n, b, h)
        \/ "signed" \in mix /\ InferSigned(r, w, p, n, b)
        \/ "utility" \in mix /\ Utility(r, w, p, n, h, b)
        \/ "enterprise" \in mix /\ Enterprise(r, w, p, n)
        \/ "submit" \in mix /\ EnterpriseSubmit(r, w, p, n)
        \/ "proxy" \in mix /\ ProxyCheck(r, w, b)
\* What the runtime does for a call in flight.
CallStep(r) ==
    \/ Forward(r)
    \/ \E ok \in BOOLEAN : Compute(r, ok)
    \/ Prove(r) \/ ProxyPay(r)
    \/ SettleCall(r)
    \/ Publish(r) \/ PublishFails(r)
    \/ Answered(r) \/ Closed(r) \/ TimedOut(r)
Network ==
    \/ \E m \in topic : TakeJob(m) \/ \E ok \in BOOLEAN : TakeResult(m, ok)
    \/ \E m \in jobs, ok \in BOOLEAN : FinishJob(m, ok)
InferenceNext ==
    /\ (\E r \in Call : Enters(r) \/ CallStep(r)) \/ Network \/ Heartbeat \/ GoesStale \/ LosesBond
    /\ UNCHANGED mix

InferenceSpec == InferenceInit /\ [][InferenceNext]_infVars /\ \A r \in Call : WF_infVars(CallStep(r) /\ UNCHANGED mix)

(***************************************************************************)
(* Properties                                                              *)
(***************************************************************************)
\* Types of the inference state.
InferenceTypeOK ==
    /\ aiNonce \in [Wallet -> Nat] /\ charges \in [Wallet -> Nat] /\ funds \in [Wallet -> Nat]
    /\ quota \in [Wallet -> 0..(DailyCap + 1)] /\ guard \in Nat
    /\ waiters \in [Prompt -> Call \union {NoCall}]
    /\ \A r \in Call : calls[r].at \in {"idle", "forwarding", "computing", "settling", "proving", "publishing",
                                        "waiting", "paying_worker", "paying_api", "refused"}
    /\ Cardinality(jobs) <= Permits

\* Every nonce pays for at most one inference, however calls and retries
\* interleave with a charge that comes long after its nonce
\* (post_ai_infer, post_enterprise_inference, ai_consume_nonce).
OneChargePerNonce ==
    \A w \in Wallet :
        charges[w] + Cardinality({r \in Call : /\ calls[r].wallet = w /\ calls[r].kind \in {"infer", "enterprise"}
                                               /\ calls[r].at \in {"computing", "settling"}})
            <= aiNonce[w]

\* A call waits with an open channel exactly when the waiter of its prompt is
\* its own: no waiter outlives its call, none is open that an answer cannot
\* reach (register_inference_waiter, unregister_inference_waiter).
WaitersSound ==
    /\ \A p \in Prompt : waiters[p] # NoCall => calls[waiters[p]].prompt = p /\ calls[waiters[p]].rx = "open"
    /\ \A r \in Call : calls[r].rx = "open" => waiters[calls[r].prompt] = r /\ calls[r].at \in {"publishing", "waiting"}

\* The monthly guard is overrun by at most the calls that run at once
\* (handle_ai_proxy checks before it pays and books after).
GuardOverrunBounded ==
    guard + CallCost * Cardinality({r \in Call : calls[r].at = "paying_api"})
        < CostLimit + CallCost * Cardinality(Call)

\* Charges, waiters and the monthly guard under calls that overlap.
InferenceSound == InferenceTypeOK /\ OneChargePerNonce /\ WaitersSound /\ GuardOverrunBounded

\* Every call gets its reply: a lost answer, a dropped job, a worker without
\* bond and a channel that another call closed all end in one (post_ai_infer).
CallEnds == \A r \in Call : ~Free(r) ~> Free(r)

\* "Forward into the existing pipeline": a call whose signed nonce was taken is
\* not refused for its nonce afterwards (post_ai_infer_signed).
ForwardedIsAdmitted == \A r \in Call : calls[r].signed => calls[r].at # "refused"
================================================================================
