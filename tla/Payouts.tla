-------------------------------- MODULE Payouts --------------------------------
(***************************************************************************)
(* The two wallets a node pays from: welcome grants (grants.rs) and the    *)
(* demo sponsor of file fees (demo_sponsor.rs), with their REST handlers.  *)
(*                                                                         *)
(* Each payer holds its decide_lock from the checks, through the mempool,  *)
(* to the record of the payment: payJob[p] is the request inside it.  A    *)
(* transaction is its payer and its target, as its hash is.                *)
(***************************************************************************)
EXTENDS Naturals, FiniteSets

CONSTANTS
    GrantRequests,      \* [member, to]: a proof's nullifier and the wallet to pay
    FeeRequests,        \* [to, wallet, client]: a file, its sender, the caller
    OpeningBalance,     \* of either wallet
    Floor, Amount,      \* PAYER_FLOOR_MICRO / floor_micro, and one payment
    WelcomeCap, PerClient, PerWallet, PerDay,
    MaxPayDays, MaxInterrupts, MaxPayRestarts   \* bounds

Payers == {"grant", "sponsor"}
PayRequests(p) == IF p = "grant" THEN GrantRequests ELSE FeeRequests

ASSUME PayoutAssumption ==
    /\ {OpeningBalance, Floor, Amount, WelcomeCap, PerClient, PerWallet, PerDay,
        MaxPayDays, MaxInterrupts, MaxPayRestarts} \subseteq Nat
    /\ OpeningBalance >= Floor
    /\ \A r \in GrantRequests : r = [member |-> r.member, to |-> r.to]

VARIABLES
    payOn,       \* the payer this node has a mnemonic file for
    payJob,      \* payer -> the request inside decide_lock and how far it is
    payPool,     \* the transactions in the mempool
    payBlock,    \* the ones a block under construction took out of it
    paySettled,
    payBalance,
    claimedBy,   \* grants_welcome_claims_v1: nullifier -> wallet, as pairs
    paidWallets, \* grants_welcome_paid_v1
    grantCount,
    sponsored,   \* demo_sponsor_sponsored_v1
    uploads,     \* demo_sponsor_uploaded_v1
    feeCounts,   \* demo_sponsor_counts_v1: <<day, kind, key>> -> count
    saltDay,     \* the day of the client salt, 0 after a start
    payDay, payRestarts,
    payInterrupts,  \* payments whose handler was cut off before commit
    paidLog      \* history: every payment that entered the mempool

payVars == <<payOn, payJob, payPool, payBlock, paySettled, payBalance, claimedBy, paidWallets, grantCount,
             sponsored, uploads, feeCounts, saltDay, payDay, payRestarts, payInterrupts, paidLog>>
payMoney == <<payPool, payBlock, paySettled, payBalance>>
grantTrees == <<claimedBy, paidWallets, grantCount>>
feeTrees == <<sponsored, feeCounts, saltDay>>

NoPayment == [at |-> "idle", req |-> [to |-> "none"], day |-> 0, salt |-> 0]
PayIdle(p) == payJob[p].at = "idle"
\* 1 while the payment is in the mempool and not yet recorded
Sent(p) == IF payJob[p].at = "sent" THEN 1 ELSE 0
\* pending_outgoing_micro
Pending(p) == Amount * Cardinality({t \in payPool : t.payer = p})

(***************************************************************************)
(* decide                                                                  *)
(***************************************************************************)
\* Mutant: the wallet's own record is not looked at.
GrantDecidedByMember(r) ==
    /\ \A pair \in claimedBy : pair[1] # r.member
    /\ grantCount < WelcomeCap
    /\ payBalance["grant"] - Pending("grant") >= Floor + Amount
\* decide_journal, for a claim whose signature, receipt, journal and root are good:
\* the member, the wallet, the cap, then what the handler found spendable.
GrantDecided(r) ==
    /\ \A pair \in claimedBy : pair[1] # r.member
    /\ r.to \notin paidWallets
    /\ grantCount < WelcomeCap
    /\ payBalance["grant"] - Pending("grant") >= Floor + Amount

\* client_hash: today's salt is new on a new day and after a start.
Salt == <<payDay, payRestarts>>
FeeKeys(r, day, salt) == {<<day, "client", <<salt, r.client>>>>, <<day, "wallet", r.wallet>>, <<day, "all", "all">>}
FeeCount(k) == IF k \in DOMAIN feeCounts THEN feeCounts[k] ELSE 0
FeeCap(k) == CASE k[2] = "client" -> PerClient [] k[2] = "wallet" -> PerWallet [] OTHER -> PerDay
\* client_hash, prune_before: the first request of a day drops the other days' counts.
CountsToday == [k \in {k \in DOMAIN feeCounts : k[1] = payDay} |-> feeCounts[k]]
\* Mutant: a cap still admits a request when it is reached.
UnderCapOrAt(r) == \A k \in FeeKeys(r, payDay, Salt) : FeeCount(k) <= FeeCap(k)
UnderCaps(r) == \A k \in FeeKeys(r, payDay, Salt) : FeeCount(k) < FeeCap(k)
Sponsorable(r) == r.to \in uploads /\ r.to \notin sponsored
FeeDecided(r) ==
    /\ Sponsorable(r) /\ UnderCaps(r)
    /\ payBalance["sponsor"] >= Floor + Amount

\* post_grants_welcome and post_demo_sponsor_fee up to the signed transaction, or
\* a refusal, which gives the lock back.
DecidePayment(p, r) ==
    /\ p \in payOn /\ PayIdle(p)
    /\ payJob' = IF IF p = "grant" THEN GrantDecided(r) ELSE FeeDecided(r)
                 THEN [payJob EXCEPT ![p] = [at |-> "decided", req |-> r, day |-> payDay, salt |-> Salt]] ELSE payJob
    /\ IF p = "sponsor" /\ Sponsorable(r) /\ saltDay # payDay
       THEN saltDay' = payDay /\ feeCounts' = CountsToday ELSE UNCHANGED <<saltDay, feeCounts>>
    /\ UNCHANGED <<payMoney, grantTrees, sponsored, uploads, payDay, payRestarts, payInterrupts, paidLog>>

\* submit_local_tx: what the payer has left beside its waiting transactions must
\* cover it; then the mempool, then the broadcast is awaited.
SubmitPayment(p) ==
    LET r == payJob[p].req  t == [payer |-> p, to |-> r.to] IN
    /\ payJob[p].at = "decided"
    /\ IF payBalance[p] >= Pending(p) + Amount
       THEN /\ payPool' = payPool \union {t}
            /\ paidLog' = paidLog \union {[payer |-> p, req |-> r, day |-> payJob[p].day, salt |-> payJob[p].salt]}
            /\ payJob' = [payJob EXCEPT ![p].at = "sent"]
       ELSE payJob' = [payJob EXCEPT ![p] = NoPayment] /\ UNCHANGED <<payPool, paidLog>>
    /\ UNCHANGED <<payBlock, paySettled, payBalance, grantTrees, feeTrees, uploads, payDay, payRestarts, payInterrupts>>

\* GrantPayer::commit and DemoSponsor::commit; the response and the lock's release.
CommitGrant(j) ==
    LET r == j.req IN
    /\ claimedBy' = {pair \in claimedBy : pair[1] # r.member} \union {<<r.member, r.to>>}
    /\ paidWallets' = paidWallets \union {r.to}
    /\ grantCount' = grantCount + 1
    /\ UNCHANGED <<sponsored, feeCounts>>
\* Mutant: the sponsorship is recorded, the counters are not.
CommitFeeUncounted(j) ==
    /\ sponsored' = sponsored \union {j.req.to}
    /\ UNCHANGED <<claimedBy, paidWallets, grantCount, feeCounts>>
CommitFee(j) ==
    LET keys == FeeKeys(j.req, j.day, j.salt) IN
    /\ sponsored' = sponsored \union {j.req.to}
    /\ feeCounts' = [k \in DOMAIN feeCounts \union keys |->
                        IF k \in keys THEN FeeCount(k) + 1 ELSE feeCounts[k]]
    /\ UNCHANGED <<claimedBy, paidWallets, grantCount>>
CommitPayment(p) ==
    /\ payJob[p].at = "sent"
    /\ IF p = "grant" THEN CommitGrant(payJob[p]) ELSE CommitFee(payJob[p])
    /\ payJob' = [payJob EXCEPT ![p] = NoPayment]
    /\ UNCHANGED <<payMoney, saltDay, uploads, payDay, payRestarts, payInterrupts, paidLog>>

(***************************************************************************)
(* What goes on beside it                                                  *)
(***************************************************************************)
\* The caller hangs up: the handler is dropped at its await, with the lock.
Interrupt(p) ==
    /\ ~PayIdle(p) /\ payInterrupts < MaxInterrupts
    /\ payJob' = [payJob EXCEPT ![p] = NoPayment]
    /\ payInterrupts' = payInterrupts + Sent(p)
    /\ UNCHANGED <<payMoney, grantTrees, feeTrees, uploads, payDay, payRestarts, paidLog>>
\* A restart: the trees and the mempool's durable copy stay, the salt does not.
PayRestart ==
    /\ payRestarts < MaxPayRestarts /\ payBlock = {}
    /\ payRestarts' = payRestarts + 1 /\ saltDay' = 0
    /\ payInterrupts' = payInterrupts + Sent("grant") + Sent("sponsor")
    /\ payJob' = [p \in Payers |-> NoPayment]
    /\ UNCHANGED <<payMoney, grantTrees, sponsored, feeCounts, uploads, payDay, paidLog>>
\* record_upload, by post_files_upload.
RecordUpload(f) ==
    /\ "sponsor" \in payOn /\ f \notin uploads /\ uploads' = uploads \union {f}
    /\ UNCHANGED <<payJob, payMoney, grantTrees, feeTrees, payDay, payRestarts, payInterrupts, paidLog>>
\* The miner takes the mempool (mine_pending_block_as) ...
TakePool ==
    /\ payBlock = {} /\ payPool # {}
    /\ payBlock' = payPool /\ payPool' = {}
    /\ UNCHANGED <<payJob, paySettled, payBalance, grantTrees, feeTrees, uploads, payDay, payRestarts, payInterrupts, paidLog>>
\* select_block_txs: what the wallets can pay; an overdraft drops alone.
Payable(S) == \A p \in Payers : Amount * Cardinality({t \in S : t.payer = p}) <= payBalance[p]
\* ... and settles it, what is settled already and what cannot be paid aside.
SettleTaken ==
    /\ payBlock # {}
    /\ \E S \in SUBSET (payBlock \ paySettled) :
        /\ Payable(S) /\ \A t \in payBlock \ (paySettled \union S) : ~Payable(S \union {t})
        /\ paySettled' = paySettled \union S
        /\ payBalance' = [p \in Payers |-> payBalance[p] - Amount * Cardinality({t \in S : t.payer = p})]
    /\ payBlock' = {}
    /\ UNCHANGED <<payJob, payPool, grantTrees, feeTrees, uploads, payDay, payRestarts, payInterrupts, paidLog>>
NextDay ==
    /\ payDay < MaxPayDays /\ payDay' = payDay + 1
    /\ UNCHANGED <<payJob, payMoney, grantTrees, feeTrees, uploads, payRestarts, payInterrupts, paidLog>>

PayInit ==
    /\ payOn \in {{"grant"}, {"sponsor"}}
    /\ payJob = [p \in Payers |-> NoPayment] /\ payPool = {} /\ payBlock = {} /\ paySettled = {}
    /\ payBalance = [p \in Payers |-> OpeningBalance]
    /\ claimedBy = {} /\ paidWallets = {} /\ grantCount = 0
    /\ sponsored = {} /\ uploads = {} /\ feeCounts = [k \in {} |-> 0] /\ saltDay = 0
    /\ payDay = 1 /\ payRestarts = 0 /\ payInterrupts = 0 /\ paidLog = {}

PayStep ==
    \/ \E p \in Payers : \/ \E r \in PayRequests(p) : DecidePayment(p, r)
                         \/ SubmitPayment(p) \/ CommitPayment(p) \/ Interrupt(p)
    \/ PayRestart \/ TakePool \/ SettleTaken \/ NextDay
    \/ \E r \in FeeRequests : RecordUpload(r.to)
PayNext == PayStep /\ UNCHANGED payOn

PaySpec == PayInit /\ [][PayNext]_payVars

(***************************************************************************)
(* Properties                                                              *)
(***************************************************************************)
\* Types of the payers' state; the claims, the wallets and the count of grants
\* are three trees of one record.
PayTypeOK ==
    /\ \A p \in Payers : payJob[p].at \in {"idle", "decided", "sent"} /\ payBalance[p] \in Nat
    /\ sponsored \subseteq uploads
    /\ Cardinality(claimedBy) = grantCount /\ Cardinality(paidWallets) = grantCount

Grants == {e \in paidLog : e.payer = "grant"}
Fees == {e \in paidLog : e.payer = "sponsor"}
\* "Two claims can't share a nullifier or a payout wallet, or pass the cap together":
\* beyond the grants whose handler was cut off between the mempool and the
\* record, no member is paid twice, no wallet is paid for two members, and no
\* more than the cap is granted (decide_lock, decide_journal, commit).
GrantsPaidOnce ==
    /\ Cardinality({e.req : e \in Grants}) <= grantCount + Sent("grant") + payInterrupts
    /\ grantCount <= WelcomeCap
    /\ payInterrupts = 0 => \A e, f \in Grants :
           e.req.member = f.req.member \/ e.req.to = f.req.to => e.req = f.req

\* The sponsor's daily caps, per caller between two starts, per sender and for all,
\* and one fee per file: exceeded only by as many as were cut off before commit.
FeesCapped ==
    \A d \in 1..MaxPayDays :
        LET today == {e \in Fees : e.day = d} IN
        /\ Cardinality(today) <= PerDay + payInterrupts
        /\ \A e \in today :
            /\ Cardinality({f \in today : f.req.wallet = e.req.wallet}) <= PerWallet + payInterrupts
            /\ Cardinality({f \in today : f.req.client = e.req.client /\ f.salt = e.salt})
                   <= PerClient + payInterrupts

\* PaymentsBounded: grants once per member, fees within their caps.
PaymentsBounded == PayTypeOK /\ GrantsPaidOnce /\ FeesCapped

\* "So the floor holds for grants in flight" (handlers/grants.rs): it does not, a
\* block under construction holds transfers that neither figure counts.
GrantFloorHolds == payBalance["grant"] >= Floor
================================================================================
