-------------------------------- MODULE ZkCourt --------------------------------
(***************************************************************************)
(* The ZK court (tet-core/src/vision/zk_court.rs, its REST handlers and    *)
(* the bond operations of ledger.rs).                                      *)
(*                                                                         *)
(* A delivered inference opens a dispute; a challenge locks a bond, marks  *)
(* the dispute, proves the transcript again and applies the verdict.  The  *)
(* dispute lives twice, in the DISPUTES map and in a sled tree, and the    *)
(* pipeline's steps interleave with other pipelines, with a redelivery of  *)
(* the same inference (its id is the prompt's hash, so a repeated prompt   *)
(* overwrites the dispute) and with a crash.                               *)
(*                                                                         *)
(* The prover is external: it answers "match", "mismatch" (the receipt     *)
(* verifies, the journal differs) or "none" (a timeout, a failure, no      *)
(* guest ELF).  The host's own commitment always matches: it is computed   *)
(* by the same function from the same fields.  Sled writes are durable     *)
(* when made.                                                              *)
(***************************************************************************)
EXTENDS Naturals, FiniteSets

CONSTANTS
    Inference, Challenger, Worker, Pipe,
    Bond,           \* zkcourt_challenger_bond_micro
    Window,         \* challenge_window_ms
    MaxDeliveries, MaxCourtTime, MaxCourtCrashes    \* bounds

ASSUME CourtAssumption ==
    /\ Bond \in Nat \ {0}
    /\ Window \in Nat /\ MaxDeliveries \in Nat /\ MaxCourtTime \in Nat /\ MaxCourtCrashes \in Nat
    /\ "-" \notin Challenger      \* a wallet id is never empty

VARIABLES
    ctime,
    disputes,       \* DISPUTES (lost in a crash)
    filed,          \* the zkcourt_disputes tree
    artifacts,      \* ids in ARTIFACTS; the tree never loses one it was given
    purse, held, eco, stake,    \* balances, zkcourt_bonds, the ecosystem wallet, worker_stakes_v1
    pipes,          \* run_challenge_pipeline, by running call
    courtRuns       \* history: deliveries per id, crashes, mismatches proved

courtVars == <<ctime, disputes, filed, artifacts, purse, held, eco, stake, pipes, courtRuns>>

\* "-" stands for a field that is empty.
NoDispute == [phase |-> "None", worker |-> "-", challenger |-> "-", opens |-> 0]
IdlePipe == [at |-> "idle", id |-> "-", challenger |-> "-", proof |-> "none", worker |-> "-"]

(***************************************************************************)
(* The bond operations: each is one sled transaction                       *)
(***************************************************************************)
\* zkcourt_lock_challenger_bond
LockBond(i, c) ==
    /\ held[<<i, c>>] = 0 /\ purse[c] >= Bond
    /\ purse' = [purse EXCEPT ![c] = @ - Bond]
    /\ held' = [held EXCEPT ![<<i, c>>] = Bond]

\* Mutant: the bond is paid out and stays locked.
SettleKeepsBond(i, c, valid) ==
    /\ held' = held
    /\ purse' = IF valid THEN [purse EXCEPT ![c] = @ + held[<<i, c>>]] ELSE purse
    /\ eco' = IF valid THEN eco ELSE eco + held[<<i, c>>]
\* zkcourt_settle_challenger_bond: nothing happens when no bond is locked.
SettleBond(i, c, valid) ==
    /\ held' = [held EXCEPT ![<<i, c>>] = 0]
    /\ purse' = IF valid THEN [purse EXCEPT ![c] = @ + held[<<i, c>>]] ELSE purse
    /\ eco' = IF valid THEN eco ELSE eco + held[<<i, c>>]

\* slash_worker_bond_to_ecosystem_all
SlashAll(w) ==
    /\ eco' = eco + stake[w]
    /\ stake' = [stake EXCEPT ![w] = 0]

(***************************************************************************)
(* Delivery                                                                *)
(***************************************************************************)
CourtInit ==
    /\ ctime = 0
    /\ disputes = [i \in Inference |-> NoDispute] /\ filed = disputes
    /\ artifacts = {}
    /\ purse = [c \in Challenger |-> Bond] /\ held = [b \in Inference \X Challenger |-> 0]
    /\ eco = 0 /\ stake = [w \in Worker |-> 2 * Bond]
    /\ pipes = [p \in Pipe |-> IdlePipe]
    /\ courtRuns = [delivered |-> [i \in Inference |-> 0], crashes |-> 0, mismatches |-> 0]

\* record_inference_delivered_full
Deliver(i, w) ==
    /\ courtRuns.delivered[i] < MaxDeliveries
    /\ LET d == [phase |-> "ChallengeOpen", worker |-> w, challenger |-> "-", opens |-> ctime]
       IN  disputes' = [disputes EXCEPT ![i] = d] /\ filed' = [filed EXCEPT ![i] = d]
    /\ artifacts' = artifacts \cup {i}
    /\ courtRuns' = [courtRuns EXCEPT !.delivered[i] = @ + 1]
    /\ UNCHANGED <<ctime, purse, held, eco, stake, pipes>>

(***************************************************************************)
(* A challenge                                                             *)
(***************************************************************************)
\* The signed request arrives and its bond is locked; without one it is refused.
Challenge(p, i, c) ==
    /\ pipes[p].at = "idle"
    /\ LockBond(i, c)
    /\ pipes' = [pipes EXCEPT ![p] = [at |-> "locked", id |-> i, challenger |-> c, proof |-> "none",
                                       worker |-> "-"]]
    /\ UNCHANGED <<ctime, disputes, filed, artifacts, eco, stake, courtRuns>>

\* The dispute as the DISPUTES map holds it, read from the tree when it is not there.
Known(i) == IF disputes[i] # NoDispute THEN disputes[i] ELSE filed[i]

\* Mutant: a dispute under trial or decided can be challenged again.
OpenWhilePending(d) == d # NoDispute /\ ctime >= d.opens /\ ctime <= d.opens + Window
OpenFor(d) == d.phase = "ChallengeOpen" /\ ctime >= d.opens /\ ctime <= d.opens + Window

\* Mutant: a refused challenge leaves its bond locked.
RefuseKeepsBond(i, c) == UNCHANGED <<purse, held, eco>>
RefuseChallenge(i, c) == SettleBond(i, c, FALSE)

\* submit_challenge, under the DISPUTES lock.
SubmitChallenge(p) ==
    LET i == pipes[p].id
        c == pipes[p].challenger
        d == Known(i)
    IN  /\ pipes[p].at = "locked"
        /\ \/ /\ ~OpenFor(d)
              /\ RefuseChallenge(i, c)
              /\ disputes' = [disputes EXCEPT ![i] = d]
              /\ pipes' = [pipes EXCEPT ![p] = IdlePipe]
              /\ UNCHANGED filed
           \/ /\ OpenFor(d)
              /\ LET d2 == [d EXCEPT !.phase = "EvidencePending", !.challenger = c]
                 IN  disputes' = [disputes EXCEPT ![i] = d2] /\ filed' = [filed EXCEPT ![i] = d2]
              /\ pipes' = [pipes EXCEPT ![p].at = "proving"]
              /\ UNCHANGED <<purse, held, eco>>
        /\ UNCHANGED <<ctime, artifacts, stake, courtRuns>>

\* Mutant: a proof that did not come counts against the worker.
GuiltyWithoutProof(proof) == proof \in {"mismatch", "none"}
\* verdict_guilty
Guilty(proof) == proof = "mismatch"

\* The artifact is found (with every dispute goes one) and the prover answers or times out.
ProverEnds(p, proof) ==
    /\ pipes[p].at = "proving" /\ pipes[p].id \in artifacts
    /\ pipes' = [pipes EXCEPT ![p].at = "verdict", ![p].proof = proof]
    /\ courtRuns' = [courtRuns EXCEPT !.mismatches = IF proof = "mismatch" THEN @ + 1 ELSE @]
    /\ UNCHANGED <<ctime, disputes, filed, artifacts, purse, held, eco, stake>>

\* apply_slash_verdict up to the release of the DISPUTES lock: the phase, then the bond of
\* the challenger the dispute names.
Decide(i, guilty) ==
    LET d == [Known(i) EXCEPT !.phase = IF guilty THEN "SlashExecuted" ELSE "Dismissed"]
    IN  disputes' = [disputes EXCEPT ![i] = d] /\ filed' = [filed EXCEPT ![i] = d]

Verdict(p) ==
    LET i == pipes[p].id
        guilty == Guilty(pipes[p].proof)
        c == Known(i).challenger
    IN  /\ pipes[p].at = "verdict"
        /\ Decide(i, guilty)
        /\ IF c = "-" THEN UNCHANGED <<purse, held, eco>> ELSE SettleBond(i, c, guilty)
        /\ pipes' = [pipes EXCEPT ![p] = IF guilty THEN [@ EXCEPT !.at = "slash", !.worker = Known(i).worker]
                                                ELSE IdlePipe]
        /\ UNCHANGED <<ctime, artifacts, stake, courtRuns>>

\* The worker the dispute named loses the whole bond, if one is left.
Slash(p) ==
    /\ pipes[p].at = "slash"
    /\ SlashAll(pipes[p].worker)
    /\ pipes' = [pipes EXCEPT ![p] = IdlePipe]
    /\ UNCHANGED <<ctime, disputes, filed, artifacts, purse, held, courtRuns>>

(***************************************************************************)
(* Crashes and time                                                        *)
(***************************************************************************)
Die ==
    /\ courtRuns.crashes < MaxCourtCrashes
    /\ courtRuns' = [courtRuns EXCEPT !.crashes = @ + 1]
    /\ disputes' = [i \in Inference |-> NoDispute]
    /\ pipes' = [p \in Pipe |-> IdlePipe]
    /\ UNCHANGED <<ctime, artifacts, purse, held, eco, stake>>

CourtCrash == Die /\ UNCHANGED filed

\* The crash that falls between the stored verdict and the bond it settles.
CrashInVerdict(p) ==
    /\ pipes[p].at = "verdict"
    /\ Die
    /\ filed' = [filed EXCEPT ![pipes[p].id] =
                    [Known(pipes[p].id) EXCEPT
                        !.phase = IF Guilty(pipes[p].proof) THEN "SlashExecuted" ELSE "Dismissed"]]

CourtTick ==
    /\ ctime < MaxCourtTime
    /\ ctime' = ctime + 1
    /\ UNCHANGED <<disputes, filed, artifacts, purse, held, eco, stake, pipes, courtRuns>>

PipeStep(p) ==
    \/ SubmitChallenge(p) \/ Verdict(p) \/ Slash(p)
    \/ \E proof \in {"match", "mismatch", "none"} : ProverEnds(p, proof)

CourtNext ==
    \/ \E i \in Inference, w \in Worker : Deliver(i, w)
    \/ \E p \in Pipe : PipeStep(p) \/ CrashInVerdict(p)
    \/ \E p \in Pipe, i \in Inference, c \in Challenger : Challenge(p, i, c)
    \/ CourtCrash \/ CourtTick

CourtSpec == CourtInit /\ [][CourtNext]_courtVars

(***************************************************************************)
(* Properties                                                              *)
(***************************************************************************)
Redelivered(i) == courtRuns.delivered[i] > 1

\* Types; a dispute in memory, while no crash emptied it, is the one on disk.
CourtTypeOK ==
    /\ ctime \in 0..MaxCourtTime
    /\ purse \in [Challenger -> Nat] /\ stake \in [Worker -> Nat] /\ eco \in Nat
    /\ held \in [Inference \X Challenger -> {0, Bond}]
    /\ \A p \in Pipe : pipes[p].at \in {"idle", "locked", "proving", "verdict", "slash"}
    /\ \A i \in Inference : disputes[i] \in {NoDispute, filed[i]}

\* Every locked bond is somebody's running challenge: no refusal, verdict or error path
\* leaves one behind.  Only a crash during the challenge, and a redelivery of the same
\* prompt while it runs, do (submit_challenge, run_challenge_pipeline, apply_slash_verdict).
LockedIsRunning ==
    \A i \in Inference, c \in Challenger :
        held[<<i, c>>] > 0 /\ courtRuns.crashes = 0 /\ ~Redelivered(i)
        => \E p \in Pipe : pipes[p].id = i /\ pipes[p].challenger = c

\* No worker loses a bond, and no challenger is paid back, unless the prover returned a
\* receipt that verifies with a journal that differs: timeouts and failures never count.
NoPunishmentWithoutProof ==
    courtRuns.mismatches = 0 =>
        /\ \A w \in Worker : stake[w] = 2 * Bond
        /\ \A c \in Challenger : purse[c] \in {0, Bond}
        /\ \A i \in Inference : filed[i].phase # "SlashExecuted"

\* No bond without a challenge and no punishment without a proof.
CourtJust == CourtTypeOK /\ LockedIsRunning /\ NoPunishmentWithoutProof

\* A decided dispute stays as it was decided: a second challenge finds it closed.  Only a
\* new delivery of the same prompt opens it again.
OneVerdict ==
    [][\A i \in Inference :
        filed[i].phase \in {"SlashExecuted", "Dismissed"} /\ ~Redelivered(i)'
        => filed'[i] = filed[i]]_courtVars

\* The court moves money only as the escrow allows (lock and settle are transactions): the
\* bonds, purses, stakes and the ecosystem wallet behave as BondEscrow says.
Escrow == INSTANCE BondEscrow WITH purse <- purse, held <- held, eco <- eco, stake <- stake
EscrowHolds == Escrow!EscrowSpec

\* Under the scheduling of the pipelines a bond that is locked is settled, unless a crash or
\* a redelivery takes the challenge away.
BondSettles ==
    \A i \in Inference, c \in Challenger :
        held[<<i, c>>] > 0 ~> (held[<<i, c>>] = 0 \/ courtRuns.crashes > 0 \/ Redelivered(i))
================================================================================
