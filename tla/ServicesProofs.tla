---------------------------- MODULE ServicesProofs ----------------------------
(*****************************************************************************)
(* Proofs about the services a node offers: the ZK court and the escrow it   *)
(* implements, the wallets that pay grants and fees, the AI workload tasks,  *)
(* paid inference, and the registry of anonymous members.                    *)
(*****************************************************************************)
EXTENDS ZkCourt, Payouts, Workloads, Inference, AnonRegistry, DataLemmas

-----------------------------------------------------------------------------
(* The ZK court.                                                             *)

Phases == {"None", "ChallengeOpen", "EvidencePending", "SlashExecuted", "Dismissed"}
Disputes == [phase : Phases, worker : Worker \cup {"-"}, challenger : Challenger \cup {"-"}, opens : Nat]
Pipes == [at : {"idle"}, id : {"-"}, challenger : {"-"}, proof : {"none"}, worker : {"-"}]
    \cup [at : {"locked", "proving", "verdict", "slash"}, id : Inference, challenger : Challenger,
          proof : {"match", "mismatch", "none"}, worker : Worker \cup {"-"}]

\* The pipelines that have marked their dispute and not yet decided it.
OnTrial(p) == pipes[p].at \in {"proving", "verdict"}
Running(p) == pipes[p].at \in {"locked", "proving", "verdict"}

\* The court's ledger, disputes and pipelines have their types.
CourtTypes ==
    /\ ctime \in 0..MaxCourtTime
    /\ purse \in [Challenger -> Nat] /\ stake \in [Worker -> Nat] /\ eco \in Nat
    /\ held \in [Inference \X Challenger -> {0, Bond}]
    /\ pipes \in [Pipe -> Pipes]
    /\ disputes \in [Inference -> Disputes] /\ filed \in [Inference -> Disputes]
    /\ courtRuns \in [delivered : [Inference -> Nat], crashes : Nat, mismatches : Nat]

\* A dispute in memory is the one on the ledger.
Mirrored == \A i \in Inference : disputes[i] \in {NoDispute, filed[i]}
\* No dispute before the inference was delivered.
Undelivered == \A i \in Inference : courtRuns.delivered[i] = 0 => filed[i] = NoDispute
\* A dispute on file names its worker.
WorkerNamed == \A i \in Inference : filed[i].phase # "None" => filed[i].worker \in Worker
\* A pipeline about to slash knows whom.
SlashedNamed == \A p \in Pipe : pipes[p].at = "slash" => pipes[p].worker \in Worker
\* What is on trial is on file.
TrialFiled == \A p \in Pipe : OnTrial(p) => filed[pipes[p].id].phase # "None"
\* A dispute on trial is marked so on the ledger, for the challenger whose pipeline runs,
\* unless it was delivered again.
Marked ==
    \A p \in Pipe : \A i \in Inference :
        OnTrial(p) /\ pipes[p].id = i /\ ~Redelivered(i)
        => filed[i].phase = "EvidencePending" /\ filed[i].challenger = pipes[p].challenger
\* One trial at a time for an inference, unless it was delivered again.
OneTrial ==
    \A p, q \in Pipe : \A i \in Inference :
        OnTrial(p) /\ OnTrial(q) /\ pipes[p].id = i /\ pipes[q].id = i /\ ~Redelivered(i) => p = q
\* A held bond has a pipeline that will release it, as long as no process crashed.
HeldRuns ==
    \A i \in Inference, c \in Challenger :
        held[<<i, c>>] > 0 /\ courtRuns.crashes = 0 /\ ~Redelivered(i)
        => \E p \in Pipe : Running(p) /\ pipes[p].id = i /\ pipes[p].challenger = c
\* Before the first mismatch nobody has lost or won anything.
Unproved ==
    courtRuns.mismatches = 0 =>
        /\ \A w \in Worker : stake[w] = 2 * Bond
        /\ \A c \in Challenger : purse[c] \in {0, Bond}
        /\ \A i \in Inference : filed[i].phase # "SlashExecuted"
        /\ \A p \in Pipe : pipes[p].at # "slash" /\ pipes[p].proof # "mismatch"

\* The inductive invariant of the court.
CourtInv == 
    /\ CourtTypes /\ Mirrored /\ Undelivered /\ WorkerNamed /\ SlashedNamed
    /\ TrialFiled /\ Marked /\ OneTrial /\ HeldRuns /\ Unproved

\* The map and the tree never disagree, so the dispute a handler reads is the stored one.
LEMMA KnownIsFiled ==
    ASSUME Mirrored, NEW i \in Inference
    PROVE  Known(i) = filed[i]
BY DEF Mirrored, Known

\* Opening the challenge window of a delivered inference keeps the invariant.
LEMMA DeliverKeeps ==
    ASSUME CourtInv, NEW i \in Inference, NEW w \in Worker, Deliver(i, w)
    PROVE  CourtInv'
<1> DEFINE d == [phase |-> "ChallengeOpen", worker |-> w, challenger |-> "-", opens |-> ctime]
<1> USE CourtAssumption
<1>1. /\ disputes' = [disputes EXCEPT ![i] = d] /\ filed' = [filed EXCEPT ![i] = d]
      /\ courtRuns' = [courtRuns EXCEPT !.delivered[i] = @ + 1]
      /\ ctime' = ctime /\ purse' = purse /\ held' = held /\ eco' = eco /\ stake' = stake /\ pipes' = pipes
  BY DEF Deliver
<1>2. d \in Disputes /\ d.phase = "ChallengeOpen" /\ d.worker = w
  BY DEF CourtInv, CourtTypes, Disputes, Phases
<1> HIDE DEF d
<1>3. CourtTypes'
  BY <1>1, <1>2 DEF CourtInv, CourtTypes
<1>4. /\ courtRuns'.crashes = courtRuns.crashes /\ courtRuns'.mismatches = courtRuns.mismatches
      /\ courtRuns'.delivered = [courtRuns.delivered EXCEPT ![i] = @ + 1]
  BY <1>1 DEF CourtInv, CourtTypes
<1>5. \A j \in Inference : Redelivered(j) => Redelivered(j)'
  BY <1>4 DEF CourtInv, CourtTypes, Redelivered
<1>6. ~Redelivered(i)' => filed[i].phase = "None"
  BY <1>4 DEF CourtInv, CourtTypes, Redelivered, Undelivered, NoDispute
<1>7. Mirrored' /\ Undelivered' /\ WorkerNamed' /\ SlashedNamed' /\ TrialFiled'
  BY <1>1, <1>2, <1>4 DEF CourtInv, CourtTypes, Mirrored, Undelivered, WorkerNamed, SlashedNamed, TrialFiled, OnTrial
<1>8. Marked' /\ OneTrial'
  BY <1>1, <1>2, <1>5, <1>6 DEF CourtInv, CourtTypes, Marked, OneTrial, OnTrial
<1>9. HeldRuns'
  BY <1>1, <1>4, <1>5 DEF CourtInv, HeldRuns, Running
<1>10. Unproved'
  BY <1>1, <1>2, <1>4 DEF CourtInv, CourtTypes, Unproved
<1> QED
  BY <1>3, <1>7, <1>8, <1>9, <1>10 DEF CourtInv

\* Locking a challenger's bond keeps the invariant.
LEMMA ChallengeKeeps ==
    ASSUME CourtInv, NEW p \in Pipe, NEW i \in Inference, NEW c \in Challenger, Challenge(p, i, c)
    PROVE  CourtInv'
<1> DEFINE r == [at |-> "locked", id |-> i, challenger |-> c, proof |-> "none", worker |-> "-"]
<1> USE CourtAssumption
<1>1. /\ held[<<i, c>>] = 0 /\ purse[c] >= Bond
      /\ purse' = [purse EXCEPT ![c] = @ - Bond] /\ held' = [held EXCEPT ![<<i, c>>] = Bond]
      /\ pipes' = [pipes EXCEPT ![p] = r] /\ pipes[p].at = "idle"
      /\ ctime' = ctime /\ disputes' = disputes /\ filed' = filed /\ eco' = eco /\ stake' = stake
      /\ courtRuns' = courtRuns
  BY DEF Challenge, LockBond, IdlePipe
<1>2. r \in Pipes /\ r.at = "locked" /\ r.id = i /\ r.challenger = c /\ r.proof = "none"
  BY DEF Pipes
<1> HIDE DEF r
<1>3. CourtTypes'
  BY <1>1, <1>2 DEF CourtInv, CourtTypes
<1>4. Mirrored' /\ Undelivered' /\ WorkerNamed' /\ SlashedNamed' /\ TrialFiled'
  BY <1>1, <1>2 DEF CourtInv, CourtTypes, Mirrored, Undelivered, WorkerNamed, SlashedNamed, TrialFiled, OnTrial
<1>5. Marked' /\ OneTrial'
  BY <1>1, <1>2 DEF CourtInv, CourtTypes, Marked, OneTrial, OnTrial, Redelivered
<1>6. HeldRuns'
  BY <1>1, <1>2 DEF CourtInv, CourtTypes, HeldRuns, Running, Redelivered
<1>7. Unproved'
  BY <1>1, <1>2 DEF CourtInv, CourtTypes, Unproved
<1> QED
  BY <1>3, <1>4, <1>5, <1>6, <1>7 DEF CourtInv

\* Marking the dispute, or finding that it is no longer open, keeps the invariant.
LEMMA SubmitKeeps ==
    ASSUME CourtInv, NEW p \in Pipe, SubmitChallenge(p)
    PROVE  CourtInv'
<1> USE CourtAssumption
<1> DEFINE i == pipes[p].id
           c == pipes[p].challenger
           d == filed[i]
<1>1. /\ pipes[p].at = "locked" /\ i \in Inference /\ c \in Challenger /\ pipes[p] \in Pipes
      /\ pipes[p].proof \in {"match", "mismatch", "none"}
  BY DEF SubmitChallenge, CourtInv, CourtTypes, Pipes
<1>2. Known(i) = d
  BY <1>1, KnownIsFiled DEF CourtInv
<1>3. ctime' = ctime /\ stake' = stake /\ courtRuns' = courtRuns
  BY DEF SubmitChallenge
<1>4. CASE ~OpenFor(d)
  <2>1. /\ held' = [held EXCEPT ![<<i, c>>] = 0] /\ purse' = purse /\ eco' = eco + held[<<i, c>>]
        /\ disputes' = [disputes EXCEPT ![i] = d] /\ pipes' = [pipes EXCEPT ![p] = IdlePipe] /\ filed' = filed
    BY <1>2, <1>4 DEF SubmitChallenge, RefuseChallenge, SettleBond
  <2>2. IdlePipe \in Pipes /\ IdlePipe.at = "idle" /\ IdlePipe.proof = "none"
    BY DEF IdlePipe, Pipes
  <2> HIDE DEF i, c, d
  <2>3. CourtTypes'
    BY <1>1, <1>3, <2>1, <2>2 DEF CourtInv, CourtTypes, d
  <2>4. Mirrored' /\ Undelivered' /\ WorkerNamed' /\ SlashedNamed' /\ TrialFiled'
    BY <1>1, <1>3, <2>1, <2>2
       DEF CourtInv, CourtTypes, Mirrored, Undelivered, WorkerNamed, SlashedNamed, TrialFiled, OnTrial, d
  <2>5. Marked' /\ OneTrial'
    BY <1>3, <2>1, <2>2 DEF CourtInv, CourtTypes, Marked, OneTrial, OnTrial, Redelivered
  <2>6. HeldRuns'
    BY <1>1, <1>3, <2>1, <2>2 DEF CourtInv, CourtTypes, HeldRuns, Running, Redelivered, i, c
  <2>7. Unproved'
    BY <1>3, <2>1, <2>2 DEF CourtInv, CourtTypes, Unproved
  <2> QED
    BY <2>3, <2>4, <2>5, <2>6, <2>7 DEF CourtInv
<1>5. CASE OpenFor(d)
  <2> DEFINE d2 == [d EXCEPT !.phase = "EvidencePending", !.challenger = c]
             r == [pipes[p] EXCEPT !.at = "proving"]
  <2>1. /\ disputes' = [disputes EXCEPT ![i] = d2] /\ filed' = [filed EXCEPT ![i] = d2]
        /\ pipes' = [pipes EXCEPT ![p] = r]
        /\ purse' = purse /\ held' = held /\ eco' = eco
    BY <1>2, <1>5 DEF SubmitChallenge
  <2>2. d.phase = "ChallengeOpen" /\ d \in Disputes
    BY <1>1, <1>5 DEF OpenFor, CourtInv, CourtTypes
  <2>3. d2 \in Disputes /\ d2.phase = "EvidencePending" /\ d2.challenger = c /\ d2.worker = d.worker
    <3> HIDE DEF d
    <3> QED BY <1>1, <2>2 DEF Disputes, Phases
  <2>4. /\ r \in Pipes /\ r.at = "proving" /\ r.id = i /\ r.challenger = c
        /\ r.proof = pipes[p].proof
    BY <1>1 DEF Pipes
  <2> HIDE DEF d2, r, i, c, d
  <2>5. CourtTypes'
    BY <1>1, <1>3, <2>1, <2>3, <2>4 DEF CourtInv, CourtTypes
  <2>6. Mirrored' /\ WorkerNamed' /\ SlashedNamed' /\ TrialFiled'
    BY <1>1, <1>3, <2>1, <2>2, <2>3, <2>4
       DEF CourtInv, CourtTypes, Mirrored, WorkerNamed, SlashedNamed, TrialFiled, OnTrial, d
  <2>7. Undelivered'
    BY <1>1, <1>3, <2>1, <2>2 DEF CourtInv, CourtTypes, Undelivered, NoDispute, d
  <2>8. Marked' /\ OneTrial'
    BY <1>1, <1>3, <2>1, <2>2, <2>3, <2>4
       DEF CourtInv, CourtTypes, Marked, OneTrial, OnTrial, Redelivered, d
  <2>9. HeldRuns'
    BY <1>1, <1>3, <2>1, <2>4 DEF CourtInv, CourtTypes, HeldRuns, Running, Redelivered, i, c
  <2>10. Unproved'
    BY <1>1, <1>3, <2>1, <2>3, <2>4 DEF CourtInv, CourtTypes, Unproved
  <2> QED
    BY <2>5, <2>6, <2>7, <2>8, <2>9, <2>10 DEF CourtInv
<1> QED
  BY <1>4, <1>5

\* The prover's answer keeps the invariant.
LEMMA ProverKeeps ==
    ASSUME CourtInv, NEW p \in Pipe, NEW proof \in {"match", "mismatch", "none"}, ProverEnds(p, proof)
    PROVE  CourtInv'
<1> USE CourtAssumption
<1> DEFINE r == [pipes[p] EXCEPT !.at = "verdict", !.proof = proof]
<1>1. /\ pipes[p].at = "proving" /\ pipes[p].id \in Inference /\ pipes[p].challenger \in Challenger
      /\ pipes[p] \in Pipes
  BY DEF ProverEnds, CourtInv, CourtTypes, Pipes
<1>2. /\ pipes' = [pipes EXCEPT ![p] = r]
      /\ courtRuns' = [courtRuns EXCEPT !.mismatches = IF proof = "mismatch" THEN @ + 1 ELSE @]
      /\ ctime' = ctime /\ disputes' = disputes /\ filed' = filed /\ purse' = purse /\ held' = held
      /\ eco' = eco /\ stake' = stake
  BY DEF ProverEnds
<1>3. /\ r \in Pipes /\ r.at = "verdict" /\ r.id = pipes[p].id /\ r.challenger = pipes[p].challenger
      /\ r.proof = proof
  BY <1>1 DEF Pipes
<1> HIDE DEF r
<1>4. /\ courtRuns' \in [delivered : [Inference -> Nat], crashes : Nat, mismatches : Nat]
      /\ courtRuns'.crashes = courtRuns.crashes /\ courtRuns'.delivered = courtRuns.delivered
      /\ courtRuns'.mismatches = 0 => courtRuns.mismatches = 0 /\ proof # "mismatch"
  BY <1>2 DEF CourtInv, CourtTypes
<1>5. CourtTypes'
  BY <1>2, <1>3, <1>4 DEF CourtInv, CourtTypes
<1>6. Mirrored' /\ Undelivered' /\ WorkerNamed' /\ SlashedNamed' /\ TrialFiled'
  BY <1>1, <1>2, <1>3, <1>4
     DEF CourtInv, CourtTypes, Mirrored, Undelivered, WorkerNamed, SlashedNamed, TrialFiled, OnTrial
<1>7. Marked' /\ OneTrial'
  BY <1>1, <1>2, <1>3, <1>4 DEF CourtInv, CourtTypes, Marked, OneTrial, OnTrial, Redelivered
<1>8. HeldRuns'
  BY <1>1, <1>2, <1>3, <1>4 DEF CourtInv, CourtTypes, HeldRuns, Running, Redelivered
<1>9. Unproved'
  BY <1>2, <1>3, <1>4 DEF CourtInv, CourtTypes, Unproved
<1> QED
  BY <1>5, <1>6, <1>7, <1>8, <1>9 DEF CourtInv

\* What a bond's settlement does to the rest of the invariant.
LEMMA SettleBounds ==
    ASSUME CourtTypes, NEW i \in Inference, NEW c \in Challenger, NEW valid \in BOOLEAN,
           SettleBond(i, c, valid)
    PROVE  /\ purse' \in [Challenger -> Nat] /\ eco' \in Nat
           /\ held' \in [Inference \X Challenger -> {0, Bond}]
           /\ held' = [held EXCEPT ![<<i, c>>] = 0]
           /\ ~valid => purse' = purse
BY CourtAssumption DEF SettleBond, CourtTypes

\* A verdict changes the phase of a dispute and nothing else of it.
LEMMA DecidedDispute ==
    ASSUME NEW f \in Disputes, NEW g \in BOOLEAN,
           NEW d, d = [f EXCEPT !.phase = IF g THEN "SlashExecuted" ELSE "Dismissed"]
    PROVE  /\ d \in Disputes /\ d.worker = f.worker
           /\ d.phase = IF g THEN "SlashExecuted" ELSE "Dismissed"
BY DEF Disputes, Phases

\* A verdict, which settles the bond and the dispute, keeps the invariant.
LEMMA VerdictKeeps ==
    ASSUME CourtInv, NEW p \in Pipe, Verdict(p)
    PROVE  CourtInv'
<1> USE CourtAssumption
<1> DEFINE i == pipes[p].id
           guilty == Guilty(pipes[p].proof)
           c == filed[i].challenger
           d == [filed[i] EXCEPT !.phase = IF guilty THEN "SlashExecuted" ELSE "Dismissed"]
           r == IF guilty THEN [pipes[p] EXCEPT !.at = "slash", !.worker = filed[i].worker] ELSE IdlePipe
<1>1. /\ pipes[p].at = "verdict" /\ i \in Inference /\ pipes[p] \in Pipes
      /\ pipes[p].challenger \in Challenger /\ guilty \in BOOLEAN
  BY DEF Verdict, CourtInv, CourtTypes, Pipes, Guilty
<1>2. Known(i) = filed[i]
  BY <1>1, KnownIsFiled DEF CourtInv
<1>3. /\ disputes' = [disputes EXCEPT ![i] = d] /\ filed' = [filed EXCEPT ![i] = d]
      /\ pipes' = [pipes EXCEPT ![p] = r]
      /\ ctime' = ctime /\ stake' = stake /\ courtRuns' = courtRuns
  BY <1>2 DEF Verdict, Decide
<1>4. IF c = "-" THEN purse' = purse /\ held' = held /\ eco' = eco ELSE SettleBond(i, c, guilty)
  BY <1>2 DEF Verdict
<1>5. /\ filed[i] \in Disputes /\ filed[i].phase # "None" /\ filed[i].worker \in Worker
      /\ c \in Challenger \cup {"-"}
  BY <1>1 DEF CourtInv, CourtTypes, TrialFiled, WorkerNamed, OnTrial, Disputes
<1>6. /\ d \in Disputes /\ d.worker = filed[i].worker /\ d.phase # "None"
      /\ ~guilty => d.phase = "Dismissed"
  <2> HIDE DEF guilty
  <2> QED BY <1>1, <1>5, DecidedDispute
<1>7. /\ r \in Pipes /\ r.at \in {"idle", "slash"}
      /\ r.at = "slash" => r.worker \in Worker /\ guilty
      /\ guilty => r.id = i /\ r.challenger = pipes[p].challenger
      /\ r.proof \in {"none", pipes[p].proof}
  <2>1. CASE guilty
    <3>1. r = [pipes[p] EXCEPT !.at = "slash", !.worker = filed[i].worker]
      BY <2>1
    <3> HIDE DEF r, guilty
    <3> QED BY <1>1, <1>5, <2>1, <3>1 DEF Pipes
  <2>2. CASE ~guilty
    <3>1. r = IdlePipe
      BY <2>2
    <3> HIDE DEF r, guilty
    <3> QED BY <2>2, <3>1 DEF Pipes, IdlePipe
  <2> QED BY <2>1, <2>2
<1>8. guilty => courtRuns.mismatches > 0
  BY <1>1 DEF Guilty, CourtInv, CourtTypes, Unproved
<1>9. /\ purse' \in [Challenger -> Nat] /\ eco' \in Nat
      /\ held' \in [Inference \X Challenger -> {0, Bond}]
      /\ \A j \in Inference, e \in Challenger : held'[<<j, e>>] > 0 => held[<<j, e>>] > 0
      /\ c # "-" => held'[<<i, c>>] = 0
      /\ ~guilty => purse' = purse
  <2> HIDE DEF i, guilty, c, d, r
  <2>1. CourtTypes
    BY DEF CourtInv
  <2>2. CASE c = "-"
    BY <1>4, <2>1, <2>2 DEF CourtTypes
  <2>3. CASE c # "-"
    BY <1>1, <1>4, <1>5, <2>1, <2>3, SettleBounds DEF CourtTypes
  <2> QED BY <2>2, <2>3
<1>10. ~Redelivered(i) => c = pipes[p].challenger
  BY <1>1 DEF CourtInv, Marked, OnTrial
<1>11. \A q \in Pipe : q # p /\ ~Redelivered(i) /\ pipes[q].id = i => ~OnTrial(q)
  BY <1>1 DEF CourtInv, OneTrial, OnTrial
<1> HIDE DEF guilty, d, r, i, c
<1>12. CourtTypes'
  BY <1>1, <1>3, <1>6, <1>7, <1>9 DEF CourtInv, CourtTypes
<1>13. Mirrored' /\ Undelivered' /\ WorkerNamed' /\ SlashedNamed' /\ TrialFiled'
  BY <1>1, <1>3, <1>5, <1>6, <1>7
     DEF CourtInv, CourtTypes, Mirrored, Undelivered, WorkerNamed, SlashedNamed, TrialFiled, OnTrial, NoDispute
<1>14. Marked' /\ OneTrial'
  BY <1>1, <1>3, <1>7, <1>11 DEF CourtInv, CourtTypes, Marked, OneTrial, OnTrial, Redelivered
<1>15. HeldRuns'
  <2> SUFFICES ASSUME NEW j \in Inference, NEW e \in Challenger,
                      held'[<<j, e>>] > 0, courtRuns.crashes = 0, ~Redelivered(j)
               PROVE  \E q \in Pipe : Running(q)' /\ pipes'[q].id = j /\ pipes'[q].challenger = e
    BY <1>3 DEF HeldRuns, Redelivered
  <2>1. PICK q \in Pipe : Running(q) /\ pipes[q].id = j /\ pipes[q].challenger = e
    BY <1>9 DEF CourtInv, HeldRuns
  <2>2. q # p
    <3> SUFFICES ASSUME q = p PROVE FALSE
      OBVIOUS
    <3>1. j = i /\ e = c
      BY <1>10, <2>1 DEF i
    <3>2. held'[<<j, e>>] = 0
      BY <1>9, <3>1
    <3> QED BY <3>2
  <2>3. pipes'[q] = pipes[q]
    BY <1>3, <2>2 DEF CourtInv, CourtTypes
  <2> QED BY <2>1, <2>3 DEF Running
<1>16. Unproved'
  BY <1>1, <1>3, <1>6, <1>7, <1>8, <1>9 DEF CourtInv, CourtTypes, Unproved
<1> QED
  BY <1>12, <1>13, <1>14, <1>15, <1>16 DEF CourtInv

\* Slashing the worker's stake keeps the invariant.
LEMMA SlashKeeps ==
    ASSUME CourtInv, NEW p \in Pipe, Slash(p)
    PROVE  CourtInv'
<1> USE CourtAssumption
<1> DEFINE w == pipes[p].worker
<1>1. pipes[p].at = "slash" /\ w \in Worker
  BY DEF Slash, CourtInv, SlashedNamed
<1>2. /\ eco' = eco + stake[w] /\ stake' = [stake EXCEPT ![w] = 0]
      /\ pipes' = [pipes EXCEPT ![p] = IdlePipe]
      /\ ctime' = ctime /\ disputes' = disputes /\ filed' = filed /\ purse' = purse /\ held' = held
      /\ courtRuns' = courtRuns
  BY DEF Slash, SlashAll
<1>3. IdlePipe \in Pipes /\ IdlePipe.at = "idle" /\ IdlePipe.proof = "none"
  BY DEF IdlePipe, Pipes
<1> HIDE DEF w
<1>4. CourtTypes'
  BY <1>1, <1>2, <1>3 DEF CourtInv, CourtTypes
<1>5. Mirrored' /\ Undelivered' /\ WorkerNamed' /\ SlashedNamed' /\ TrialFiled'
  BY <1>2, <1>3
     DEF CourtInv, CourtTypes, Mirrored, Undelivered, WorkerNamed, SlashedNamed, TrialFiled, OnTrial
<1>6. Marked' /\ OneTrial'
  BY <1>2, <1>3 DEF CourtInv, CourtTypes, Marked, OneTrial, OnTrial, Redelivered
<1>7. HeldRuns'
  <2>1. \A q \in Pipe : Running(q) => q # p
    BY <1>1 DEF Running
  <2>2. \A q \in Pipe : Running(q) => pipes'[q] = pipes[q]
    BY <1>2, <2>1 DEF CourtInv, CourtTypes
  <2> QED
    BY <1>2, <2>2 DEF CourtInv, HeldRuns, Running, Redelivered
<1>8. Unproved'
  BY <1>1, <1>2, <1>3 DEF CourtInv, CourtTypes, Unproved
<1> QED
  BY <1>4, <1>5, <1>6, <1>7, <1>8 DEF CourtInv

\* A crash empties the map and the tasks; the stored disputes have at most one verdict more.
LEMMA DieKeeps ==
    ASSUME CourtInv, Die, filed' \in [Inference -> Disputes],
           \A i \in Inference :
              \/ filed'[i] = filed[i]
              \/ /\ filed[i].phase # "None" /\ filed'[i].phase # "None"
                 /\ filed'[i].worker = filed[i].worker
                 /\ courtRuns.mismatches = 0 => filed'[i].phase # "SlashExecuted"
    PROVE  CourtInv'
<1> USE CourtAssumption
<1>1. /\ courtRuns' = [courtRuns EXCEPT !.crashes = @ + 1]
      /\ disputes' = [i \in Inference |-> NoDispute] /\ pipes' = [p \in Pipe |-> IdlePipe]
      /\ ctime' = ctime /\ purse' = purse /\ held' = held /\ eco' = eco /\ stake' = stake
  BY DEF Die
<1>2. IdlePipe \in Pipes /\ IdlePipe.at = "idle" /\ IdlePipe.proof = "none" /\ NoDispute \in Disputes
  BY DEF IdlePipe, Pipes, NoDispute, Disputes, Phases
<1>3. /\ courtRuns' \in [delivered : [Inference -> Nat], crashes : Nat, mismatches : Nat]
      /\ courtRuns'.crashes > 0 /\ courtRuns'.delivered = courtRuns.delivered
      /\ courtRuns'.mismatches = courtRuns.mismatches
  BY <1>1 DEF CourtInv, CourtTypes
<1>4. CourtTypes'
  BY <1>1, <1>2, <1>3 DEF CourtInv, CourtTypes
<1>5. Mirrored' /\ SlashedNamed' /\ TrialFiled' /\ Marked' /\ OneTrial'
  BY <1>1, <1>2 DEF Mirrored, SlashedNamed, TrialFiled, Marked, OneTrial, OnTrial
<1>6. Undelivered' /\ WorkerNamed'
  BY <1>3 DEF CourtInv, Undelivered, WorkerNamed, NoDispute
<1>7. HeldRuns' /\ Unproved'
  BY <1>1, <1>2, <1>3 DEF CourtInv, CourtTypes, HeldRuns, Unproved
<1> QED
  BY <1>4, <1>5, <1>6, <1>7 DEF CourtInv

\* A crash of the process keeps the invariant.
LEMMA CrashKeeps ==
    ASSUME CourtInv, CourtCrash
    PROVE  CourtInv'
BY DieKeeps DEF CourtCrash, CourtInv, CourtTypes

\* A crash between the ledger's settlement and the map keeps the invariant.
LEMMA CrashInVerdictKeeps ==
    ASSUME CourtInv, NEW p \in Pipe, CrashInVerdict(p)
    PROVE  CourtInv'
<1> DEFINE i == pipes[p].id
           guilty == Guilty(pipes[p].proof)
           d == [filed[i] EXCEPT !.phase = IF guilty THEN "SlashExecuted" ELSE "Dismissed"]
<1>1. pipes[p].at = "verdict" /\ i \in Inference /\ guilty \in BOOLEAN /\ Die
  BY DEF CrashInVerdict, CourtInv, CourtTypes, Pipes, Guilty
<1>2. filed' = [filed EXCEPT ![i] = d]
  BY <1>1, KnownIsFiled DEF CrashInVerdict, CourtInv
<1>3. filed[i] \in Disputes /\ filed[i].phase # "None"
  BY <1>1 DEF CourtInv, CourtTypes, TrialFiled, OnTrial
<1>4. courtRuns.mismatches = 0 => ~guilty
  BY DEF Guilty, CourtInv, Unproved
<1> HIDE DEF guilty, i
<1>5. /\ d \in Disputes /\ d.worker = filed[i].worker /\ d.phase # "None"
      /\ ~guilty => d.phase = "Dismissed"
  BY <1>1, <1>3, DecidedDispute
<1> HIDE DEF d
<1>6. filed' \in [Inference -> Disputes]
  BY <1>1, <1>2, <1>5 DEF CourtInv, CourtTypes
<1>7. \A j \in Inference :
         \/ filed'[j] = filed[j]
         \/ /\ filed[j].phase # "None" /\ filed'[j].phase # "None"
            /\ filed'[j].worker = filed[j].worker
            /\ courtRuns.mismatches = 0 => filed'[j].phase # "SlashExecuted"
  BY <1>1, <1>2, <1>3, <1>4, <1>5 DEF CourtInv, CourtTypes
<1> QED
  BY <1>1, <1>6, <1>7, DieKeeps

\* Time passing keeps the invariant.
LEMMA TickKeeps ==
    ASSUME CourtInv, CourtTick
    PROVE  CourtInv'
<1> USE CourtAssumption
<1>1. /\ ctime < MaxCourtTime /\ ctime' = ctime + 1
      /\ disputes' = disputes /\ filed' = filed /\ purse' = purse /\ held' = held /\ eco' = eco
      /\ stake' = stake /\ pipes' = pipes /\ courtRuns' = courtRuns
  BY DEF CourtTick
<1> QED
  BY <1>1 DEF CourtInv, CourtTypes, Mirrored, Undelivered, WorkerNamed, SlashedNamed, TrialFiled, Marked,
              OneTrial, HeldRuns, Unproved, OnTrial, Running, Redelivered

\* The court starts within its invariant.
LEMMA CourtInitInv == CourtInit => CourtInv
<1> SUFFICES ASSUME CourtInit PROVE CourtInv
  OBVIOUS
<1> USE CourtAssumption
<1>1. /\ IdlePipe \in Pipes /\ IdlePipe.at = "idle" /\ IdlePipe.proof = "none"
      /\ NoDispute \in Disputes /\ NoDispute.phase = "None"
  BY DEF IdlePipe, Pipes, NoDispute, Disputes, Phases
<1>2. CourtTypes
  BY <1>1 DEF CourtInit, CourtTypes
<1>3. Mirrored /\ Undelivered /\ WorkerNamed /\ SlashedNamed /\ TrialFiled /\ Marked /\ OneTrial
  BY <1>1 DEF CourtInit, Mirrored, Undelivered, WorkerNamed, SlashedNamed, TrialFiled, Marked, OneTrial, OnTrial
<1>4. HeldRuns /\ Unproved
  BY <1>1 DEF CourtInit, HeldRuns, Unproved
<1> QED
  BY <1>2, <1>3, <1>4 DEF CourtInv

\* Every step of the court keeps the invariant.
LEMMA CourtStepInv == CourtInv /\ [CourtNext]_courtVars => CourtInv'
<1> SUFFICES ASSUME CourtInv, [CourtNext]_courtVars PROVE CourtInv'
  OBVIOUS
<1>1. CASE \E i \in Inference, w \in Worker : Deliver(i, w)
  BY <1>1, DeliverKeeps
<1>2. CASE \E p \in Pipe : PipeStep(p) \/ CrashInVerdict(p)
  BY <1>2, SubmitKeeps, VerdictKeeps, SlashKeeps, ProverKeeps, CrashInVerdictKeeps DEF PipeStep
<1>3. CASE \E p \in Pipe, i \in Inference, c \in Challenger : Challenge(p, i, c)
  BY <1>3, ChallengeKeeps
<1>4. CASE CourtCrash \/ CourtTick
  BY <1>4, CrashKeeps, TickKeeps
<1>5. CASE UNCHANGED courtVars
  BY <1>5 DEF courtVars, CourtInv, CourtTypes, Mirrored, Undelivered, WorkerNamed, SlashedNamed, TrialFiled,
              Marked, OneTrial, HeldRuns, Unproved, OnTrial, Running, Redelivered
<1> QED
  BY <1>1, <1>2, <1>3, <1>4, <1>5 DEF CourtNext

\* The invariant holds in every state the court reaches, whatever the number of
\* inferences, workers, challengers and pipelines.
THEOREM CourtInvariant == CourtSpec => []CourtInv
BY CourtInitInv, CourtStepInv, PTL DEF CourtSpec

\* A worker loses its stake only after a proof that it cheated, a bond is held only for a
\* running challenge, and the coins of the court are conserved (zk_court.rs, ledger bond
\* operations), for all constants.
THEOREM CourtIsJust == CourtSpec => []CourtJust
<1>1. CourtInv => CourtJust
  <2> SUFFICES ASSUME CourtInv PROVE CourtJust
    OBVIOUS
  <2>1. CourtTypeOK
    BY DEF CourtInv, CourtTypes, CourtTypeOK, Mirrored, Pipes
  <2>2. LockedIsRunning
    BY DEF CourtInv, HeldRuns, LockedIsRunning
  <2>3. NoPunishmentWithoutProof
    BY DEF CourtInv, Unproved, NoPunishmentWithoutProof
  <2> QED
    BY <2>1, <2>2, <2>3 DEF CourtJust
<1> QED
  BY <1>1, CourtInvariant, PTL

Standing ==
    \A i \in Inference :
        filed[i].phase \in {"SlashExecuted", "Dismissed"} /\ ~Redelivered(i)' => filed'[i] = filed[i]

\* No step changes a dispute that was decided, but a new delivery.
LEMMA VerdictStands == CourtInv /\ [CourtNext]_courtVars => [Standing]_courtVars
<1> SUFFICES ASSUME CourtInv, CourtNext,
                    NEW i \in Inference, filed[i].phase \in {"SlashExecuted", "Dismissed"}, ~Redelivered(i)'
             PROVE  filed'[i] = filed[i]
  BY DEF Standing
<1>1. ASSUME NEW j \in Inference, NEW w \in Worker, Deliver(j, w) PROVE filed'[i] = filed[i]
  <2>1. courtRuns'.delivered = [courtRuns.delivered EXCEPT ![j] = @ + 1]
    BY <1>1 DEF Deliver, CourtInv, CourtTypes
  <2>2. i # j
    BY <2>1 DEF CourtInv, CourtTypes, Redelivered, Undelivered, NoDispute
  <2> QED BY <1>1, <2>2 DEF Deliver, CourtInv, CourtTypes
<1>2. ASSUME NEW p \in Pipe, SubmitChallenge(p) PROVE filed'[i] = filed[i]
  <2>1. pipes[p].id \in Inference
    BY <1>2 DEF SubmitChallenge, CourtInv, CourtTypes, Pipes
  <2>2. CASE filed' = filed
    BY <2>2
  <2>3. CASE OpenFor(filed[pipes[p].id])
    BY <1>2, <2>1, <2>3, KnownIsFiled DEF SubmitChallenge, OpenFor, CourtInv, CourtTypes
  <2> QED BY <1>2, <2>1, <2>2, <2>3, KnownIsFiled DEF SubmitChallenge, CourtInv
<1>3. ASSUME NEW p \in Pipe, pipes[p].at = "verdict", courtRuns'.delivered = courtRuns.delivered
      PROVE  pipes[p].id \in Inference /\ i # pipes[p].id
  BY <1>3 DEF CourtInv, CourtTypes, Pipes, Marked, OnTrial, Redelivered
<1>4. ASSUME NEW p \in Pipe, Verdict(p) PROVE filed'[i] = filed[i]
  BY <1>3, <1>4 DEF Verdict, Decide, CourtInv, CourtTypes
<1>5. ASSUME NEW p \in Pipe, CrashInVerdict(p) PROVE filed'[i] = filed[i]
  <2>1. courtRuns'.delivered = courtRuns.delivered
    BY <1>5 DEF CrashInVerdict, Die, CourtInv, CourtTypes
  <2> QED BY <1>3, <1>5, <2>1 DEF CrashInVerdict, CourtInv, CourtTypes
<1>6. ASSUME NEW p \in Pipe, NEW proof, Slash(p) \/ ProverEnds(p, proof) PROVE filed'[i] = filed[i]
  BY <1>6 DEF Slash, ProverEnds
<1>7. ASSUME NEW p \in Pipe, NEW j, NEW c, Challenge(p, j, c) PROVE filed'[i] = filed[i]
  BY <1>7 DEF Challenge
<1>8. CASE CourtCrash \/ CourtTick
  BY <1>8 DEF CourtCrash, CourtTick
<1> QED
  BY <1>1, <1>2, <1>4, <1>5, <1>6, <1>7, <1>8 DEF CourtNext, PipeStep

\* A decided dispute stays decided (apply_slash_verdict): the action property the runs
\* check.
THEOREM OneVerdictHolds == CourtSpec => OneVerdict
<1>1. CourtInv /\ [CourtNext]_courtVars => [Standing]_courtVars
  BY VerdictStands
<1> QED
  BY <1>1, CourtInvariant, PTL DEF CourtSpec, OneVerdict, Standing

\* What a verdict does to the bond is the escrow's release or forfeit.
LEMMA SettleIsEscrow ==
    ASSUME CourtTypes, NEW i \in Inference, NEW c \in Challenger, NEW valid \in BOOLEAN,
           SettleBond(i, c, valid), stake' = stake
    PROVE  [Escrow!EscrowNext]_(Escrow!escrowVars)
<1> USE CourtAssumption
<1>1. CASE held[<<i, c>>] = 0
  <2>1. held' = held /\ purse' = purse /\ eco' = eco
    BY <1>1 DEF SettleBond, CourtTypes
  <2> QED BY <2>1 DEF Escrow!escrowVars
<1>2. CASE held[<<i, c>>] > 0
  <2>1. CASE valid
    <3>1. Escrow!Refund(i, c)
      BY <1>2, <2>1 DEF SettleBond, Escrow!Refund
    <3> QED BY <3>1 DEF Escrow!EscrowNext
  <2>2. CASE ~valid
    <3>1. Escrow!Forfeit(i, c)
      BY <1>2, <2>2 DEF SettleBond, Escrow!Forfeit
    <3> QED BY <3>1 DEF Escrow!EscrowNext
  <2> QED BY <2>1, <2>2
<1>3. held[<<i, c>>] = 0 \/ held[<<i, c>>] > 0
  BY DEF CourtTypes
<1> QED BY <1>1, <1>2, <1>3

\* Every step of the court is a step of the bond escrow, or leaves it alone.
LEMMA EscrowStep == CourtInv /\ [CourtNext]_courtVars => [Escrow!EscrowNext]_(Escrow!escrowVars)
<1> SUFFICES ASSUME CourtInv, [CourtNext]_courtVars PROVE [Escrow!EscrowNext]_(Escrow!escrowVars)
  OBVIOUS
<1> USE CourtAssumption
<1>0. CourtTypes
  BY DEF CourtInv
<1>1. ASSUME NEW p \in Pipe, NEW i \in Inference, NEW c \in Challenger, Challenge(p, i, c)
      PROVE  [Escrow!EscrowNext]_(Escrow!escrowVars)
  <2>1. Escrow!Take(i, c)
    BY <1>1 DEF Challenge, LockBond, Escrow!Take
  <2> QED BY <2>1 DEF Escrow!EscrowNext
<1>2. ASSUME NEW p \in Pipe, SubmitChallenge(p) PROVE [Escrow!EscrowNext]_(Escrow!escrowVars)
  <2>1. pipes[p].id \in Inference /\ pipes[p].challenger \in Challenger /\ stake' = stake
    BY <1>2 DEF SubmitChallenge, CourtInv, CourtTypes, Pipes
  <2>2. CASE purse' = purse /\ held' = held /\ eco' = eco
    BY <2>1, <2>2 DEF Escrow!escrowVars
  <2>3. CASE SettleBond(pipes[p].id, pipes[p].challenger, FALSE)
    BY <1>0, <2>1, <2>3, SettleIsEscrow
  <2> QED BY <1>2, <2>2, <2>3 DEF SubmitChallenge, RefuseChallenge
<1>3. ASSUME NEW p \in Pipe, Verdict(p) PROVE [Escrow!EscrowNext]_(Escrow!escrowVars)
  <2> DEFINE i == pipes[p].id
             c == filed[i].challenger
             guilty == Guilty(pipes[p].proof)
  <2>1. i \in Inference /\ c \in Challenger \cup {"-"} /\ stake' = stake /\ guilty \in BOOLEAN
    BY <1>3 DEF Verdict, CourtInv, CourtTypes, Pipes, Disputes, Guilty
  <2>2. IF c = "-" THEN purse' = purse /\ held' = held /\ eco' = eco ELSE SettleBond(i, c, guilty)
    BY <1>3, <2>1, KnownIsFiled DEF Verdict, CourtInv
  <2> HIDE DEF i, c, guilty
  <2>3. CASE c = "-"
    BY <2>1, <2>2, <2>3 DEF Escrow!escrowVars
  <2>4. CASE c # "-"
    BY <1>0, <2>1, <2>2, <2>4, SettleIsEscrow
  <2> QED BY <2>3, <2>4
<1>4. ASSUME NEW p \in Pipe, Slash(p) PROVE [Escrow!EscrowNext]_(Escrow!escrowVars)
  <2> DEFINE w == pipes[p].worker
  <2>1. w \in Worker /\ stake[w] \in Nat
    BY <1>4 DEF Slash, CourtInv, SlashedNamed, CourtTypes
  <2>2. /\ eco' = eco + stake[w] /\ stake' = [stake EXCEPT ![w] = 0]
        /\ purse' = purse /\ held' = held
    BY <1>4 DEF Slash, SlashAll
  <2> HIDE DEF w
  <2>3. CASE stake[w] = 0
    <3>1. eco' = eco /\ stake' = stake
      BY <2>1, <2>2, <2>3 DEF CourtInv, CourtTypes
    <3> QED BY <2>2, <3>1 DEF Escrow!escrowVars
  <2>4. CASE stake[w] > 0
    <3>1. Escrow!Confiscate(w)
      BY <2>2, <2>4 DEF Escrow!Confiscate
    <3> QED BY <2>1, <3>1 DEF Escrow!EscrowNext
  <2> QED BY <2>1, <2>3, <2>4
<1>5. CASE purse' = purse /\ held' = held /\ eco' = eco /\ stake' = stake
  BY <1>5 DEF Escrow!escrowVars
<1>6. ASSUME NEW p \in Pipe, CrashInVerdict(p) \/ \E proof \in {"match", "mismatch", "none"} : ProverEnds(p, proof)
      PROVE  purse' = purse /\ held' = held /\ eco' = eco /\ stake' = stake
  BY <1>6 DEF CrashInVerdict, Die, ProverEnds
<1>7. ASSUME \/ \E i \in Inference, w \in Worker : Deliver(i, w)
             \/ CourtCrash \/ CourtTick \/ UNCHANGED courtVars
      PROVE  purse' = purse /\ held' = held /\ eco' = eco /\ stake' = stake
  BY <1>7 DEF Deliver, CourtCrash, Die, CourtTick, courtVars
<1>8. CASE \E p \in Pipe : PipeStep(p) \/ CrashInVerdict(p)
  BY <1>8, <1>2, <1>3, <1>4, <1>5, <1>6 DEF PipeStep
<1>9. CASE \E p \in Pipe, i \in Inference, c \in Challenger : Challenge(p, i, c)
  BY <1>9, <1>1
<1> QED
  BY <1>5, <1>7, <1>8, <1>9 DEF CourtNext

\* The court implements the abstract bond escrow: a bond is taken once, and given back or
\* forfeited once.
THEOREM CourtImplementsEscrow == CourtSpec => EscrowHolds
<1>1. CourtInit => Escrow!EscrowInit
  BY CourtAssumption DEF CourtInit, Escrow!EscrowInit
<1>2. CourtInv /\ [CourtNext]_courtVars => [Escrow!EscrowNext]_(Escrow!escrowVars)
  BY EscrowStep
<1> QED
  BY <1>1, <1>2, CourtInvariant, PTL DEF CourtSpec, EscrowHolds, Escrow!EscrowSpec

-----------------------------------------------------------------------------
(* Welcome grants and sponsored fees.                                        *)

\* An entry of the history of payments names a payer, one of its requests, and a day that
\* has come.
EntryType(e) == e.payer \in Payers /\ e.req \in PayRequests(e.payer) /\ e.day \in Nat /\ e.day <= payDay

\* Types of the payers: a request is inside decide_lock or not, a sponsored file was
\* uploaded, and so was the one the sponsor is deciding.
PayTypes ==
    /\ DOMAIN payJob = Payers /\ \A p \in Payers : "at" \in DOMAIN payJob[p]
    /\ \A p \in Payers : /\ payJob[p].at \in {"idle", "decided", "sent"}
                         /\ payJob[p].at # "idle" => /\ payJob[p].req \in PayRequests(p)
                                                     /\ payJob[p].day \in Nat /\ payJob[p].day <= payDay
    /\ payBalance \in [Payers -> Nat]
    /\ payDay \in Nat /\ grantCount \in Nat /\ payInterrupts \in Nat
    /\ IsFiniteSet(paidLog) /\ \A e \in paidLog : EntryType(e)
    /\ sponsored \subseteq uploads
    /\ payJob["sponsor"].at # "idle" => payJob["sponsor"].req.to \in uploads

\* A row of grants_welcome_claims_v1.
ClaimPair(r) == <<r.member, r.to>>
\* Each member and each wallet is claimed once, and the three trees agree.
ClaimsSound ==
    /\ \A a \in claimedBy : \E r \in GrantRequests : a = ClaimPair(r)
    /\ \A a, b \in claimedBy : a[1] = b[1] \/ a[2] = b[2] => a = b
    /\ paidWallets = {a[2] : a \in claimedBy}
    /\ IsFiniteSet(claimedBy) /\ IsFiniteSet(paidWallets)
    /\ Cardinality(claimedBy) = grantCount /\ Cardinality(paidWallets) = grantCount
    /\ grantCount <= WelcomeCap
\* The lock is held from the checks to the record: the member and the wallet of the grant
\* in hand have no record, and the cap leaves room for it.
GrantFree ==
    payJob["grant"].at # "idle" =>
        LET r == payJob["grant"].req
        IN  /\ \A a \in claimedBy : a[1] # r.member
            /\ r.to \notin paidWallets
            /\ grantCount < WelcomeCap
\* The requests whose grant entered the mempool.
Requested(L) == {e.req : e \in {e \in L : e.payer = "grant"}}
\* Every grant paid is counted, in hand, or was cut off.
GrantsCounted ==
    /\ IsFiniteSet(Requested(paidLog))
    /\ Cardinality(Requested(paidLog)) <= grantCount + Sent("grant") + payInterrupts
\* Without a cut-off, every grant paid has its record or is in hand.
GrantsClaimed ==
    payInterrupts = 0 => \A r \in Requested(paidLog) : ClaimPair(r) \in claimedBy \/ (Sent("grant") = 1 /\ r = payJob["grant"].req)
\* The inductive invariant of the welcome grants.
GrantInv == ClaimsSound /\ GrantFree /\ GrantsCounted /\ GrantsClaimed

\* The fees paid that count against the key k.
LogOf(L, k) == {e \in L : e.payer = "sponsor" /\ k \in FeeKeys(e.req, e.day, e.salt)}
\* The counters of the fee in hand.
JobKeys == FeeKeys(payJob["sponsor"].req, payJob["sponsor"].day, payJob["sponsor"].salt)
\* 1 when the fee in hand has come as far as S says and counts against k.
InHand(k, S) == IF payJob["sponsor"].at \in S /\ k \in JobKeys THEN 1 ELSE 0
\* A count belongs to a day that has come.
CountsTyped ==
    \A k \in DOMAIN feeCounts : feeCounts[k] \in Nat /\ k[1] \in Nat /\ k[1] <= payDay
\* Today every fee paid is counted, in hand, or was cut off, and the counts leave room
\* for the fee in hand.
TodayCounted ==
    \A k : k[1] = payDay =>
        /\ Cardinality(LogOf(paidLog, k)) <= FeeCount(k) + InHand(k, {"sent"}) + payInterrupts
        /\ FeeCount(k) + InHand(k, {"decided", "sent"}) <= FeeCap(k)
\* On any day, the fees paid and the one decided stay within the cap, the cut-off ones
\* aside. The counts of a past day may be pruned, so this is not a consequence of
\* TodayCounted.
EverCapped ==
    \A k : Cardinality(LogOf(paidLog, k)) + InHand(k, {"decided"}) <= FeeCap(k) + payInterrupts
\* The inductive invariant of the sponsored fees.
FeeInv == CountsTyped /\ TodayCounted /\ EverCapped

\* The inductive invariant of the payers.
PayInv == PayTypes /\ GrantInv /\ FeeInv

\* The settings are naturals, and a grant request is its member and its wallet.
LEMMA PayNats ==
    /\ Floor \in Nat /\ Amount \in Nat /\ WelcomeCap \in Nat /\ PerClient \in Nat /\ PerWallet \in Nat /\ PerDay \in Nat
    /\ OpeningBalance \in Nat /\ MaxPayDays \in Nat /\ MaxInterrupts \in Nat /\ MaxPayRestarts \in Nat
    /\ \A k : FeeCap(k) \in Nat
    /\ "grant" \in Payers /\ "sponsor" \in Payers /\ PayRequests("grant") = GrantRequests /\ PayRequests("sponsor") = FeeRequests
    /\ \A r \in GrantRequests : r = [member |-> r.member, to |-> r.to]
BY PayoutAssumption DEF FeeCap, Payers, PayRequests

\* A part of a finite set is finite and no larger.
LEMMA FinitePart == ASSUME NEW S, IsFiniteSet(S), NEW T, T \subseteq S PROVE IsFiniteSet(T) /\ Cardinality(T) \in Nat /\ Cardinality(T) <= Cardinality(S)
BY FS_Subset, FS_CardinalityType

\* A counter of a request is a counter of its day.
LEMMA KeyDay == ASSUME NEW r, NEW d, NEW s, NEW k \in FeeKeys(r, d, s) PROVE k[1] = d
BY DEF FeeKeys

\* Sent is 1 for a payment between the mempool and its record, else 0.
LEMMA SentIs == /\ \A p \in Payers : Sent(p) \in {0, 1} /\ (Sent(p) = 1 <=> payJob[p].at = "sent")
BY DEF Sent

\* The types the arithmetic needs.
LEMMA PaySimple == ASSUME PayTypes PROVE
    /\ payDay \in Nat /\ grantCount \in Nat /\ payInterrupts \in Nat
    /\ IsFiniteSet(paidLog) /\ payBalance \in [Payers -> Nat]
    /\ Sent("grant") \in {0, 1} /\ Sent("sponsor") \in {0, 1}
    /\ \A k : Cardinality(LogOf(paidLog, k)) \in Nat /\ IsFiniteSet(LogOf(paidLog, k))
    /\ \A k, S : InHand(k, S) \in {0, 1}
<1>1. IsFiniteSet(paidLog) BY DEF PayTypes
<1>2. ASSUME NEW k PROVE Cardinality(LogOf(paidLog, k)) \in Nat /\ IsFiniteSet(LogOf(paidLog, k))
  <2>1. LogOf(paidLog, k) \subseteq paidLog BY DEF LogOf
  <2> QED BY <1>1, <2>1, FinitePart
<1>3. \A k, S : InHand(k, S) \in {0, 1} BY DEF InHand
<1> QED BY <1>1, <1>2, <1>3 DEF PayTypes, Sent

\* A count is a natural number, 0 where there is no row.
LEMMA CountNat == ASSUME CountsTyped PROVE \A k : FeeCount(k) \in Nat
BY DEF CountsTyped, FeeCount

-----------------------------------------------------------------------------
(* What a step of one of the parts leaves alone. *)

\* Nothing the grants' invariant speaks of changes, but a grant may be dropped or
\* decided.
LEMMA GrantKept ==
    ASSUME PayTypes, GrantInv, UNCHANGED <<claimedBy, paidWallets, grantCount>>,
           Requested(paidLog') = Requested(paidLog), payInterrupts' \in Nat,
           \/ payJob'["grant"] = payJob["grant"] /\ payInterrupts' >= payInterrupts
           \/ payJob'["grant"].at = "idle" /\ payInterrupts' >= payInterrupts + Sent("grant")
    PROVE  GrantInv'
<1>0. grantCount \in Nat /\ payInterrupts \in Nat /\ Sent("grant") \in {0, 1} BY PaySimple
<1>1. ClaimsSound' BY DEF GrantInv, ClaimsSound
<1>2. GrantFree' BY DEF GrantInv, GrantFree
<1>3. Sent("grant")' \in {0, 1} /\ Sent("grant")' + payInterrupts' >= Sent("grant") + payInterrupts
  <2>1. Sent("grant")' \in {0, 1} BY DEF Sent
  <2>2. CASE payJob'["grant"] = payJob["grant"] /\ payInterrupts' >= payInterrupts
    <3>1. Sent("grant")' = Sent("grant") BY <2>2 DEF Sent
    <3> QED BY <1>0, <2>1, <2>2, <3>1
  <2>3. CASE payInterrupts' >= payInterrupts + Sent("grant")
    BY <1>0, <2>1, <2>3
  <2> QED BY <2>1, <2>2, <2>3
<1>4. Requested(paidLog)' = Requested(paidLog) BY DEF Requested
<1>5. IsFiniteSet(Requested(paidLog)) /\ Cardinality(Requested(paidLog)) \in Nat /\ Cardinality(Requested(paidLog)) <= grantCount + Sent("grant") + payInterrupts
  BY FS_CardinalityType DEF GrantInv, GrantsCounted
<1>6. GrantsCounted' BY <1>0, <1>3, <1>4, <1>5 DEF GrantsCounted
<1>7. GrantsClaimed'
  <2> SUFFICES ASSUME payInterrupts' = 0, NEW r \in Requested(paidLog)
               PROVE  ClaimPair(r) \in claimedBy \/ (Sent("grant")' = 1 /\ r = payJob'["grant"].req)
    BY <1>4 DEF GrantsClaimed, ClaimPair
  <2>1. payInterrupts = 0 BY <1>0
  <2>2. ClaimPair(r) \in claimedBy \/ (Sent("grant") = 1 /\ r = payJob["grant"].req) BY <2>1 DEF GrantInv, GrantsClaimed
  <2>3. CASE payJob'["grant"] = payJob["grant"] BY <2>2, <2>3 DEF Sent
  <2>4. CASE payInterrupts' >= payInterrupts + Sent("grant")
    <3>1. Sent("grant") = 0 BY <1>0, <2>1, <2>4
    <3> QED BY <2>2, <3>1
  <2> QED BY <2>3, <2>4
<1> QED BY <1>1, <1>2, <1>6, <1>7 DEF GrantInv

\* A step that leaves the fees paid and their counts alone, and drops the fee in hand at
\* most, keeps the sponsor's invariant.
LEMMA FeeKept ==
    ASSUME PayTypes, FeeInv, UNCHANGED <<feeCounts, payDay>>,
           {e \in paidLog' : e.payer = "sponsor"} = {e \in paidLog : e.payer = "sponsor"}, payInterrupts' \in Nat,
           \/ payJob'["sponsor"] = payJob["sponsor"] /\ payInterrupts' >= payInterrupts
           \/ payJob'["sponsor"].at = "idle" /\ payInterrupts' >= payInterrupts + Sent("sponsor")
    PROVE  FeeInv'
<1>0. payInterrupts \in Nat /\ Sent("sponsor") \in {0, 1} BY PaySimple
<1>1. CountsTyped' BY DEF FeeInv, CountsTyped
<1>2. \A k : LogOf(paidLog, k)' = LogOf(paidLog, k) BY DEF LogOf, FeeKeys
<1>3. \A k : FeeCount(k)' = FeeCount(k) /\ FeeCap(k)' = FeeCap(k) BY DEF FeeCount, FeeCap
<1>4. \A k : FeeCount(k) \in Nat /\ FeeCap(k) \in Nat BY CountNat, PayNats DEF FeeInv
<1>5. \A k : Cardinality(LogOf(paidLog, k)) \in Nat BY PaySimple
<1>6. \A k : /\ InHand(k, {"sent"})' + payInterrupts' >= InHand(k, {"sent"}) + payInterrupts
             /\ InHand(k, {"decided", "sent"})' <= InHand(k, {"decided", "sent"})
             /\ InHand(k, {"decided"})' <= InHand(k, {"decided"})
             /\ InHand(k, {"sent"}) \in {0, 1} /\ InHand(k, {"decided", "sent"}) \in {0, 1} /\ InHand(k, {"decided"}) \in {0, 1}
             /\ InHand(k, {"sent"})' \in {0, 1} /\ InHand(k, {"decided", "sent"})' \in {0, 1} /\ InHand(k, {"decided"})' \in {0, 1}
  <2>1. CASE payJob'["sponsor"] = payJob["sponsor"] /\ payInterrupts' >= payInterrupts
    <3>1. \A k, S : InHand(k, S)' = InHand(k, S) BY <2>1 DEF InHand, JobKeys, FeeKeys
    <3>2. \A k, S : InHand(k, S) \in {0, 1} BY DEF InHand
    <3> QED BY <1>0, <2>1, <3>1, <3>2
  <2>2. CASE payJob'["sponsor"].at = "idle" /\ payInterrupts' >= payInterrupts + Sent("sponsor")
    <3>1. \A k, S : InHand(k, S) \in {0, 1} BY DEF InHand
    <3>2. \A k : InHand(k, {"sent"})' = 0 /\ InHand(k, {"decided", "sent"})' = 0 /\ InHand(k, {"decided"})' = 0 BY <2>2 DEF InHand
    <3>3. \A k : InHand(k, {"sent"}) <= Sent("sponsor") BY DEF InHand, Sent
    <3> QED BY <1>0, <2>2, <3>1, <3>2, <3>3
  <2> QED BY <2>1, <2>2
<1>7. payInterrupts' >= payInterrupts BY <1>0
<1>8. TodayCounted'
  <2> SUFFICES ASSUME NEW k, k[1] = payDay
               PROVE  /\ Cardinality(LogOf(paidLog, k))' <= FeeCount(k)' + InHand(k, {"sent"})' + payInterrupts'
                      /\ FeeCount(k)' + InHand(k, {"decided", "sent"})' <= FeeCap(k)'
    BY DEF TodayCounted
  <2>1. Cardinality(LogOf(paidLog, k)) <= FeeCount(k) + InHand(k, {"sent"}) + payInterrupts
        /\ FeeCount(k) + InHand(k, {"decided", "sent"}) <= FeeCap(k) BY DEF FeeInv, TodayCounted
  <2> QED BY <1>0, <1>2, <1>3, <1>4, <1>5, <1>6, <2>1
<1>9. EverCapped'
  <2> SUFFICES ASSUME NEW k PROVE Cardinality(LogOf(paidLog, k))' + InHand(k, {"decided"})' <= FeeCap(k)' + payInterrupts'
    BY DEF EverCapped
  <2>1. Cardinality(LogOf(paidLog, k)) + InHand(k, {"decided"}) <= FeeCap(k) + payInterrupts BY DEF FeeInv, EverCapped
  <2> QED BY <1>0, <1>2, <1>3, <1>4, <1>5, <1>6, <1>7, <2>1
<1> QED BY <1>1, <1>8, <1>9 DEF FeeInv

-----------------------------------------------------------------------------
(* Decisions.                                                                *)

\* A decision keeps the types: the sponsor decides only on an uploaded file.
LEMMA DecideTypes == ASSUME PayTypes, NEW p \in Payers, NEW r \in PayRequests(p), DecidePayment(p, r) PROVE PayTypes'
<1> DEFINE ok == IF p = "grant" THEN GrantDecided(r) ELSE FeeDecided(r)
           j == [at |-> "decided", req |-> r, day |-> payDay, salt |-> Salt]
<1>1. payJob' = IF ok THEN [payJob EXCEPT ![p] = j] ELSE payJob BY DEF DecidePayment
<1>2. UNCHANGED <<payBalance, payDay, grantCount, payInterrupts, paidLog, sponsored, uploads>> BY DEF DecidePayment, payMoney, grantTrees
<1>3. p = "sponsor" /\ ok => r.to \in uploads BY DEF FeeDecided, Sponsorable
<1>4. j.at = "decided" /\ j.req = r /\ j.day = payDay OBVIOUS
<1>5. DOMAIN payJob = Payers /\ payDay \in Nat BY DEF PayTypes
<1> HIDE DEF ok, j
<1>6. DOMAIN payJob' = Payers /\ \A q \in Payers : payJob'[q] = IF ok /\ q = p THEN j ELSE payJob[q] BY <1>1, <1>5
<1>7. \A q \in Payers : /\ payJob'[q].at \in {"idle", "decided", "sent"}
                        /\ payJob'[q].at # "idle" => payJob'[q].req \in PayRequests(q) /\ payJob'[q].day \in Nat /\ payJob'[q].day <= payDay
  <2> SUFFICES ASSUME NEW q \in Payers
               PROVE  /\ payJob'[q].at \in {"idle", "decided", "sent"}
                      /\ payJob'[q].at # "idle" => payJob'[q].req \in PayRequests(q) /\ payJob'[q].day \in Nat /\ payJob'[q].day <= payDay
    OBVIOUS
  <2>1. CASE ok /\ q = p BY <1>4, <1>5, <1>6, <2>1
  <2>2. CASE ~(ok /\ q = p)
    <3>1. payJob'[q] = payJob[q] BY <1>6, <2>2
    <3> QED BY <3>1 DEF PayTypes
  <2> QED BY <2>1, <2>2
<1>8. payJob'["sponsor"].at # "idle" => payJob'["sponsor"].req.to \in uploads
  <2>1. CASE ok /\ p = "sponsor" BY <1>3, <1>4, <1>6, <2>1, PayNats
  <2>2. CASE ~(ok /\ p = "sponsor")
    <3>1. payJob'["sponsor"] = payJob["sponsor"] BY <1>6, <2>2, PayNats
    <3> QED BY <3>1 DEF PayTypes
  <2> QED BY <2>1, <2>2
<1>9. \A q \in Payers : "at" \in DOMAIN payJob'[q]
  <2>1. "at" \in DOMAIN j BY DEF j
  <2> QED BY <1>6, <2>1 DEF PayTypes
<1> QED BY <1>2, <1>6, <1>7, <1>8, <1>9 DEF PayTypes, EntryType, PayRequests

\* decide_journal puts only a member and a wallet without a record in hand.
LEMMA DecideGrant == ASSUME PayTypes, GrantInv, FeeInv, NEW r \in PayRequests("grant"), DecidePayment("grant", r) PROVE GrantInv' /\ FeeInv'
<1> DEFINE j == [at |-> "decided", req |-> r, day |-> payDay, salt |-> Salt]
<1>1. payJob' = IF GrantDecided(r) THEN [payJob EXCEPT !["grant"] = j] ELSE payJob BY DEF DecidePayment
<1>2. UNCHANGED <<claimedBy, paidWallets, grantCount, payInterrupts, paidLog, feeCounts, payDay>> /\ payJob["grant"].at = "idle"
  BY DEF DecidePayment, grantTrees, PayIdle
<1>3. j.at = "decided" /\ j.req = r OBVIOUS
<1>4. DOMAIN payJob = Payers /\ payInterrupts \in Nat /\ grantCount \in Nat BY DEF PayTypes
<1> HIDE DEF j
<1>5. FeeInv'
  <2>1. payJob'["sponsor"] = payJob["sponsor"] BY <1>1
  <2> QED BY <1>2, <1>4, <2>1, FeeKept
<1>6. CASE ~GrantDecided(r)
  <2>1. payJob' = payJob BY <1>1, <1>6
  <2> QED BY <1>2, <1>4, <1>5, <2>1, GrantKept
<1>7. CASE GrantDecided(r)
  <2>1. payJob'["grant"] = j BY <1>1, <1>4, <1>7, PayNats
  <2>2. ClaimsSound' BY <1>2 DEF GrantInv, ClaimsSound
  <2>3. GrantFree' BY <1>2, <1>3, <1>7, <2>1 DEF GrantDecided, GrantFree
  <2>4. Sent("grant") = 0 /\ Sent("grant")' = 0 BY <1>2, <1>3, <2>1 DEF Sent
  <2>5. Requested(paidLog)' = Requested(paidLog) BY <1>2 DEF Requested
  <2>6. GrantsCounted' BY <1>2, <2>4, <2>5 DEF GrantInv, GrantsCounted
  <2>7. GrantsClaimed'
    <3> SUFFICES ASSUME payInterrupts' = 0, NEW q \in Requested(paidLog) PROVE ClaimPair(q) \in claimedBy
      BY <1>2, <2>5 DEF GrantsClaimed, ClaimPair
    <3>1. ClaimPair(q) \in claimedBy \/ (Sent("grant") = 1 /\ q = payJob["grant"].req) BY <1>2 DEF GrantInv, GrantsClaimed
    <3> QED BY <2>4, <3>1
  <2> QED BY <1>5, <2>2, <2>3, <2>6, <2>7 DEF GrantInv
<1> QED BY <1>6, <1>7

\* A fee is decided below its three caps, and pruning the other days' counts changes no
\* count of today.
LEMMA DecideFee == ASSUME PayTypes, GrantInv, FeeInv, NEW r \in PayRequests("sponsor"), DecidePayment("sponsor", r) PROVE GrantInv' /\ FeeInv'
<1> DEFINE j == [at |-> "decided", req |-> r, day |-> payDay, salt |-> Salt]
<1>1. payJob' = IF FeeDecided(r) THEN [payJob EXCEPT !["sponsor"] = j] ELSE payJob BY DEF DecidePayment
<1>2. UNCHANGED <<claimedBy, paidWallets, grantCount, payInterrupts, paidLog, payDay>> /\ payJob["sponsor"].at = "idle"
  BY DEF DecidePayment, grantTrees, PayIdle
<1>3. j.at = "decided" /\ j.req = r /\ j.day = payDay /\ j.salt = Salt OBVIOUS
<1>4. DOMAIN payJob = Payers /\ payInterrupts \in Nat /\ payDay \in Nat BY DEF PayTypes
<1> HIDE DEF j
<1>5. GrantInv'
  <2>1. payJob'["grant"] = payJob["grant"] BY <1>1
  <2> QED BY <1>2, <1>4, <2>1, GrantKept
<1>6. feeCounts' = feeCounts \/ feeCounts' = CountsToday BY DEF DecidePayment
<1>7. CountsTyped' /\ \A k : k[1] = payDay => FeeCount(k)' = FeeCount(k)
  <2>1. CASE feeCounts' = feeCounts BY <1>2, <2>1 DEF FeeInv, CountsTyped, FeeCount
  <2>2. CASE feeCounts' = CountsToday
    <3>1. DOMAIN feeCounts' = {k \in DOMAIN feeCounts : k[1] = payDay} /\ \A k \in DOMAIN feeCounts' : feeCounts'[k] = feeCounts[k]
      BY <2>2 DEF CountsToday
    <3> QED BY <1>2, <3>1 DEF FeeInv, CountsTyped, FeeCount
  <2> QED BY <1>6, <2>1, <2>2
<1>8. \A k : LogOf(paidLog, k)' = LogOf(paidLog, k) BY <1>2 DEF LogOf, FeeKeys
<1>9. \A k : FeeCap(k)' = FeeCap(k) /\ FeeCap(k) \in Nat /\ FeeCount(k) \in Nat /\ Cardinality(LogOf(paidLog, k)) \in Nat
  BY CountNat, PayNats, PaySimple DEF FeeInv, FeeCap
<1>10. \A k, S : InHand(k, S) \in {0, 1} /\ InHand(k, S)' \in {0, 1} BY DEF InHand
<1>11. \A k : InHand(k, {"sent"}) = 0 /\ InHand(k, {"decided"}) = 0 /\ InHand(k, {"decided", "sent"}) = 0 BY <1>2 DEF InHand
<1>12. \A k : InHand(k, {"sent"})' = 0
  <2>1. payJob'["sponsor"].at # "sent" BY <1>1, <1>2, <1>3, <1>4, PayNats
  <2> QED BY <2>1 DEF InHand
<1>13. ASSUME NEW k, InHand(k, {"decided"})' # 0 \/ InHand(k, {"decided", "sent"})' # 0
       PROVE  k[1] = payDay /\ FeeCount(k) < FeeCap(k)
  <2>1. payJob'["sponsor"].at # "idle" /\ k \in JobKeys' BY <1>13 DEF InHand
  <2>2. FeeDecided(r) /\ payJob'["sponsor"] = j BY <1>1, <1>2, <1>4, <2>1, PayNats
  <2>3. JobKeys' = FeeKeys(r, payDay, Salt) BY <1>3, <2>2 DEF JobKeys, FeeKeys
  <2>4. k[1] = payDay BY <2>1, <2>3, KeyDay
  <2> QED BY <2>1, <2>2, <2>3, <2>4 DEF FeeDecided, UnderCaps
<1>14. TodayCounted'
  <2> SUFFICES ASSUME NEW k, k[1] = payDay
               PROVE  /\ Cardinality(LogOf(paidLog, k))' <= FeeCount(k)' + InHand(k, {"sent"})' + payInterrupts'
                      /\ FeeCount(k)' + InHand(k, {"decided", "sent"})' <= FeeCap(k)'
    BY <1>2 DEF TodayCounted
  <2>1. Cardinality(LogOf(paidLog, k)) <= FeeCount(k) + InHand(k, {"sent"}) + payInterrupts
        /\ FeeCount(k) + InHand(k, {"decided", "sent"}) <= FeeCap(k) BY DEF FeeInv, TodayCounted
  <2>2. FeeCount(k)' = FeeCount(k) BY <1>7
  <2>3. Cardinality(LogOf(paidLog, k))' <= FeeCount(k)' + InHand(k, {"sent"})' + payInterrupts'
    BY <1>2, <1>4, <1>8, <1>9, <1>11, <1>12, <2>1, <2>2
  <2>4. FeeCount(k)' + InHand(k, {"decided", "sent"})' <= FeeCap(k)'
    BY <1>9, <1>10, <1>11, <1>13, <2>1, <2>2
  <2> QED BY <2>3, <2>4
<1>15. EverCapped'
  <2> SUFFICES ASSUME NEW k PROVE Cardinality(LogOf(paidLog, k))' + InHand(k, {"decided"})' <= FeeCap(k)' + payInterrupts'
    BY DEF EverCapped
  <2>1. Cardinality(LogOf(paidLog, k)) + InHand(k, {"decided"}) <= FeeCap(k) + payInterrupts BY DEF FeeInv, EverCapped
  <2>2. CASE InHand(k, {"decided"})' = 0 BY <1>2, <1>4, <1>8, <1>9, <1>11, <2>1, <2>2
  <2>3. CASE InHand(k, {"decided"})' # 0
    <3>1. k[1] = payDay /\ FeeCount(k) < FeeCap(k) BY <1>13, <2>3
    <3>2. Cardinality(LogOf(paidLog, k)) <= FeeCount(k) + InHand(k, {"sent"}) + payInterrupts BY <3>1 DEF FeeInv, TodayCounted
    <3>3. InHand(k, {"decided"})' = 1 BY <1>10, <2>3
    <3> QED BY <1>2, <1>4, <1>8, <1>9, <1>11, <3>1, <3>2, <3>3
  <2> QED BY <2>2, <2>3
<1> QED BY <1>5, <1>7, <1>14, <1>15 DEF FeeInv

-----------------------------------------------------------------------------
(* Payments.                                                                 *)

\* submit_local_tx keeps the types.
LEMMA SubmitTypes == ASSUME PayTypes, NEW p \in Payers, SubmitPayment(p) PROVE PayTypes'
<1>1. PICK e : e = [payer |-> p, req |-> payJob[p].req, day |-> payJob[p].day, salt |-> payJob[p].salt] OBVIOUS
<1>2. /\ payJob[p].at = "decided"
      /\ \/ paidLog' = paidLog \union {e} /\ payJob' = [payJob EXCEPT ![p].at = "sent"]
         \/ paidLog' = paidLog /\ payJob' = [payJob EXCEPT ![p] = NoPayment]
  BY <1>1 DEF SubmitPayment
<1>3. UNCHANGED <<payBalance, payDay, grantCount, payInterrupts, sponsored, uploads>> BY DEF SubmitPayment, grantTrees, feeTrees
<1>4. e.payer = p /\ e.req \in PayRequests(p) /\ e.day \in Nat /\ e.day <= payDay BY <1>1, <1>2 DEF PayTypes
<1>5. EntryType(e) BY <1>4 DEF EntryType
<1>6. IsFiniteSet(paidLog') /\ \A f \in paidLog' : EntryType(f)
  <2>1. IsFiniteSet(paidLog) /\ \A f \in paidLog : EntryType(f) BY DEF PayTypes
  <2>2. IsFiniteSet(paidLog \union {e}) BY <2>1, FS_AddElement
  <2> QED BY <1>2, <1>5, <2>1, <2>2
<1>7. DOMAIN payJob = Payers /\ payDay \in Nat BY DEF PayTypes
<1>8. NoPayment.at = "idle" BY DEF NoPayment
<1>9. DOMAIN payJob' = Payers BY <1>2, <1>7
<1>10. ASSUME NEW q \in Payers
       PROVE  /\ payJob'[q].at \in {"idle", "decided", "sent"}
              /\ payJob'[q].at # "idle" => payJob[q].at # "idle" /\ payJob'[q].req = payJob[q].req /\ payJob'[q].day = payJob[q].day
  <2>1. payJob[q].at \in {"idle", "decided", "sent"} BY DEF PayTypes
  <2>2. CASE q # p BY <1>2, <1>7, <2>1, <2>2
  <2>3. CASE q = p
    <3>1. PICK j : j = payJob[p] OBVIOUS
    <3>2. payJob'[p] = NoPayment \/ payJob'[p] = [j EXCEPT !.at = "sent"] BY <1>2, <1>7, <3>1
    <3>3. CASE payJob'[p] = NoPayment BY <1>8, <2>3, <3>3
    <3>4. CASE payJob'[p] = [j EXCEPT !.at = "sent"]
      <4>1. payJob'[p].req = j.req /\ payJob'[p].day = j.day BY <3>4
      <4>2. payJob'[p].at \in {"sent", j.at} BY <3>4
      <4> QED BY <1>2, <2>3, <3>1, <4>1, <4>2
    <3> QED BY <3>2, <3>3, <3>4
  <2> QED BY <2>2, <2>3
<1>11. \A q \in Payers : payJob[q].at # "idle" => payJob[q].req \in PayRequests(q) /\ payJob[q].day \in Nat /\ payJob[q].day <= payDay
  BY DEF PayTypes
<1>12. payJob["sponsor"].at # "idle" => payJob["sponsor"].req.to \in uploads BY DEF PayTypes
<1>13. \A q \in Payers : /\ payJob'[q].at \in {"idle", "decided", "sent"}
                         /\ payJob'[q].at # "idle" => payJob'[q].req \in PayRequests(q) /\ payJob'[q].day \in Nat /\ payJob'[q].day <= payDay
  BY <1>10, <1>11
<1>14. payJob'["sponsor"].at # "idle" => payJob'["sponsor"].req.to \in uploads BY <1>10, <1>12, PayNats
<1>15. \A q \in Payers : "at" \in DOMAIN payJob'[q]
  <2>1. "at" \in DOMAIN NoPayment BY DEF NoPayment
  <2>2. PICK j : j = payJob[p] OBVIOUS
  <2>3. "at" \in DOMAIN [j EXCEPT !.at = "sent"] BY <2>2 DEF PayTypes
  <2>4. payJob'[p] = NoPayment \/ payJob'[p] = [j EXCEPT !.at = "sent"] BY <1>2, <1>7, <2>2
  <2>5. \A q \in Payers : q # p => payJob'[q] = payJob[q] BY <1>2, <1>7
  <2> QED BY <2>1, <2>3, <2>4, <2>5 DEF PayTypes
<1> QED BY <1>3, <1>6, <1>9, <1>13, <1>14, <1>15 DEF PayTypes, EntryType, PayRequests

\* A payment adds at most one entry to the log of each key, and only to its own keys.
LEMMA SubmitLog ==
    ASSUME PayTypes, NEW e, e.payer \in Payers, NEW k
    PROVE  /\ e.payer = "sponsor" /\ k \in FeeKeys(e.req, e.day, e.salt) =>
                 Cardinality(LogOf(paidLog \union {e}, k)) <= Cardinality(LogOf(paidLog, k)) + 1
           /\ ~(e.payer = "sponsor" /\ k \in FeeKeys(e.req, e.day, e.salt)) =>
                 LogOf(paidLog \union {e}, k) = LogOf(paidLog, k)
<1>1. IsFiniteSet(LogOf(paidLog, k)) /\ Cardinality(LogOf(paidLog, k)) \in Nat BY PaySimple
<1>2. CASE e.payer = "sponsor" /\ k \in FeeKeys(e.req, e.day, e.salt)
  <2>1. LogOf(paidLog \union {e}, k) = LogOf(paidLog, k) \union {e} BY <1>2 DEF LogOf
  <2>2. PICK S : S = LogOf(paidLog, k) OBVIOUS
  <2>3. Cardinality(S \union {e}) = IF e \in S THEN Cardinality(S) ELSE Cardinality(S) + 1 BY <1>1, <2>2, FS_AddElement
  <2>4. Cardinality(S \union {e}) <= Cardinality(S) + 1 BY <1>1, <2>2, <2>3
  <2> QED BY <1>2, <2>1, <2>2, <2>4
<1>3. CASE ~(e.payer = "sponsor" /\ k \in FeeKeys(e.req, e.day, e.salt))
  <2>1. LogOf(paidLog \union {e}, k) = LogOf(paidLog, k) BY <1>3 DEF LogOf
  <2> QED BY <1>3, <2>1
<1> QED BY <1>2, <1>3

\* A grant that enters the mempool is the one in hand; a refused one is dropped.
LEMMA SubmitGrant == ASSUME PayTypes, GrantInv, FeeInv, SubmitPayment("grant") PROVE GrantInv' /\ FeeInv'
<1>1. PICK j : j = payJob["grant"] OBVIOUS
<1>2. PICK e : e = [payer |-> "grant", req |-> j.req, day |-> j.day, salt |-> j.salt] OBVIOUS
<1>3. /\ j.at = "decided"
      /\ \/ paidLog' = paidLog \union {e} /\ payJob' = [payJob EXCEPT !["grant"].at = "sent"]
         \/ paidLog' = paidLog /\ payJob' = [payJob EXCEPT !["grant"] = NoPayment]
  BY <1>1, <1>2 DEF SubmitPayment
<1>4. UNCHANGED <<claimedBy, paidWallets, grantCount, payInterrupts, feeCounts, payDay>> BY DEF SubmitPayment, grantTrees, feeTrees
<1>5. DOMAIN payJob = Payers /\ payInterrupts \in Nat /\ grantCount \in Nat /\ "at" \in DOMAIN j
  BY <1>1, PayNats DEF PayTypes
<1>6. e.payer = "grant" /\ e.req = j.req BY <1>2
<1>7. FeeInv'
  <2>1. payJob'["sponsor"] = payJob["sponsor"] BY <1>3, <1>5, PayNats
  <2>2. {f \in paidLog' : f.payer = "sponsor"} = {f \in paidLog : f.payer = "sponsor"} BY <1>3, <1>6
  <2> QED BY <1>4, <1>5, <2>1, <2>2, FeeKept
<1>8. Sent("grant") = 0 BY <1>1, <1>3 DEF Sent
<1>9. CASE paidLog' = paidLog /\ payJob' = [payJob EXCEPT !["grant"] = NoPayment]
  <2>1. payJob'["grant"].at = "idle" BY <1>5, <1>9, PayNats DEF NoPayment
  <2>2. Requested(paidLog') = Requested(paidLog) BY <1>9
  <2> QED BY <1>4, <1>5, <1>7, <1>8, <2>1, <2>2, GrantKept
<1>10. CASE paidLog' = paidLog \union {e} /\ payJob' = [payJob EXCEPT !["grant"].at = "sent"]
  <2>1. payJob'["grant"] = [j EXCEPT !.at = "sent"] BY <1>1, <1>5, <1>10, PayNats
  <2>2. payJob'["grant"].at = "sent" /\ payJob'["grant"].req = j.req BY <1>5, <2>1
  <2>3. ClaimsSound' BY <1>4 DEF GrantInv, ClaimsSound
  <2>4. GrantFree' BY <1>1, <1>3, <1>4, <2>2 DEF GrantInv, GrantFree
  <2>5. Sent("grant")' = 1 BY <2>2 DEF Sent
  <2>6. Requested(paidLog)' = Requested(paidLog) \union {j.req} BY <1>6, <1>10 DEF Requested
  <2>7. IsFiniteSet(Requested(paidLog)) /\ Cardinality(Requested(paidLog)) <= grantCount + payInterrupts
    BY <1>5, <1>8 DEF GrantInv, GrantsCounted
  <2>8. Cardinality(Requested(paidLog)) \in Nat BY <2>7, FS_CardinalityType
  <2>9. IsFiniteSet(Requested(paidLog) \union {j.req}) /\ Cardinality(Requested(paidLog) \union {j.req}) <= Cardinality(Requested(paidLog)) + 1
    BY <2>7, <2>8, FS_AddElement
  <2>10. Cardinality(Requested(paidLog) \union {j.req}) \in Nat BY <2>9, FS_CardinalityType
  <2>11. GrantsCounted' BY <1>4, <1>5, <2>5, <2>6, <2>7, <2>8, <2>9, <2>10 DEF GrantsCounted
  <2>12. GrantsClaimed'
    <3> SUFFICES ASSUME payInterrupts' = 0, NEW q \in Requested(paidLog) \union {j.req}
                 PROVE  ClaimPair(q) \in claimedBy \/ q = j.req
      BY <1>4, <2>2, <2>5, <2>6 DEF GrantsClaimed, ClaimPair
    <3>1. CASE q \in Requested(paidLog)
      <4>1. ClaimPair(q) \in claimedBy \/ (Sent("grant") = 1 /\ q = payJob["grant"].req) BY <1>4, <3>1 DEF GrantInv, GrantsClaimed
      <4> QED BY <1>8, <4>1
    <3> QED BY <3>1
  <2> QED BY <1>7, <2>3, <2>4, <2>11, <2>12 DEF GrantInv
<1> QED BY <1>3, <1>9, <1>10

\* A fee that enters the mempool moves from decided to sent under the same keys.
LEMMA SubmitFee == ASSUME PayTypes, GrantInv, FeeInv, SubmitPayment("sponsor") PROVE GrantInv' /\ FeeInv'
<1>1. PICK j : j = payJob["sponsor"] OBVIOUS
<1>2. PICK e : e = [payer |-> "sponsor", req |-> j.req, day |-> j.day, salt |-> j.salt] OBVIOUS
<1>3. /\ j.at = "decided"
      /\ \/ paidLog' = paidLog \union {e} /\ payJob' = [payJob EXCEPT !["sponsor"].at = "sent"]
         \/ paidLog' = paidLog /\ payJob' = [payJob EXCEPT !["sponsor"] = NoPayment]
  BY <1>1, <1>2 DEF SubmitPayment
<1>4. UNCHANGED <<claimedBy, paidWallets, grantCount, payInterrupts, feeCounts, payDay>> BY DEF SubmitPayment, grantTrees, feeTrees
<1>5. DOMAIN payJob = Payers /\ payInterrupts \in Nat /\ "at" \in DOMAIN j /\ payDay \in Nat
  BY <1>1, PayNats DEF PayTypes
<1>6. e.payer = "sponsor" /\ e.req = j.req /\ e.day = j.day /\ e.salt = j.salt BY <1>2
<1>7. GrantInv'
  <2>1. payJob'["grant"] = payJob["grant"] BY <1>3, <1>5, PayNats
  <2>2. {f \in paidLog' : f.payer = "grant"} = {f \in paidLog : f.payer = "grant"} BY <1>3, <1>6
  <2>3. Requested(paidLog') = Requested(paidLog) BY <2>2 DEF Requested
  <2> QED BY <1>4, <1>5, <2>1, <2>3, GrantKept
<1>8. Sent("sponsor") = 0 BY <1>1, <1>3 DEF Sent
<1>9. CASE paidLog' = paidLog /\ payJob' = [payJob EXCEPT !["sponsor"] = NoPayment]
  <2>1. payJob'["sponsor"].at = "idle" BY <1>5, <1>9, PayNats DEF NoPayment
  <2> QED BY <1>4, <1>5, <1>7, <1>8, <1>9, <2>1, FeeKept
<1>10. CASE paidLog' = paidLog \union {e} /\ payJob' = [payJob EXCEPT !["sponsor"].at = "sent"]
  <2>1. payJob'["sponsor"] = [j EXCEPT !.at = "sent"] BY <1>1, <1>5, <1>10, PayNats
  <2>2. payJob'["sponsor"].at = "sent" /\ payJob'["sponsor"].req = j.req /\ payJob'["sponsor"].day = j.day /\ payJob'["sponsor"].salt = j.salt
    BY <1>5, <2>1
  <2>3. JobKeys' = JobKeys /\ JobKeys = FeeKeys(e.req, e.day, e.salt) BY <1>1, <1>6, <2>2 DEF JobKeys, FeeKeys
  <2>4. \A k : /\ InHand(k, {"sent"}) = 0 /\ InHand(k, {"decided"})' = 0
               /\ InHand(k, {"decided", "sent"})' = InHand(k, {"decided", "sent"})
               /\ InHand(k, {"decided"}) = InHand(k, {"sent"})'
               /\ InHand(k, {"sent"})' = IF k \in JobKeys THEN 1 ELSE 0
    BY <1>1, <1>3, <2>2, <2>3 DEF InHand
  <2>5. \A k : FeeCount(k)' = FeeCount(k) /\ FeeCap(k)' = FeeCap(k) BY <1>4 DEF FeeCount, FeeCap
  <2>6. \A k : FeeCap(k) \in Nat /\ FeeCount(k) \in Nat /\ Cardinality(LogOf(paidLog, k)) \in Nat
    BY CountNat, PayNats, PaySimple DEF FeeInv
  <2>7. ASSUME NEW k PROVE LogOf(paidLog, k)' = LogOf(paidLog \union {e}, k) BY <1>10 DEF LogOf, FeeKeys
  <2>8. ASSUME NEW k
        PROVE  /\ Cardinality(LogOf(paidLog, k))' \in Nat
               /\ Cardinality(LogOf(paidLog, k))' <= Cardinality(LogOf(paidLog, k)) + InHand(k, {"sent"})'
    <3>0. e.payer \in Payers BY <1>6, PayNats
    <3>1. IsFiniteSet(paidLog \union {e}) BY PaySimple, FS_AddElement
    <3>2. LogOf(paidLog \union {e}, k) \subseteq paidLog \union {e} BY DEF LogOf
    <3>3. Cardinality(LogOf(paidLog, k))' \in Nat BY <2>7, <3>1, <3>2, FinitePart
    <3>4. CASE k \in JobKeys BY <1>6, <2>3, <2>4, <2>7, <3>0, <3>3, <3>4, SubmitLog
    <3>5. CASE k \notin JobKeys
      <4>1. LogOf(paidLog \union {e}, k) = LogOf(paidLog, k) BY <2>3, <3>0, <3>5, SubmitLog
      <4> QED BY <2>4, <2>6, <2>7, <3>3, <3>5, <4>1
    <3> QED BY <3>4, <3>5
  <2>9. CountsTyped' BY <1>4 DEF FeeInv, CountsTyped
  <2>10. TodayCounted'
    <3> SUFFICES ASSUME NEW k, k[1] = payDay
                 PROVE  /\ Cardinality(LogOf(paidLog, k))' <= FeeCount(k)' + InHand(k, {"sent"})' + payInterrupts'
                        /\ FeeCount(k)' + InHand(k, {"decided", "sent"})' <= FeeCap(k)'
      BY <1>4 DEF TodayCounted
    <3>1. Cardinality(LogOf(paidLog, k)) <= FeeCount(k) + InHand(k, {"sent"}) + payInterrupts
          /\ FeeCount(k) + InHand(k, {"decided", "sent"}) <= FeeCap(k) BY DEF FeeInv, TodayCounted
    <3>2. InHand(k, {"sent"})' \in {0, 1} BY DEF InHand
    <3> QED BY <1>4, <1>5, <2>4, <2>5, <2>6, <2>8, <3>1, <3>2
  <2>11. EverCapped'
    <3> SUFFICES ASSUME NEW k PROVE Cardinality(LogOf(paidLog, k))' + InHand(k, {"decided"})' <= FeeCap(k)' + payInterrupts'
      BY DEF EverCapped
    <3>1. Cardinality(LogOf(paidLog, k)) + InHand(k, {"decided"}) <= FeeCap(k) + payInterrupts BY DEF FeeInv, EverCapped
    <3>2. InHand(k, {"sent"})' \in {0, 1} BY DEF InHand
    <3> QED BY <1>4, <1>5, <2>4, <2>5, <2>6, <2>8, <3>1, <3>2
  <2> QED BY <1>7, <2>9, <2>10, <2>11 DEF FeeInv
<1> QED BY <1>3, <1>9, <1>10

\* A payer's job ends; nothing else the types speak of shrinks.
LEMMA DropTypes ==
    ASSUME PayTypes, UNCHANGED <<payBalance, payDay, uploads>>, paidLog' = paidLog,
           DOMAIN payJob' = Payers, \A q \in Payers : payJob'[q] = NoPayment \/ payJob'[q] = payJob[q],
           grantCount' \in Nat, payInterrupts' \in Nat, sponsored' \subseteq uploads
    PROVE  PayTypes'
<1>1. NoPayment.at = "idle" /\ "at" \in DOMAIN NoPayment BY DEF NoPayment
<1>2. IsFiniteSet(paidLog') /\ \A e \in paidLog' : EntryType(e)' BY DEF PayTypes, EntryType, PayRequests
<1>3. \A q \in Payers : /\ "at" \in DOMAIN payJob'[q] /\ payJob'[q].at \in {"idle", "decided", "sent"}
                        /\ payJob'[q].at # "idle" => payJob'[q].req \in PayRequests(q) /\ payJob'[q].day \in Nat /\ payJob'[q].day <= payDay
  BY <1>1 DEF PayTypes
<1>4. payJob'["sponsor"].at # "idle" => payJob'["sponsor"].req.to \in uploads BY <1>1, PayNats DEF PayTypes
<1>5. payBalance' \in [Payers -> Nat] /\ payDay' \in Nat BY DEF PayTypes
<1>6. \A q : PayRequests(q)' = PayRequests(q) BY DEF PayRequests
<1> QED BY <1>2, <1>3, <1>4, <1>5, <1>6 DEF PayTypes

\* commit keeps the types.
LEMMA CommitTypes == ASSUME PayTypes, NEW p \in Payers, CommitPayment(p) PROVE PayTypes'
<1>1. UNCHANGED <<payBalance, payDay, uploads, paidLog, payInterrupts>> /\ payJob[p].at = "sent" /\ payJob' = [payJob EXCEPT ![p] = NoPayment]
  BY DEF CommitPayment, payMoney
<1>2. DOMAIN payJob = Payers /\ grantCount \in Nat /\ payInterrupts \in Nat /\ sponsored \subseteq uploads BY DEF PayTypes
<1>3. DOMAIN payJob' = Payers /\ \A q \in Payers : payJob'[q] = NoPayment \/ payJob'[q] = payJob[q] BY <1>1, <1>2
<1>4. grantCount' \in Nat /\ sponsored' \subseteq uploads
  <2>1. CASE p = "grant" BY <1>2, <2>1 DEF CommitPayment, CommitGrant
  <2>2. CASE p = "sponsor"
    <3>1. sponsored' = sponsored \union {payJob["sponsor"].req.to} /\ grantCount' = grantCount BY <2>2 DEF CommitPayment, CommitFee
    <3>2. payJob["sponsor"].req.to \in uploads BY <1>1, <2>2 DEF PayTypes
    <3> QED BY <1>2, <3>1, <3>2
  <2> QED BY <2>1, <2>2 DEF Payers
<1> QED BY <1>1, <1>2, <1>3, <1>4, DropTypes

\* GrantPayer::commit adds one row to each of its trees: neither the member nor the
\* wallet had one.
LEMMA CommitGrantInv == ASSUME PayTypes, GrantInv, FeeInv, CommitPayment("grant") PROVE GrantInv' /\ FeeInv'
<1>1. PICK r : r = payJob["grant"].req OBVIOUS
<1>2. /\ payJob["grant"].at = "sent" /\ payJob' = [payJob EXCEPT !["grant"] = NoPayment]
      /\ claimedBy' = {a \in claimedBy : a[1] # r.member} \union {<<r.member, r.to>>}
      /\ paidWallets' = paidWallets \union {r.to} /\ grantCount' = grantCount + 1
      /\ UNCHANGED <<feeCounts, payDay, payInterrupts, paidLog>>
  BY <1>1 DEF CommitPayment, CommitGrant
<1>3. DOMAIN payJob = Payers /\ grantCount \in Nat /\ payInterrupts \in Nat /\ r \in GrantRequests
  BY <1>1, <1>2, PayNats DEF PayTypes
<1>4. FeeInv'
  <2>1. payJob'["sponsor"] = payJob["sponsor"] BY <1>2, <1>3, PayNats
  <2> QED BY <1>2, <1>3, <2>1, FeeKept
<1>5. payJob'["grant"].at = "idle" BY <1>2, <1>3, PayNats DEF NoPayment
<1>6. (\A a \in claimedBy : a[1] # r.member) /\ r.to \notin paidWallets /\ grantCount < WelcomeCap
  BY <1>1, <1>2 DEF GrantInv, GrantFree
<1>7. claimedBy' = claimedBy \union {ClaimPair(r)}
  <2>1. {a \in claimedBy : a[1] # r.member} = claimedBy BY <1>6
  <2> QED BY <1>2, <2>1 DEF ClaimPair
<1>8. ClaimPair(r)[1] = r.member /\ ClaimPair(r)[2] = r.to BY DEF ClaimPair
<1>9. ClaimsSound'
  <2>1. \A a \in claimedBy' : \E q \in GrantRequests : a = ClaimPair(q) BY <1>3, <1>7 DEF GrantInv, ClaimsSound
  <2>2. \A a \in claimedBy : a[2] # r.to BY <1>6 DEF GrantInv, ClaimsSound
  <2>3. \A a, b \in claimedBy' : a[1] = b[1] \/ a[2] = b[2] => a = b
    BY <1>6, <1>7, <1>8, <2>2 DEF GrantInv, ClaimsSound
  <2>4. paidWallets' = {a[2] : a \in claimedBy'} BY <1>2, <1>7, <1>8 DEF GrantInv, ClaimsSound
  <2>5. IsFiniteSet(claimedBy) /\ IsFiniteSet(paidWallets) /\ Cardinality(claimedBy) = grantCount /\ Cardinality(paidWallets) = grantCount
    BY DEF GrantInv, ClaimsSound
  <2>6. ClaimPair(r) \notin claimedBy BY <1>6, <1>8
  <2>7. IsFiniteSet(claimedBy') /\ Cardinality(claimedBy') = grantCount + 1 BY <1>7, <2>5, <2>6, FS_AddElement
  <2>8. IsFiniteSet(paidWallets') /\ Cardinality(paidWallets') = grantCount + 1 BY <1>2, <1>6, <2>5, FS_AddElement
  <2>9. grantCount' <= WelcomeCap BY <1>2, <1>3, <1>6, PayNats
  <2> QED BY <1>2, <2>1, <2>3, <2>4, <2>7, <2>8, <2>9 DEF ClaimsSound, ClaimPair
<1>10. GrantFree' BY <1>5 DEF GrantFree
<1>11. Sent("grant") = 1 /\ Sent("grant")' = 0 BY <1>2, <1>5 DEF Sent
<1>12. Requested(paidLog)' = Requested(paidLog) BY <1>2 DEF Requested
<1>13. IsFiniteSet(Requested(paidLog)) /\ Cardinality(Requested(paidLog)) <= grantCount + Sent("grant") + payInterrupts
  BY DEF GrantInv, GrantsCounted
<1>14. Cardinality(Requested(paidLog)) \in Nat BY <1>13, FS_CardinalityType
<1>15. GrantsCounted' BY <1>2, <1>3, <1>11, <1>12, <1>13, <1>14 DEF GrantsCounted
<1>16. GrantsClaimed'
  <2> SUFFICES ASSUME payInterrupts' = 0, NEW q \in Requested(paidLog) PROVE ClaimPair(q) \in claimedBy'
    BY <1>12 DEF GrantsClaimed, ClaimPair
  <2>1. ClaimPair(q) \in claimedBy \/ q = r BY <1>1, <1>2 DEF GrantInv, GrantsClaimed
  <2> QED BY <1>7, <2>1
<1> QED BY <1>4, <1>9, <1>10, <1>15, <1>16 DEF GrantInv

\* DemoSponsor::commit counts the fee in hand under each of its keys.
LEMMA CommitFeeInv == ASSUME PayTypes, GrantInv, FeeInv, CommitPayment("sponsor") PROVE GrantInv' /\ FeeInv'
<1>1. PICK keys : keys = JobKeys OBVIOUS
<1>2. /\ payJob["sponsor"].at = "sent" /\ payJob' = [payJob EXCEPT !["sponsor"] = NoPayment]
      /\ feeCounts' = [k \in DOMAIN feeCounts \union keys |-> IF k \in keys THEN FeeCount(k) + 1 ELSE feeCounts[k]]
      /\ UNCHANGED <<claimedBy, paidWallets, grantCount, payDay, payInterrupts, paidLog>>
  BY <1>1 DEF CommitPayment, CommitFee, JobKeys
<1>3. DOMAIN payJob = Payers /\ payInterrupts \in Nat /\ payDay \in Nat /\ payJob["sponsor"].day \in Nat /\ payJob["sponsor"].day <= payDay
  BY <1>2, PayNats DEF PayTypes
<1>4. GrantInv'
  <2>1. payJob'["grant"] = payJob["grant"] BY <1>2, <1>3, PayNats
  <2> QED BY <1>2, <1>3, <2>1, GrantKept
<1>5. payJob'["sponsor"].at = "idle" BY <1>2, <1>3, PayNats DEF NoPayment
<1>6. \A k : FeeCount(k) \in Nat BY CountNat DEF FeeInv
<1>7. \A k : FeeCount(k)' = FeeCount(k) + InHand(k, {"sent"})
  <2> SUFFICES ASSUME NEW k PROVE FeeCount(k)' = FeeCount(k) + InHand(k, {"sent"}) OBVIOUS
  <2>1. InHand(k, {"sent"}) = IF k \in keys THEN 1 ELSE 0 BY <1>1, <1>2 DEF InHand
  <2>2. CASE k \in keys BY <1>2, <1>6, <2>1, <2>2 DEF FeeCount
  <2>3. CASE k \notin keys BY <1>2, <1>6, <2>1, <2>3 DEF FeeCount
  <2> QED BY <2>2, <2>3
<1>8. CountsTyped'
  <2> SUFFICES ASSUME NEW k \in DOMAIN feeCounts' PROVE feeCounts'[k] \in Nat /\ k[1] \in Nat /\ k[1] <= payDay
    BY <1>2 DEF CountsTyped
  <2>1. CASE k \in keys
    <3>1. k[1] = payJob["sponsor"].day BY <1>1, <2>1, KeyDay DEF JobKeys
    <3>2. feeCounts'[k] = FeeCount(k) + 1 BY <1>2, <2>1
    <3> QED BY <1>3, <1>6, <3>1, <3>2
  <2>2. CASE k \notin keys BY <1>2, <2>2 DEF FeeInv, CountsTyped
  <2> QED BY <2>1, <2>2
<1>9. \A k : LogOf(paidLog, k)' = LogOf(paidLog, k) /\ FeeCap(k)' = FeeCap(k) BY <1>2 DEF LogOf, FeeKeys, FeeCap
<1>10. \A k : FeeCap(k) \in Nat /\ Cardinality(LogOf(paidLog, k)) \in Nat BY PayNats, PaySimple
<1>11. \A k : /\ InHand(k, {"sent"}) \in {0, 1} /\ InHand(k, {"sent"})' = 0 /\ InHand(k, {"decided", "sent"})' = 0
              /\ InHand(k, {"decided"})' = 0 /\ InHand(k, {"decided"}) = 0 /\ InHand(k, {"decided", "sent"}) = InHand(k, {"sent"})
  BY <1>2, <1>5 DEF InHand
<1>12. TodayCounted'
  <2> SUFFICES ASSUME NEW k, k[1] = payDay
               PROVE  /\ Cardinality(LogOf(paidLog, k))' <= FeeCount(k)' + InHand(k, {"sent"})' + payInterrupts'
                      /\ FeeCount(k)' + InHand(k, {"decided", "sent"})' <= FeeCap(k)'
    BY <1>2 DEF TodayCounted
  <2>1. Cardinality(LogOf(paidLog, k)) <= FeeCount(k) + InHand(k, {"sent"}) + payInterrupts
        /\ FeeCount(k) + InHand(k, {"decided", "sent"}) <= FeeCap(k) BY DEF FeeInv, TodayCounted
  <2> QED BY <1>2, <1>3, <1>6, <1>7, <1>9, <1>10, <1>11, <2>1
<1>13. EverCapped'
  <2> SUFFICES ASSUME NEW k PROVE Cardinality(LogOf(paidLog, k))' + InHand(k, {"decided"})' <= FeeCap(k)' + payInterrupts'
    BY DEF EverCapped
  <2>1. Cardinality(LogOf(paidLog, k)) + InHand(k, {"decided"}) <= FeeCap(k) + payInterrupts BY DEF FeeInv, EverCapped
  <2> QED BY <1>2, <1>3, <1>9, <1>10, <1>11, <2>1
<1> QED BY <1>4, <1>8, <1>12, <1>13 DEF FeeInv

-----------------------------------------------------------------------------
(* What goes on beside the payments. *)

\* The mempool and the block under construction are finite.
PoolsFinite == IsFiniteSet(payPool) /\ IsFiniteSet(payBlock)

\* They stay finite.
LEMMA PoolsStay == ASSUME PoolsFinite, PayNext PROVE PoolsFinite'
<1>1. ASSUME NEW p \in Payers, SubmitPayment(p) PROVE PoolsFinite'
  <2>1. (\E t : payPool' = payPool \union {t}) \/ payPool' = payPool BY <1>1 DEF SubmitPayment
  <2>2. payBlock' = payBlock BY <1>1 DEF SubmitPayment
  <2>3. \A t : IsFiniteSet(payPool \union {t}) BY FS_AddElement DEF PoolsFinite
  <2> QED BY <2>1, <2>2, <2>3 DEF PoolsFinite
<1>2. CASE TakePool BY <1>2, FS_EmptySet DEF TakePool, PoolsFinite
<1>3. CASE SettleTaken BY <1>3, FS_EmptySet DEF SettleTaken, PoolsFinite
<1>4. CASE UNCHANGED payMoney BY <1>4 DEF payMoney, PoolsFinite
<1>5. ASSUME NEW p \in Payers, NEW r \in PayRequests(p), DecidePayment(p, r) PROVE UNCHANGED payMoney BY <1>5 DEF DecidePayment
<1>6. ASSUME NEW p \in Payers, CommitPayment(p) \/ Interrupt(p) PROVE UNCHANGED payMoney BY <1>6 DEF CommitPayment, Interrupt
<1>7. ASSUME PayRestart \/ NextDay \/ (\E r \in FeeRequests : RecordUpload(r.to)) PROVE UNCHANGED payMoney
  BY <1>7 DEF PayRestart, NextDay, RecordUpload
<1> QED BY <1>1, <1>2, <1>3, <1>4, <1>5, <1>6, <1>7 DEF PayNext, PayStep

\* A handler dropped at its await is one more payment without a record, if it was sent.
LEMMA InterruptKeeps == ASSUME PayInv, NEW p \in Payers, Interrupt(p) PROVE PayInv'
<1> USE DEF PayInv
<1>1. /\ payJob' = [payJob EXCEPT ![p] = NoPayment] /\ payInterrupts' = payInterrupts + Sent(p)
      /\ UNCHANGED <<payBalance, payDay, uploads, sponsored, grantCount, claimedBy, paidWallets, feeCounts>> /\ paidLog' = paidLog
  BY DEF Interrupt, payMoney, grantTrees, feeTrees
<1>2. DOMAIN payJob = Payers /\ payInterrupts \in Nat /\ grantCount \in Nat /\ sponsored \subseteq uploads BY DEF PayTypes
<1>3. Sent(p) \in {0, 1} BY SentIs
<1>4. payInterrupts' \in Nat /\ payInterrupts' >= payInterrupts BY <1>1, <1>2, <1>3
<1>5. DOMAIN payJob' = Payers /\ \A q \in Payers : payJob'[q] = IF q = p THEN NoPayment ELSE payJob[q] BY <1>1, <1>2
<1>6. PayTypes' BY <1>1, <1>2, <1>4, <1>5, DropTypes
<1>7. NoPayment.at = "idle" BY DEF NoPayment
<1>8. payInterrupts' >= payInterrupts + Sent(p) BY <1>1, <1>2, <1>3
<1>9. GrantInv'
  <2>1. \/ payJob'["grant"] = payJob["grant"] /\ payInterrupts' >= payInterrupts
        \/ payJob'["grant"].at = "idle" /\ payInterrupts' >= payInterrupts + Sent("grant")
    BY <1>4, <1>5, <1>7, <1>8, PayNats
  <2>2. Requested(paidLog') = Requested(paidLog) BY <1>1
  <2> QED BY <1>1, <1>4, <2>1, <2>2, GrantKept
<1>10. FeeInv'
  <2>1. \/ payJob'["sponsor"] = payJob["sponsor"] /\ payInterrupts' >= payInterrupts
        \/ payJob'["sponsor"].at = "idle" /\ payInterrupts' >= payInterrupts + Sent("sponsor")
    BY <1>4, <1>5, <1>7, <1>8, PayNats
  <2> QED BY <1>1, <1>4, <2>1, FeeKept
<1> QED BY <1>6, <1>9, <1>10

\* So is each one a restart finds between the mempool and its record.
LEMMA RestartKeeps == ASSUME PayInv, PayRestart PROVE PayInv'
<1> USE DEF PayInv
<1>1. /\ payJob' = [p \in Payers |-> NoPayment] /\ payInterrupts' = payInterrupts + Sent("grant") + Sent("sponsor")
      /\ UNCHANGED <<payBalance, payDay, uploads, sponsored, grantCount, claimedBy, paidWallets, feeCounts>> /\ paidLog' = paidLog
  BY DEF PayRestart, payMoney, grantTrees
<1>2. payInterrupts \in Nat /\ grantCount \in Nat /\ sponsored \subseteq uploads BY DEF PayTypes
<1>3. Sent("grant") \in {0, 1} /\ Sent("sponsor") \in {0, 1} BY SentIs, PayNats
<1>4. payInterrupts' \in Nat /\ payInterrupts' >= payInterrupts + Sent("grant") /\ payInterrupts' >= payInterrupts + Sent("sponsor")
  BY <1>1, <1>2, <1>3
<1>5. DOMAIN payJob' = Payers /\ \A q \in Payers : payJob'[q] = NoPayment BY <1>1
<1>6. PayTypes' BY <1>1, <1>2, <1>4, <1>5, DropTypes
<1>7. payJob'["grant"].at = "idle" /\ payJob'["sponsor"].at = "idle" BY <1>5, PayNats DEF NoPayment
<1>8. Requested(paidLog') = Requested(paidLog) BY <1>1
<1>9. GrantInv' BY <1>1, <1>4, <1>7, <1>8, GrantKept
<1>10. FeeInv' BY <1>1, <1>4, <1>7, FeeKept
<1> QED BY <1>6, <1>9, <1>10

\* The mempool, the miner and an upload leave the payers' records alone.
LEMMA AsideKeeps ==
    ASSUME PayInv, UNCHANGED <<payJob, payDay, sponsored, grantCount, claimedBy, paidWallets, feeCounts, payInterrupts>>, paidLog' = paidLog,
           payBalance' \in [Payers -> Nat], uploads \subseteq uploads'
    PROVE  PayInv'
<1> USE DEF PayInv
<1>1. payInterrupts' \in Nat /\ payInterrupts' >= payInterrupts BY DEF PayTypes
<1>2. Requested(paidLog') = Requested(paidLog) BY PaySimple
<1>3. PayTypes'
  <2>1. \A q : PayRequests(q)' = PayRequests(q) BY DEF PayRequests
  <2>2. \A e : EntryType(e)' = EntryType(e) BY <2>1 DEF EntryType
  <2>3. sponsored' \subseteq uploads' BY DEF PayTypes
  <2>4. payJob'["sponsor"].at # "idle" => payJob'["sponsor"].req.to \in uploads' BY DEF PayTypes
  <2> QED BY <2>1, <2>2, <2>3, <2>4 DEF PayTypes
<1>4. payJob'["grant"] = payJob["grant"] /\ payJob'["sponsor"] = payJob["sponsor"] OBVIOUS
<1>5. GrantInv' BY <1>1, <1>2, <1>4, GrantKept
<1>6. FeeInv' BY <1>1, <1>4, FeeKept
<1> QED BY <1>3, <1>5, <1>6

\* A block settles only what the wallets can pay, so no balance runs below zero.
LEMMA SettleKeeps == ASSUME PayInv, PoolsFinite, SettleTaken PROVE PayInv'
<1>1. PICK S \in SUBSET (payBlock \ paySettled) :
        Payable(S) /\ payBalance' = [p \in Payers |-> payBalance[p] - Amount * Cardinality({t \in S : t.payer = p})]
  BY DEF SettleTaken
<1>2. ASSUME NEW p \in Payers PROVE payBalance[p] - Amount * Cardinality({t \in S : t.payer = p}) \in Nat
  <2>1. PICK n : n = Cardinality({t \in S : t.payer = p}) OBVIOUS
  <2>2. n \in Nat
    <3>1. {t \in S : t.payer = p} \subseteq payBlock BY <1>1
    <3> QED BY <2>1, <3>1, FinitePart DEF PoolsFinite
  <2>3. Amount * n <= payBalance[p] BY <1>1, <2>1 DEF Payable
  <2>4. Amount * n \in Nat BY <2>2, PayNats
  <2>5. payBalance[p] \in Nat BY DEF PayInv, PayTypes
  <2>6. payBalance[p] - Amount * n \in Nat BY <2>3, <2>4, <2>5
  <2> QED BY <2>1, <2>6
<1>3. payBalance' \in [Payers -> Nat] BY <1>1, <1>2
<1>4. UNCHANGED <<payJob, payDay, sponsored, uploads, grantCount, claimedBy, paidWallets, feeCounts, payInterrupts>> /\ paidLog' = paidLog
  BY DEF SettleTaken, grantTrees, feeTrees
<1> QED BY <1>3, <1>4, AsideKeeps

\* A new day starts with no fee and no count: every entry and every row is of a day
\* before.
LEMMA NewDayKeeps == ASSUME PayInv, NextDay PROVE PayInv'
<1> USE DEF PayInv
<1>1. /\ payDay' = payDay + 1 /\ paidLog' = paidLog
      /\ UNCHANGED <<payJob, payBalance, uploads, sponsored, grantCount, claimedBy, paidWallets, feeCounts, payInterrupts>>
  BY DEF NextDay, payMoney, grantTrees, feeTrees
<1>2. payDay \in Nat /\ payInterrupts \in Nat BY DEF PayTypes
<1>3. payDay' \in Nat /\ \A d \in Nat : d <= payDay => d <= payDay' /\ d # payDay' BY <1>1, <1>2
<1>4. \A q : PayRequests(q)' = PayRequests(q) BY DEF PayRequests
<1>5. \A e \in paidLog : EntryType(e)' /\ e.day \in Nat /\ e.day <= payDay BY <1>3, <1>4 DEF PayTypes, EntryType
<1>6. \A p \in Payers : payJob[p].at # "idle" => payJob[p].day \in Nat /\ payJob[p].day <= payDay BY DEF PayTypes
<1>7. PayTypes'
  <2>1. \A p \in Payers : payJob'[p].at # "idle" => payJob'[p].day \in Nat /\ payJob'[p].day <= payDay' BY <1>1, <1>3, <1>6
  <2> QED BY <1>1, <1>3, <1>4, <1>5, <2>1 DEF PayTypes
<1>8. GrantInv'
  <2>1. Requested(paidLog') = Requested(paidLog) BY <1>1
  <2>2. payJob'["grant"] = payJob["grant"] /\ payInterrupts' \in Nat /\ payInterrupts' >= payInterrupts BY <1>1, <1>2
  <2> QED BY <1>1, <2>1, <2>2, GrantKept
<1>9. \A k, S : InHand(k, S)' = InHand(k, S) /\ LogOf(paidLog, k)' = LogOf(paidLog, k) /\ FeeCount(k)' = FeeCount(k) /\ FeeCap(k)' = FeeCap(k)
  BY <1>1 DEF InHand, JobKeys, FeeKeys, LogOf, FeeCount, FeeCap
<1>10. CountsTyped'
  <2> SUFFICES ASSUME NEW k \in DOMAIN feeCounts PROVE feeCounts[k] \in Nat /\ k[1] \in Nat /\ k[1] <= payDay'
    BY <1>1 DEF CountsTyped
  <2>1. feeCounts[k] \in Nat /\ k[1] \in Nat /\ k[1] <= payDay BY DEF FeeInv, CountsTyped
  <2> QED BY <1>3, <2>1
<1>11. ASSUME NEW k, k[1] = payDay'
       PROVE  LogOf(paidLog, k) = {} /\ FeeCount(k) = 0 /\ InHand(k, {"sent"}) = 0 /\ InHand(k, {"decided", "sent"}) = 0
  <2>1. \A e \in paidLog : e.day # k[1] BY <1>3, <1>5, <1>11
  <2>2. \A e \in paidLog : k \notin FeeKeys(e.req, e.day, e.salt) BY <2>1, KeyDay
  <2>3. LogOf(paidLog, k) = {} BY <2>2 DEF LogOf
  <2>4. k \notin DOMAIN feeCounts BY <1>3, <1>11 DEF FeeInv, CountsTyped
  <2>5. payJob["sponsor"].at # "idle" => payJob["sponsor"].day # k[1] BY <1>3, <1>6, <1>11, PayNats
  <2>6. payJob["sponsor"].at # "idle" => k \notin JobKeys BY <2>5, KeyDay DEF JobKeys
  <2>7. InHand(k, {"sent"}) = 0 /\ InHand(k, {"decided", "sent"}) = 0 BY <2>6 DEF InHand
  <2> QED BY <2>3, <2>4, <2>7 DEF FeeCount
<1>12. TodayCounted'
  <2> SUFFICES ASSUME NEW k, k[1] = payDay'
               PROVE  /\ Cardinality(LogOf(paidLog, k))' <= FeeCount(k)' + InHand(k, {"sent"})' + payInterrupts'
                      /\ FeeCount(k)' + InHand(k, {"decided", "sent"})' <= FeeCap(k)'
    BY DEF TodayCounted
  <2>1. Cardinality(LogOf(paidLog, k))' = 0 BY <1>9, <1>11, FS_EmptySet
  <2>2. FeeCount(k)' = 0 /\ InHand(k, {"sent"})' = 0 /\ InHand(k, {"decided", "sent"})' = 0 BY <1>9, <1>11
  <2>3. FeeCap(k)' \in Nat BY <1>9, PayNats
  <2> QED BY <1>1, <1>2, <2>1, <2>2, <2>3
<1>13. EverCapped' BY <1>1, <1>9 DEF FeeInv, EverCapped
<1> QED BY <1>7, <1>8, <1>10, <1>12, <1>13 DEF FeeInv

-----------------------------------------------------------------------------
(* The theorem. *)

\* PayInv holds at the start.
LEMMA PayStarts == ASSUME PayInit PROVE PayInv /\ PoolsFinite
<1> USE DEF PayInit
<1>0. \A p \in Payers : payJob[p] = NoPayment /\ payJob[p].at = "idle" /\ "at" \in DOMAIN payJob[p] BY DEF NoPayment
<1>1. IsFiniteSet({}) /\ Cardinality({}) = 0 BY FS_EmptySet
<1>2. PayTypes
  <2>1. payBalance \in [Payers -> Nat] BY PayNats
  <2> QED BY <1>0, <1>1, <2>1, PayNats DEF PayTypes
<1>3. payJob["grant"].at = "idle" /\ payJob["sponsor"].at = "idle" BY <1>0, PayNats
<1>4. Requested(paidLog) = {} BY DEF Requested
<1>5. Sent("grant") = 0 BY <1>3 DEF Sent
<1>6. GrantInv
  <2>1. ClaimsSound BY <1>1, PayNats DEF ClaimsSound
  <2>2. GrantFree BY <1>3 DEF GrantFree
  <2>3. GrantsCounted
    <3> HIDE DEF PayInit
    <3>1. grantCount = 0 /\ payInterrupts = 0 BY DEF PayInit
    <3>2. Cardinality(Requested(paidLog)) = 0 /\ IsFiniteSet(Requested(paidLog)) BY <1>1, <1>4
    <3>3. Cardinality(Requested(paidLog)) <= grantCount + Sent("grant") + payInterrupts BY <1>5, <3>1, <3>2
    <3> QED BY <3>2, <3>3 DEF GrantsCounted
  <2>4. GrantsClaimed BY <1>4 DEF GrantsClaimed
  <2> QED BY <2>1, <2>2, <2>3, <2>4 DEF GrantInv
<1>7. FeeInv
  <2>1. CountsTyped BY DEF CountsTyped
  <2>2. \A k : LogOf(paidLog, k) = {} /\ FeeCount(k) = 0 BY DEF LogOf, FeeCount
  <2>3. \A k : InHand(k, {"sent"}) = 0 /\ InHand(k, {"decided", "sent"}) = 0 /\ InHand(k, {"decided"}) = 0 BY <1>3 DEF InHand
  <2> HIDE DEF PayInit
  <2>4. ASSUME NEW k
        PROVE  /\ Cardinality(LogOf(paidLog, k)) <= FeeCount(k) + InHand(k, {"sent"}) + payInterrupts
               /\ FeeCount(k) + InHand(k, {"decided", "sent"}) <= FeeCap(k)
               /\ Cardinality(LogOf(paidLog, k)) + InHand(k, {"decided"}) <= FeeCap(k) + payInterrupts
    <3>1. payInterrupts = 0 BY DEF PayInit
    <3>2. Cardinality(LogOf(paidLog, k)) = 0 BY <1>1, <2>2
    <3>3. FeeCap(k) \in Nat BY PayNats
    <3> QED BY <2>2, <2>3, <3>1, <3>2, <3>3
  <2>5. TodayCounted /\ EverCapped BY <2>4 DEF TodayCounted, EverCapped
  <2> QED BY <2>1, <2>5 DEF FeeInv
<1> QED BY <1>1, <1>2, <1>6, <1>7 DEF PayInv, PoolsFinite

\* Every step keeps PayInv.
LEMMA PayStays == ASSUME PayInv, PoolsFinite, PayNext PROVE PayInv'
<1>1. ASSUME NEW p \in Payers, NEW r \in PayRequests(p), DecidePayment(p, r) PROVE PayInv'
  <2>1. CASE p = "grant" BY <1>1, <2>1, DecideTypes, DecideGrant DEF PayInv
  <2>2. CASE p = "sponsor" BY <1>1, <2>2, DecideTypes, DecideFee DEF PayInv
  <2> QED BY <2>1, <2>2 DEF Payers
<1>2. ASSUME NEW p \in Payers, SubmitPayment(p) PROVE PayInv'
  <2>1. CASE p = "grant" BY <1>2, <2>1, SubmitTypes, SubmitGrant DEF PayInv
  <2>2. CASE p = "sponsor" BY <1>2, <2>2, SubmitTypes, SubmitFee DEF PayInv
  <2> QED BY <2>1, <2>2 DEF Payers
<1>3. ASSUME NEW p \in Payers, CommitPayment(p) PROVE PayInv'
  <2>1. CASE p = "grant" BY <1>3, <2>1, CommitTypes, CommitGrantInv DEF PayInv
  <2>2. CASE p = "sponsor" BY <1>3, <2>2, CommitTypes, CommitFeeInv DEF PayInv
  <2> QED BY <2>1, <2>2 DEF Payers
<1>4. ASSUME NEW p \in Payers, Interrupt(p) PROVE PayInv' BY <1>4, InterruptKeeps
<1>5. CASE PayRestart BY <1>5, RestartKeeps
<1>6. CASE TakePool
  <2>1. payBalance' \in [Payers -> Nat] BY <1>6 DEF TakePool, PayInv, PayTypes
  <2>2. UNCHANGED <<payJob, payDay, sponsored, uploads, grantCount, claimedBy, paidWallets, feeCounts, payInterrupts>> /\ paidLog' = paidLog
    BY <1>6 DEF TakePool, grantTrees, feeTrees
  <2> QED BY <2>1, <2>2, AsideKeeps
<1>7. CASE SettleTaken BY <1>7, SettleKeeps
<1>8. CASE NextDay BY <1>8, NewDayKeeps
<1>9. ASSUME NEW r \in FeeRequests, RecordUpload(r.to) PROVE PayInv'
  <2>1. payBalance' \in [Payers -> Nat] BY <1>9 DEF RecordUpload, payMoney, PayInv, PayTypes
  <2>2. UNCHANGED <<payJob, payDay, sponsored, grantCount, claimedBy, paidWallets, feeCounts, payInterrupts>> /\ paidLog' = paidLog
        /\ uploads \subseteq uploads'
    BY <1>9 DEF RecordUpload, grantTrees, feeTrees
  <2> QED BY <2>1, <2>2, AsideKeeps
<1> QED BY <1>1, <1>2, <1>3, <1>4, <1>5, <1>6, <1>7, <1>8, <1>9 DEF PayNext, PayStep

\* The claims tree lists every grant paid, once per member and once per wallet.
LEMMA OncePerMember == ASSUME PayInv PROVE GrantsPaidOnce
<1> USE DEF PayInv
<1>1. {e.req : e \in Grants} = Requested(paidLog) BY DEF Grants, Requested
<1>2. Cardinality({e.req : e \in Grants}) <= grantCount + Sent("grant") + payInterrupts /\ grantCount <= WelcomeCap
  BY <1>1 DEF GrantInv, GrantsCounted, ClaimsSound
<1>3. ASSUME payInterrupts = 0, NEW q \in Requested(paidLog), NEW r \in Requested(paidLog), q.member = r.member \/ q.to = r.to
      PROVE  q = r
  <2>1. q \in GrantRequests /\ r \in GrantRequests BY PayNats DEF Requested, PayTypes, EntryType
  <2>2. q = [member |-> q.member, to |-> q.to] /\ r = [member |-> r.member, to |-> r.to] BY <2>1, PayNats
  <2>3. \A x : ClaimPair(x)[1] = x.member /\ ClaimPair(x)[2] = x.to BY DEF ClaimPair
  <2>4. ClaimPair(q) \in claimedBy \/ (payJob["grant"].at = "sent" /\ q = payJob["grant"].req)
    BY <1>3, SentIs, PayNats DEF GrantInv, GrantsClaimed
  <2>5. ClaimPair(r) \in claimedBy \/ (payJob["grant"].at = "sent" /\ r = payJob["grant"].req)
    BY <1>3, SentIs, PayNats DEF GrantInv, GrantsClaimed
  <2>6. payJob["grant"].at = "sent" =>
            \A a \in claimedBy : a[1] # payJob["grant"].req.member /\ a[2] # payJob["grant"].req.to
    BY DEF GrantInv, GrantFree, ClaimsSound
  <2>7. CASE ClaimPair(q) \in claimedBy /\ ClaimPair(r) \in claimedBy
    <3>1. ClaimPair(q) = ClaimPair(r) BY <1>3, <2>3, <2>7 DEF GrantInv, ClaimsSound
    <3>2. q.member = r.member /\ q.to = r.to BY <2>3, <3>1
    <3> QED BY <2>2, <3>2
  <2> QED BY <1>3, <2>3, <2>4, <2>5, <2>6, <2>7
<1>4. \A e \in Grants : e.req \in Requested(paidLog) BY <1>1
<1> QED BY <1>2, <1>3, <1>4 DEF GrantsPaidOnce

\* EverCapped, for the three keys of each day.
LEMMA WithinCaps == ASSUME PayInv PROVE FeesCapped
<1> USE DEF PayInv
<1> SUFFICES ASSUME NEW d \in 1..MaxPayDays
             PROVE  LET today == {e \in Fees : e.day = d} IN
                    /\ Cardinality(today) <= PerDay + payInterrupts
                    /\ \A e \in today :
                        /\ Cardinality({f \in today : f.req.wallet = e.req.wallet}) <= PerWallet + payInterrupts
                        /\ Cardinality({f \in today : f.req.client = e.req.client /\ f.salt = e.salt})
                               <= PerClient + payInterrupts
  BY DEF FeesCapped
<1> DEFINE today == {e \in Fees : e.day = d}
<1>1. ASSUME NEW k PROVE Cardinality(LogOf(paidLog, k)) <= FeeCap(k) + payInterrupts
  <2>1. Cardinality(LogOf(paidLog, k)) + InHand(k, {"decided"}) <= FeeCap(k) + payInterrupts BY DEF FeeInv, EverCapped
  <2>2. Cardinality(LogOf(paidLog, k)) \in Nat /\ InHand(k, {"decided"}) \in {0, 1} /\ FeeCap(k) \in Nat /\ payInterrupts \in Nat
    BY PaySimple, PayNats
  <2> QED BY <2>1, <2>2
<1>2. Cardinality(today) <= PerDay + payInterrupts
  <2>1. PICK k : k = <<d, "all", "all">> OBVIOUS
  <2>2. FeeCap(k) = PerDay BY <2>1 DEF FeeCap
  <2>3. \A e : k \in FeeKeys(e.req, e.day, e.salt) <=> e.day = d BY <2>1 DEF FeeKeys
  <2>4. LogOf(paidLog, k) = today BY <2>3 DEF LogOf, Fees
  <2> QED BY <1>1, <2>2, <2>4
<1>3. ASSUME NEW e PROVE Cardinality({f \in today : f.req.wallet = e.req.wallet}) <= PerWallet + payInterrupts
  <2>1. PICK k : k = <<d, "wallet", e.req.wallet>> OBVIOUS
  <2>2. FeeCap(k) = PerWallet BY <2>1 DEF FeeCap
  <2>3. \A f : k \in FeeKeys(f.req, f.day, f.salt) <=> f.day = d /\ f.req.wallet = e.req.wallet BY <2>1 DEF FeeKeys
  <2>4. LogOf(paidLog, k) = {f \in today : f.req.wallet = e.req.wallet} BY <2>3 DEF LogOf, Fees
  <2> QED BY <1>1, <2>2, <2>4
<1>4. ASSUME NEW e PROVE Cardinality({f \in today : f.req.client = e.req.client /\ f.salt = e.salt}) <= PerClient + payInterrupts
  <2>0. PICK c : c = <<e.salt, e.req.client>> OBVIOUS
  <2>1. PICK k : k = <<d, "client", c>> OBVIOUS
  <2>2. FeeCap(k) = PerClient BY <2>1 DEF FeeCap
  <2>3. \A f : k \in FeeKeys(f.req, f.day, f.salt) <=> f.day = d /\ <<f.salt, f.req.client>> = c BY <2>1 DEF FeeKeys
  <2>4. \A f : <<f.salt, f.req.client>> = c <=> f.req.client = e.req.client /\ f.salt = e.salt BY <2>0
  <2>5. LogOf(paidLog, k) = {f \in today : f.req.client = e.req.client /\ f.salt = e.salt} BY <2>3, <2>4 DEF LogOf, Fees
  <2> QED BY <1>1, <2>2, <2>5
<1> QED BY <1>2, <1>3, <1>4

\* For every set of claims and requests and every setting of the caps, whatever the order
\* of decisions, blocks, cut-offs and restarts: no member and no wallet is granted twice
\* and no more than the cap is granted, and no cap of the sponsor is exceeded, but for
\* the payments whose handler was cut off between the mempool and its record.
THEOREM PaymentsAreBounded == PaySpec => []PaymentsBounded
<1>1. PayInit => PayInv /\ PoolsFinite BY PayStarts
<1>2. PayInv /\ PoolsFinite /\ [PayNext]_payVars => (PayInv /\ PoolsFinite)'
  <2>1. CASE PayNext BY <2>1, PayStays, PoolsStay
  <2>2. ASSUME UNCHANGED payVars, PayInv, PoolsFinite PROVE (PayInv /\ PoolsFinite)'
    <3>1. UNCHANGED <<payJob, payDay, sponsored, uploads, grantCount, claimedBy, paidWallets, feeCounts, payInterrupts, payPool, payBlock>>
          /\ paidLog' = paidLog /\ payBalance' = payBalance
      BY <2>2 DEF payVars
    <3>2. payBalance' \in [Payers -> Nat] BY <2>2, <3>1 DEF PayInv, PayTypes
    <3>3. PayInv' BY <2>2, <3>1, <3>2, AsideKeeps
    <3> QED BY <2>2, <3>1, <3>3 DEF PoolsFinite
  <2> QED BY <2>1, <2>2
<1>3. PayInv => PaymentsBounded
  <2> SUFFICES ASSUME PayInv PROVE PaymentsBounded OBVIOUS
  <2>1. PayTypeOK BY DEF PayInv, PayTypes, GrantInv, ClaimsSound, PayTypeOK
  <2> QED BY <2>1, OncePerMember, WithinCaps DEF PaymentsBounded
<1> QED BY <1>1, <1>2, <1>3, PTL DEF PaySpec

-----------------------------------------------------------------------------
(* AI workload tasks.                                                        *)

\* Every transaction a client, a worker or a remote block can bring.
WorkTxs == {DemandTx(t) : t \in Tasks} \union RestClaims \union {ClaimTx(t, "self", "court") : t \in Tasks} \union UNION RemoteBlocks
TaskStates == {"none", "open", "done"}
\* A recorded block: its transactions and its undo record.
BlockSet == [txs : SUBSET WorkTxs, undo : UNION {[D -> TaskStates] : D \in SUBSET Tasks}]
\* The record of t that the first n blocks of ch stand for.
TaskAt(ch, n, t) ==
    IF \E i \in 1..n : \E x \in ClaimsIn(ch[i].txs) : x.task = t THEN "done"
    ELSE IF \E i \in 1..n : DemandTx(t) \in ch[i].txs THEN "open" ELSE "none"
\* The records are those the chain stands for.
Matches(ch, tasks) == tasks \in [Tasks -> TaskStates] /\ \A t \in Tasks : tasks[t] = TaskAt(ch, Len(ch), t)
\* The undo record of every block is what the blocks below it stand for, on exactly the
\* tasks the block touches: stronger than TasksMatchChain, and what a reorg needs.
UndoExact(ch) ==
    \A i \in 1..Len(ch) : /\ DOMAIN ch[i].undo = {x.task : x \in ch[i].txs}
                          /\ \A t \in DOMAIN ch[i].undo : ch[i].undo[t] = TaskAt(ch, i - 1, t)
\* RewardedOnce, of any chain.
PaidOnce(ch) ==
    \A i, j \in 1..Len(ch) : \A x \in CourtIn(ch[i].txs), y \in CourtIn(ch[j].txs) :
        x.task = y.task => i = j /\ x = y
\* What the records owe to the chain.
ChainSound(ch, tasks) == ch \in Seq(BlockSet) /\ Matches(ch, tasks) /\ UndoExact(ch) /\ PaidOnce(ch)
\* The daemon works on tasks on record.
DaemonSound ==
    /\ daemon \in [at : {"idle", "next", "proving", "proved"}, list : SUBSET Tasks, task : Nat]
    /\ daemon.at \in {"proving", "proved"} => daemon.task \in Tasks
\* The inductive invariant of the tasks.
WorkInv ==
    /\ ChainSound(wlChain, taskState)
    /\ wlPool \subseteq WorkTxs /\ wlSide \subseteq WorkTxs
    /\ wlSide # {} => wlChain # <<>>
    /\ DaemonSound

\* A transaction names a task, and is a claim or that task's demand.
LEMMA TxShape == \A x \in WorkTxs : x.task \in Tasks /\ (x.what = "claim" \/ x = DemandTx(x.task))
BY WorkloadAssumption DEF WorkTxs, DemandTx, ClaimTx

\* A block that applies on top of a sound chain, with the undo record taken from the
\* state it found, leaves a sound one.
LEMMA ChainGrows ==
    ASSUME NEW ch, NEW tasks, ChainSound(ch, tasks), NEW txs, txs \subseteq WorkTxs, BlockApplies(txs, tasks)
    PROVE  ChainSound(Append(ch, [txs |-> txs, undo |-> UndoOf(txs, tasks)]), AfterBlock(txs, tasks))
<1>1. PICK b : b = [txs |-> txs, undo |-> UndoOf(txs, tasks)] OBVIOUS
<1>2. PICK ch2 : ch2 = Append(ch, b) OBVIOUS
<1>3. PICK n \in Nat : n = Len(ch) BY DEF ChainSound
<1>4. ch \in Seq(BlockSet) /\ tasks \in [Tasks -> TaskStates] /\ \A t \in Tasks : tasks[t] = TaskAt(ch, n, t)
  BY <1>3 DEF ChainSound, Matches
<1>5. b.txs = txs /\ b.undo = UndoOf(txs, tasks) BY <1>1
<1>6. DOMAIN b.undo = {x.task : x \in txs} /\ (\A t \in DOMAIN b.undo : b.undo[t] = tasks[t]) /\ DOMAIN b.undo \subseteq Tasks
  BY <1>5, TxShape DEF UndoOf
<1>7. b \in BlockSet
  <2>1. b.undo \in [DOMAIN b.undo -> TaskStates] BY <1>4, <1>5, <1>6 DEF UndoOf
  <2>2. b.undo \in UNION {[D -> TaskStates] : D \in SUBSET Tasks} BY <1>6, <2>1
  <2> QED BY <1>1, <1>5, <2>2 DEF BlockSet
<1>8. ch2 \in Seq(BlockSet) /\ Len(ch2) = n + 1 /\ (\A i \in 1..n : ch2[i] = ch[i]) /\ ch2[n + 1] = b
  BY <1>2, <1>3, <1>4, <1>7
<1>9. ASSUME NEW t, NEW k \in 0..n PROVE TaskAt(ch2, k, t) = TaskAt(ch, k, t)
  <2>1. \A i \in 1..k : ch2[i] = ch[i] BY <1>3, <1>8
  <2> QED BY <2>1 DEF TaskAt
<1>10. ASSUME NEW t
       PROVE  TaskAt(ch2, n + 1, t) = IF TaskAt(ch, n, t) = "done" \/ (\E x \in ClaimsIn(txs) : x.task = t) THEN "done"
                                      ELSE IF TaskAt(ch, n, t) = "open" \/ DemandTx(t) \in txs THEN "open" ELSE "none"
  <2>1. \A i : i \in 1..(n + 1) <=> i \in 1..n \/ i = n + 1 BY <1>3
  <2>2. (\E i \in 1..(n + 1) : \E x \in ClaimsIn(ch2[i].txs) : x.task = t)
          <=> (\E i \in 1..n : \E x \in ClaimsIn(ch[i].txs) : x.task = t) \/ (\E x \in ClaimsIn(txs) : x.task = t)
    BY <1>5, <1>8, <2>1
  <2>3. (\E i \in 1..(n + 1) : DemandTx(t) \in ch2[i].txs)
          <=> (\E i \in 1..n : DemandTx(t) \in ch[i].txs) \/ DemandTx(t) \in txs
    BY <1>5, <1>8, <2>1
  <2> QED BY <2>2, <2>3 DEF TaskAt
<1>11. \A x \in ClaimsIn(txs) : tasks[x.task] # "none" BY DEF BlockApplies
<1>12. Matches(ch2, AfterBlock(txs, tasks))
  <2>1. AfterBlock(txs, tasks) \in [Tasks -> TaskStates] BY <1>4 DEF AfterBlock, TaskStates
  <2>2. ASSUME NEW t \in Tasks PROVE AfterBlock(txs, tasks)[t] = TaskAt(ch2, n + 1, t)
    <3>1. AfterBlock(txs, tasks)[t] = IF \E x \in ClaimsIn(txs) : x.task = t THEN "done"
                     ELSE IF DemandTx(t) \in txs /\ tasks[t] = "none" THEN "open" ELSE tasks[t]
      BY DEF AfterBlock
    <3>2. tasks[t] = TaskAt(ch, n, t) /\ tasks[t] \in TaskStates BY <1>4
    <3> QED BY <1>10, <3>1, <3>2 DEF TaskStates
  <2> QED BY <1>8, <2>1, <2>2 DEF Matches
<1>13. UndoExact(ch2)
  <2> SUFFICES ASSUME NEW i \in 1..(n + 1)
               PROVE  DOMAIN ch2[i].undo = {x.task : x \in ch2[i].txs} /\ \A t \in DOMAIN ch2[i].undo : ch2[i].undo[t] = TaskAt(ch2, i - 1, t)
    BY <1>8 DEF UndoExact
  <2>1. CASE i = n + 1
    <3>1. i - 1 = n /\ n \in 0..n BY <1>3, <2>1
    <3>2. \A t : TaskAt(ch2, i - 1, t) = TaskAt(ch, n, t) BY <1>9, <3>1
    <3> QED BY <1>4, <1>5, <1>6, <1>8, <2>1, <3>2
  <2>2. CASE i \in 1..n
    <3>1. i - 1 \in 0..n BY <1>3, <2>2
    <3>2. \A t : TaskAt(ch2, i - 1, t) = TaskAt(ch, i - 1, t) BY <1>9, <3>1
    <3>3. ch2[i] = ch[i] BY <1>8, <2>2
    <3> QED BY <1>3, <2>2, <3>2, <3>3 DEF ChainSound, UndoExact
  <2> QED BY <1>3, <2>1, <2>2
<1>14. PaidOnce(ch2)
  <2>1. \A i \in 1..n : \A x \in CourtIn(ch[i].txs), y \in CourtIn(txs) : x.task # y.task
    <3> SUFFICES ASSUME NEW i \in 1..n, NEW x \in CourtIn(ch[i].txs), NEW y \in CourtIn(txs), x.task = y.task PROVE FALSE OBVIOUS
    <3>1. x \in ClaimsIn(ch[i].txs) BY DEF CourtIn
    <3>2. TaskAt(ch, n, y.task) = "done" BY <3>1 DEF TaskAt
    <3>3. y \in txs BY DEF CourtIn, ClaimsIn
    <3>4. tasks[y.task] = "done" BY <1>4, <3>2, <3>3, TxShape
    <3> QED BY <3>4 DEF BlockApplies, ClaimsValid
  <2>2. \A x, y \in CourtIn(txs) : x.task = y.task => x = y BY DEF BlockApplies, ClaimsValid
  <2>3. PaidOnce(ch) BY DEF ChainSound
  <2>4. \A i : i \in 1..(n + 1) <=> i \in 1..n \/ i = n + 1 BY <1>3
  <2>5. \A i \in 1..n, j \in 1..n : \A x \in CourtIn(ch[i].txs), y \in CourtIn(ch[j].txs) : x.task = y.task => i = j /\ x = y
    BY <1>3, <2>3 DEF PaidOnce
  <2> SUFFICES ASSUME NEW i \in 1..(n + 1), NEW j \in 1..(n + 1), NEW x \in CourtIn(ch2[i].txs), NEW y \in CourtIn(ch2[j].txs), x.task = y.task
               PROVE  i = j /\ x = y
    BY <1>8 DEF PaidOnce
  <2>6. CASE i \in 1..n /\ j \in 1..n BY <1>8, <2>5, <2>6
  <2>7. CASE i = n + 1 /\ j \in 1..n BY <1>5, <1>8, <2>1, <2>7
  <2>8. CASE i \in 1..n /\ j = n + 1 BY <1>5, <1>8, <2>1, <2>8
  <2>9. CASE i = n + 1 /\ j = n + 1 BY <1>5, <1>8, <2>2, <2>9
  <2> QED BY <2>4, <2>6, <2>7, <2>8, <2>9
<1> QED BY <1>1, <1>2, <1>8, <1>12, <1>13, <1>14 DEF ChainSound

\* Undoing the tip of a sound chain leaves a sound one.
LEMMA ChainDrops ==
    ASSUME NEW ch, NEW tasks, ChainSound(ch, tasks), ch # <<>>
    PROVE  ChainSound(Front(ch), Undone(tasks, Last(ch).undo))
<1>1. PICK n \in Nat : n = Len(ch) - 1 /\ Len(ch) = n + 1 BY DEF ChainSound
<1>2. PICK c : c = Front(ch) OBVIOUS
<1>3. ch \in Seq(BlockSet) /\ c \in Seq(BlockSet) /\ Len(c) = n /\ (\A i \in 1..n : c[i] = ch[i]) /\ Last(ch) = ch[n + 1]
  BY <1>1, <1>2 DEF ChainSound, Front, Last
<1>4. ASSUME NEW t, NEW k \in 0..n PROVE TaskAt(c, k, t) = TaskAt(ch, k, t)
  <2>1. \A i \in 1..k : c[i] = ch[i] BY <1>1, <1>3
  <2> QED BY <2>1 DEF TaskAt
<1>5. ch[n + 1] \in BlockSet /\ n + 1 \in 1..Len(ch) BY <1>1, <1>3
<1>6. PICK b : b = ch[n + 1] OBVIOUS
<1>7. b.txs \subseteq WorkTxs /\ DOMAIN b.undo = {x.task : x \in b.txs}
      /\ \A t \in DOMAIN b.undo : b.undo[t] = TaskAt(ch, n, t)
  <2>1. b.txs \subseteq WorkTxs BY <1>5, <1>6 DEF BlockSet
  <2>2. (n + 1) - 1 = n BY <1>1
  <2> QED BY <1>5, <1>6, <2>1, <2>2 DEF ChainSound, UndoExact
<1>8. Matches(c, Undone(tasks, b.undo))
  <2>1. ASSUME NEW t \in Tasks PROVE Undone(tasks, b.undo)[t] = TaskAt(c, n, t)
    <3>1. n \in 0..n BY <1>1
    <3>2. TaskAt(c, n, t) = TaskAt(ch, n, t) BY <1>4, <3>1
    <3>3. CASE t \in DOMAIN b.undo BY <1>7, <3>2, <3>3 DEF Undone
    <3>4. CASE t \notin DOMAIN b.undo
      <4>1. tasks[t] = TaskAt(ch, n + 1, t) BY <1>1 DEF ChainSound, Matches
      <4>2. DemandTx(t).task = t BY DEF DemandTx
      <4>3. DemandTx(t) \notin b.txs /\ \A x \in ClaimsIn(b.txs) : x.task # t BY <1>7, <3>4, <4>2 DEF ClaimsIn
      <4>4. \A i : i \in 1..(n + 1) <=> i \in 1..n \/ i = n + 1 BY <1>1
      <4>5. TaskAt(ch, n + 1, t) = TaskAt(ch, n, t) BY <1>6, <4>3, <4>4 DEF TaskAt
      <4>6. Undone(tasks, b.undo)[t] = tasks[t] BY <3>4 DEF Undone
      <4> QED BY <3>2, <4>1, <4>5, <4>6
    <3> QED BY <3>3, <3>4
  <2>2. \A t : TaskAt(c, n, t) \in TaskStates BY DEF TaskAt, TaskStates
  <2>3. Undone(tasks, b.undo) = [t \in Tasks |-> Undone(tasks, b.undo)[t]] BY DEF Undone
  <2>4. Undone(tasks, b.undo) \in [Tasks -> TaskStates] BY <2>1, <2>2, <2>3
  <2> QED BY <1>3, <2>1, <2>4 DEF Matches
<1>9. UndoExact(c)
  <2> SUFFICES ASSUME NEW i \in 1..n
               PROVE  DOMAIN c[i].undo = {x.task : x \in c[i].txs} /\ \A t \in DOMAIN c[i].undo : c[i].undo[t] = TaskAt(c, i - 1, t)
    BY <1>3 DEF UndoExact
  <2>1. i \in 1..Len(ch) /\ c[i] = ch[i] /\ i - 1 \in 0..n BY <1>1, <1>3
  <2>2. \A t : TaskAt(c, i - 1, t) = TaskAt(ch, i - 1, t) BY <1>4, <2>1
  <2> QED BY <2>1, <2>2 DEF ChainSound, UndoExact
<1>10. PaidOnce(c)
  <2>1. \A i \in 1..n : i \in 1..Len(ch) BY <1>1
  <2> QED BY <1>3, <2>1 DEF ChainSound, PaidOnce
<1> QED BY <1>2, <1>3, <1>6, <1>8, <1>9, <1>10 DEF ChainSound

\* A poll of the daemon keeps its types.
LEMMA DaemonKept == ASSUME DaemonSound, DaemonStep PROVE DaemonSound'
<1> DEFINE Rec == [at : {"idle", "next", "proving", "proved"}, list : SUBSET Tasks, task : Nat]
<1>1. daemon \in Rec /\ DaemonIdle \in Rec BY DEF DaemonSound, DaemonIdle
<1>2. CASE DaemonLists
  <2>1. PICK L \in SUBSET Tasks : daemon' = [at |-> "next", list |-> L, task |-> 0] BY <1>2 DEF DaemonLists
  <2> QED BY <2>1 DEF DaemonSound
<1>3. CASE DaemonTakes
  <2>1. PICK t : t = Lowest(daemon.list) OBVIOUS
  <2>2. daemon.list # {} => t \in daemon.list
    <3> SUFFICES ASSUME daemon.list # {} PROVE t \in daemon.list OBVIOUS
    <3>1. daemon.list \subseteq Nat BY <1>1, WorkloadAssumption
    <3>2. \E x \in daemon.list : \A y \in daemon.list : x <= y BY <3>1, Least
    <3> QED BY <2>1, <3>2 DEF Lowest
  <2>3. /\ daemon.at = "next"
        /\ \/ daemon' = DaemonIdle
           \/ daemon.list # {} /\ daemon' = [daemon EXCEPT !.list = @ \ {t}]
           \/ daemon.list # {} /\ daemon' = [at |-> "proving", list |-> daemon.list \ {t}, task |-> t]
    BY <1>3, <2>1 DEF DaemonTakes
  <2>4. CASE daemon' = DaemonIdle BY <1>1, <2>4 DEF DaemonSound, DaemonIdle
  <2>5. CASE daemon.list # {} /\ daemon' = [daemon EXCEPT !.list = @ \ {t}]
    <3>1. daemon' \in Rec /\ daemon'.at = daemon.at BY <1>1, <2>5
    <3> QED BY <2>3, <3>1 DEF DaemonSound
  <2>6. CASE daemon.list # {} /\ daemon' = [at |-> "proving", list |-> daemon.list \ {t}, task |-> t]
    <3>1. daemon.list \subseteq Tasks BY <1>1
    <3>2. t \in Tasks /\ t \in Nat BY <2>2, <2>6, <3>1, WorkloadAssumption
    <3>3. daemon'.task = t BY <2>6
    <3>4. daemon' \in Rec BY <2>6, <3>1, <3>2
    <3> QED BY <3>2, <3>3, <3>4 DEF DaemonSound
  <2> QED BY <2>3, <2>4, <2>5, <2>6
<1>4. CASE DaemonProves
  <2>1. daemon.at = "proving" /\ (daemon' = DaemonIdle \/ daemon' = [daemon EXCEPT !.at = "proved"]) BY <1>4 DEF DaemonProves
  <2>2. CASE daemon' = DaemonIdle BY <1>1, <2>2 DEF DaemonSound, DaemonIdle
  <2>3. CASE daemon' = [daemon EXCEPT !.at = "proved"]
    <3>1. daemon' \in Rec /\ daemon'.task = daemon.task BY <1>1, <2>3
    <3>2. daemon.task \in Tasks BY <2>1 DEF DaemonSound
    <3> QED BY <3>1, <3>2 DEF DaemonSound
  <2> QED BY <2>1, <2>2, <2>3
<1>5. CASE DaemonSubmits
  <2>1. daemon' = [daemon EXCEPT !.at = "next"] BY <1>5 DEF DaemonSubmits
  <2>2. daemon' \in Rec /\ daemon'.at = "next" BY <1>1, <2>1
  <2> QED BY <2>2 DEF DaemonSound
<1> QED BY <1>2, <1>3, <1>4, <1>5 DEF DaemonStep

\* Every step keeps WorkInv. A reorg undoes the tip and replays the side block.
LEMMA WorkStays == ASSUME WorkInv, WorkNext PROVE WorkInv'
<1> USE DEF WorkInv
<1>1. ASSUME NEW t \in Tasks, SubmitDemand(t) PROVE WorkInv'
  BY <1>1 DEF SubmitDemand, WorkTxs, DaemonSound
<1>2. ASSUME NEW x \in RestClaims, PostClaim(x) PROVE WorkInv'
  BY <1>2 DEF PostClaim, WorkTxs, DaemonSound
<1>3. CASE DaemonStep
  <2>1. DaemonSound' BY <1>3, DaemonKept
  <2>2. UNCHANGED <<taskState, wlChain, wlSide>> BY <1>3 DEF DaemonStep, DaemonLists, DaemonTakes, DaemonProves, DaemonSubmits, Resting
  <2>3. wlPool' = wlPool \/ (daemon.task \in Tasks /\ wlPool' = wlPool \union {ClaimTx(daemon.task, "self", "court")})
    BY <1>3 DEF DaemonStep, DaemonLists, DaemonTakes, DaemonProves, DaemonSubmits, Resting, DaemonSound
  <2>4. wlPool' \subseteq WorkTxs BY <2>3 DEF WorkTxs
  <2> QED BY <2>1, <2>2, <2>4
<1>4. CASE MineWork
  <2>1. PICK keep \in Selected(wlPool) : ApplyWorkBlock(keep, wlChain, taskState) BY <1>4 DEF MineWork
  <2>2. keep \subseteq WorkTxs /\ BlockApplies(keep, taskState) BY <2>1 DEF Selected
  <2>3. ChainSound(wlChain', taskState') BY <2>1, <2>2, ChainGrows DEF ApplyWorkBlock
  <2>4. wlPool' = {} /\ UNCHANGED <<wlSide, daemon>> BY <1>4 DEF MineWork
  <2>5. wlChain' # <<>> BY <2>1 DEF ApplyWorkBlock, ChainSound
  <2> QED BY <2>3, <2>4, <2>5 DEF DaemonSound
<1>5. CASE ReorgToSide
  <2>1. PICK below : below = Front(wlChain) OBVIOUS
  <2>2. PICK tasks : tasks = Undone(taskState, Last(wlChain).undo) OBVIOUS
  <2>3. /\ wlSide # {} /\ wlSide' = {} /\ UNCHANGED <<wlPool, daemon>>
        /\ \/ BlockApplies(wlSide, tasks) /\ ApplyWorkBlock(wlSide, below, tasks)
           \/ taskState' = tasks /\ wlChain' = below
    BY <1>5, <2>1, <2>2 DEF ReorgToSide
  <2>4. ChainSound(below, tasks) BY <2>1, <2>2, <2>3, ChainDrops
  <2>5. ChainSound(wlChain', taskState') BY <2>3, <2>4, ChainGrows DEF ApplyWorkBlock
  <2> QED BY <2>3, <2>5 DEF DaemonSound
<1>6. ASSUME NEW b \in RemoteBlocks, RemoteTip(b) PROVE WorkInv'
  <2>1. b \subseteq WorkTxs BY DEF WorkTxs
  <2>2. ChainSound(wlChain', taskState') BY <1>6, <2>1, ChainGrows DEF RemoteTip, ApplyWorkBlock
  <2>3. wlPool' \subseteq WorkTxs /\ UNCHANGED <<wlSide, daemon>> BY <1>6 DEF RemoteTip
  <2>4. wlChain' # <<>> BY <1>6 DEF RemoteTip, ApplyWorkBlock, ChainSound
  <2> QED BY <2>2, <2>3, <2>4 DEF DaemonSound
<1>7. ASSUME NEW b \in RemoteBlocks, RecordSide(b) PROVE WorkInv'
  <2>1. b \subseteq WorkTxs BY DEF WorkTxs
  <2> QED BY <1>7, <2>1 DEF RecordSide, DaemonSound
<1> QED BY <1>1, <1>2, <1>3, <1>4, <1>5, <1>6, <1>7 DEF WorkNext

\* For any tasks, claims and remote blocks, whatever order blocks, side blocks, reorgs
\* and the worker's polls come in: the task records are those of the canonical chain and
\* its compute reward counts each task once at most.
THEOREM TasksAreSound == WorkSpec => []TasksSound
<1>1. WorkInit => WorkInv
  <2> SUFFICES ASSUME WorkInit PROVE WorkInv OBVIOUS
  <2>1. wlChain = <<>> /\ wlChain \in Seq(BlockSet) /\ Len(wlChain) = 0 BY DEF WorkInit
  <2>2. Matches(wlChain, taskState) BY <2>1 DEF WorkInit, Matches, TaskAt, TaskStates
  <2>3. UndoExact(wlChain) /\ PaidOnce(wlChain) BY <2>1 DEF UndoExact, PaidOnce
  <2>4. DaemonSound BY DEF WorkInit, DaemonSound, DaemonIdle
  <2> QED BY <2>1, <2>2, <2>3, <2>4 DEF WorkInit, WorkInv, ChainSound
<1>2. WorkInv /\ [WorkNext]_wlVars => WorkInv'
  <2>1. CASE WorkNext BY <2>1, WorkStays
  <2>2. CASE UNCHANGED wlVars BY <2>2 DEF wlVars, WorkInv, DaemonSound
  <2> QED BY <2>1, <2>2
<1>3. WorkInv => TasksSound
  <2> SUFFICES ASSUME WorkInv PROVE TasksSound OBVIOUS
  <2>1. wlChain \in Seq(BlockSet) /\ DOMAIN wlChain = 1..Len(wlChain) BY DEF WorkInv, ChainSound
  <2>2. WorkTypeOK BY TxShape DEF WorkInv, WorkTypeOK, DaemonSound, ChainSound, Matches, TaskStates
  <2>3. TasksMatchChain BY <2>1 DEF WorkInv, ChainSound, Matches, TaskAt, TasksMatchChain
  <2>4. RewardedOnce BY <2>1 DEF WorkInv, ChainSound, PaidOnce, RewardedOnce
  <2> QED BY <2>2, <2>3, <2>4 DEF TasksSound
<1> QED BY <1>1, <1>2, <1>3, PTL DEF WorkSpec

-----------------------------------------------------------------------------
(* Paid inference.                                                           *)

\* Where a handler stands.
Stages == {"idle", "forwarding", "computing", "settling", "proving", "publishing", "waiting", "paying_worker", "paying_api", "refused"}
\* The stages at which a call has a prompt of its own.
Asking == {"forwarding", "publishing", "waiting"}
\* The locals of a handler.
CallRec == [at : Stages, kind : {"-", "infer", "utility", "enterprise", "submit", "proxy"}, wallet : Wallet,
            prompt : Prompt \union {"-"}, nonce : Nat, signed : BOOLEAN, rx : {"none", "open", "closed", "sent"}]
\* The locals of a handler by stage: only an inference is forwarded, and what settles is
\* an inference or an enterprise's.
CallOk(c) ==
    /\ c \in CallRec
    /\ c.at \in Asking => c.prompt \in Prompt
    /\ c.at = "forwarding" => c.kind = "infer"
    /\ c.at = "computing" => c.kind \in {"infer", "utility", "enterprise"}
    /\ c.at = "settling" => c.kind \in {"infer", "enterprise"}
\* Every call in flight has them.
CallsOk(cs) == DOMAIN cs = Call /\ \A r \in Call : CallOk(cs[r])
\* WaitersSound, of any calls and waiters.
Waits(cs, wt) ==
    /\ wt \in [Prompt -> Call \union {NoCall}]
    /\ \A p \in Prompt : wt[p] # NoCall => cs[wt[p]].prompt = p /\ cs[wt[p]].rx = "open"
    /\ \A r \in Call : cs[r].rx = "open" => cs[r].at \in {"publishing", "waiting"} /\ wt[cs[r].prompt] = r

\* The call will charge its nonce.
ChargeDue(c) == c.kind \in {"infer", "enterprise"} /\ c.at \in {"computing", "settling"}
\* The calls of w that will.
Due(cs, w) == {r \in Call : cs[r].wallet = w /\ ChargeDue(cs[r])}
\* The calls between the guard and its booking.
Calling(cs) == {r \in Call : cs[r].at = "paying_api"}
\* OneChargePerNonce, of any calls, charges and nonces.
ChargesCounted(cs, ch, no) == \A w \in Wallet : ch[w] + Cardinality(Due(cs, w)) <= no[w]
\* GuardOverrunBounded, of any calls and month.
Booked(cs, g) == g + CallCost * Cardinality(Calling(cs)) < CostLimit + CallCost * Cardinality(Call)

\* Types of the rest: a message and a job ask for a prompt.
InfTypes ==
    /\ aiNonce \in [Wallet -> Nat] /\ charges \in [Wallet -> Nat] /\ funds \in [Wallet -> Nat]
    /\ quota \in [Wallet -> 0..(DailyCap + 1)] /\ guard \in Nat
    /\ IsFiniteSet(jobs) /\ Cardinality(jobs) <= Permits
    /\ \A m \in topic \union jobs : m.prompt \in Prompt /\ "kind" \in DOMAIN m
\* What the calls owe to the waiters, the nonces and the month's guard.
CallsSound(cs, wt, ch, no, g) == CallsOk(cs) /\ Waits(cs, wt) /\ ChargesCounted(cs, ch, no) /\ Booked(cs, g)
\* The inductive invariant of paid inference.
InfInv == InfTypes /\ CallsSound(calls, waiters, charges, aiNonce, guard)

\* The settings are naturals; there is at least one call, and none is called "none".
LEMMA InfNats ==
    /\ OpeningFunds \in Nat /\ MinBalance \in Nat /\ Charge \in Nat /\ Permits \in Nat /\ CostLimit \in Nat /\ CallCost \in Nat /\ DailyCap \in Nat
    /\ Charge > 0 /\ CallCost > 0 /\ IsFiniteSet(Call) /\ Call # {} /\ NoCall \notin Call /\ NodeWallet \in Wallet
    /\ MaxNonce \in [Wallet -> Nat]
BY InferenceAssumption DEF NoCall

\* A slot without a call.
LEMMA FreshIs == Fresh \in CallRec /\ Fresh.at = "idle" /\ Fresh.rx = "none" /\ CallOk(Fresh)
BY InfNats DEF Fresh, CallRec, CallOk, Stages, Asking

\* A call as it enters.
LEMMA AskIs ==
    ASSUME NEW k \in {"infer", "utility", "enterprise", "submit", "proxy"}, NEW w \in Wallet, NEW p \in Prompt \union {"-"}, NEW n \in Nat
    PROVE  LET c == Asks(k, w, p, n)
           IN  c \in CallRec /\ c.at = "idle" /\ c.kind = k /\ c.wallet = w /\ c.prompt = p /\ c.rx = "none"
<1>1. PICK f \in CallRec : f = Fresh BY FreshIs
<1>2. Asks(k, w, p, n) = [f EXCEPT !.kind = k, !.wallet = w, !.prompt = p, !.nonce = n] BY <1>1 DEF Asks
<1>3. f.at = "idle" /\ f.rx = "none" BY <1>1, FreshIs
<1> QED BY <1>2, <1>3 DEF CallRec

\* A call refused for its nonce.
LEMMA RefusedIs == ASSUME NEW b \in BOOLEAN PROVE CallOk([Fresh EXCEPT !.at = "refused", !.signed = b])
    /\ [Fresh EXCEPT !.at = "refused", !.signed = b].at = "refused" /\ [Fresh EXCEPT !.at = "refused", !.signed = b].rx = "none"
<1>1. PICK f \in CallRec : f = Fresh BY FreshIs
<1>2. PICK c : c = [f EXCEPT !.at = "refused", !.signed = b] OBVIOUS
<1>3. c \in CallRec /\ c.at = "refused" /\ c.rx = f.rx BY <1>2 DEF CallRec, Stages
<1>4. CallOk(c) BY <1>3 DEF CallOk, Asking
<1> QED BY <1>1, <1>2, <1>3, <1>4, FreshIs

\* One call moves and no channel does.
LEMMA CallSet ==
    ASSUME NEW cs, NEW wt, CallsOk(cs), Waits(cs, wt), NEW r \in Call, NEW c, CallOk(c), cs[r].rx # "open", c.rx # "open"
    PROVE  CallsOk([cs EXCEPT ![r] = c]) /\ Waits([cs EXCEPT ![r] = c], wt)
<1>1. PICK ds : ds = [cs EXCEPT ![r] = c] OBVIOUS
<1>2. DOMAIN ds = Call /\ ds[r] = c /\ \A q \in Call : q # r => ds[q] = cs[q] BY <1>1 DEF CallsOk
<1>3. CallsOk(ds) BY <1>2 DEF CallsOk
<1>4. ASSUME NEW p \in Prompt, wt[p] # NoCall PROVE ds[wt[p]].prompt = p /\ ds[wt[p]].rx = "open"
  <2>1. wt[p] \in Call /\ cs[wt[p]].prompt = p /\ cs[wt[p]].rx = "open" BY <1>4 DEF Waits
  <2> QED BY <1>2, <2>1
<1>5. ASSUME NEW q \in Call, ds[q].rx = "open" PROVE ds[q].at \in {"publishing", "waiting"} /\ wt[ds[q].prompt] = q
  <2>1. q # r BY <1>2, <1>5
  <2> QED BY <1>2, <1>5, <2>1 DEF Waits
<1>6. Waits(ds, wt) BY <1>4, <1>5 DEF Waits
<1> QED BY <1>1, <1>3, <1>6

\* The sender of o's channel is used or dropped.
Ended(cs, o, v, ds) == ds = IF o = NoCall THEN cs ELSE [cs EXCEPT ![o].rx = v]

\* ds is cs but for channels that are no longer open, p's among them.
SameButRx(cs, ds, p) ==
    \A q \in Call : /\ ds[q].at = cs[q].at /\ ds[q].kind = cs[q].kind /\ ds[q].wallet = cs[q].wallet /\ ds[q].prompt = cs[q].prompt
                    /\ ds[q].rx = "open" => cs[q].rx = "open" /\ cs[q].prompt # p

\* A channel is closed or answered and its waiter leaves.
LEMMA ChannelEnds ==
    ASSUME NEW cs, NEW wt, CallsOk(cs), Waits(cs, wt), NEW p \in Prompt, NEW v \in {"closed", "sent"}, NEW ds,
           Ended(cs, wt[p], v, ds)
    PROVE  /\ CallsOk(ds) /\ Waits(ds, [wt EXCEPT ![p] = NoCall])
           /\ SameButRx(cs, ds, p)
<1>1. PICK o : o = wt[p] OBVIOUS
<1>2. PICK wu : wu = [wt EXCEPT ![p] = NoCall] OBVIOUS
<1>3. wt \in [Prompt -> Call \union {NoCall}] /\ o \in Call \union {NoCall} BY <1>1 DEF Waits
<1>4. wu \in [Prompt -> Call \union {NoCall}] /\ wu[p] = NoCall /\ \A q \in Prompt : q # p => wu[q] = wt[q] BY <1>2, <1>3
<1>5. o # NoCall => cs[o].prompt = p /\ cs[o].rx = "open" BY <1>1 DEF Waits
<1>6. \A q \in Call : cs[q].rx = "open" => cs[q].at \in {"publishing", "waiting"} /\ wt[cs[q].prompt] = q /\ cs[q].prompt \in Prompt
  BY DEF Waits, CallsOk, CallOk, Asking
<1>7. DOMAIN ds = Call /\ \A q \in Call : q # o => ds[q] = cs[q] BY <1>1, <1>3 DEF CallsOk, Ended
<1>8. o # NoCall => CallOk(ds[o]) /\ ds[o].at = cs[o].at /\ ds[o].kind = cs[o].kind /\ ds[o].wallet = cs[o].wallet /\ ds[o].prompt = cs[o].prompt /\ ds[o].rx = v
  <2> SUFFICES ASSUME o # NoCall
               PROVE  CallOk(ds[o]) /\ ds[o].at = cs[o].at /\ ds[o].kind = cs[o].kind /\ ds[o].wallet = cs[o].wallet /\ ds[o].prompt = cs[o].prompt /\ ds[o].rx = v
    OBVIOUS
  <2>1. o \in Call BY <1>3
  <2>2. PICK c : c = cs[o] OBVIOUS
  <2>3. c \in CallRec /\ CallOk(c) BY <2>1, <2>2 DEF CallsOk, CallOk
  <2>4. ds[o] = [c EXCEPT !.rx = v] BY <1>1, <2>1, <2>2 DEF CallsOk, Ended
  <2>5. ds[o] \in CallRec /\ ds[o].at = c.at /\ ds[o].kind = c.kind /\ ds[o].wallet = c.wallet /\ ds[o].prompt = c.prompt /\ ds[o].rx = v
    BY <2>3, <2>4 DEF CallRec
  <2>6. CallOk(ds[o]) BY <2>3, <2>5 DEF CallOk
  <2> QED BY <2>2, <2>5, <2>6
<1>9. CallsOk(ds) BY <1>3, <1>7, <1>8, InfNats DEF CallsOk
<1>10. ASSUME NEW q \in Call
       PROVE  /\ ds[q].at = cs[q].at /\ ds[q].kind = cs[q].kind /\ ds[q].wallet = cs[q].wallet /\ ds[q].prompt = cs[q].prompt
              /\ ds[q].rx = "open" => cs[q].rx = "open" /\ cs[q].prompt # p
  <2>1. CASE q = o BY <1>8, <2>1, InfNats
  <2>2. CASE q # o
    <3>1. ds[q] = cs[q] BY <1>7, <2>2
    <3>2. cs[q].rx = "open" => cs[q].prompt # p BY <1>1, <1>6, <2>2
    <3> QED BY <3>1, <3>2
  <2> QED BY <2>1, <2>2
<1>11. ASSUME NEW q \in Prompt, wu[q] # NoCall PROVE ds[wu[q]].prompt = q /\ ds[wu[q]].rx = "open"
  <2>1. q # p /\ wu[q] = wt[q] BY <1>4, <1>11
  <2>2. wt[q] \in Call /\ cs[wt[q]].prompt = q /\ cs[wt[q]].rx = "open" BY <1>3, <1>11, <2>1 DEF Waits
  <2>3. wt[q] # o BY <1>5, <2>1, <2>2, InfNats
  <2> QED BY <1>7, <2>1, <2>2, <2>3
<1>12. ASSUME NEW q \in Call, ds[q].rx = "open" PROVE ds[q].at \in {"publishing", "waiting"} /\ wu[ds[q].prompt] = q
  BY <1>4, <1>6, <1>10, <1>12
<1>13. Waits(ds, wu) BY <1>4, <1>11, <1>12 DEF Waits
<1> QED BY <1>2, <1>9, <1>10, <1>13 DEF SameButRx

\* A call registers where nobody waits.
LEMMA ChannelOpens ==
    ASSUME NEW cs, NEW wt, CallsOk(cs), Waits(cs, wt), NEW p \in Prompt, wt[p] = NoCall, NEW r \in Call, cs[r].rx # "open",
           NEW c, CallOk(c), c.at = "publishing", c.prompt = p, c.rx = "open"
    PROVE  CallsOk([cs EXCEPT ![r] = c]) /\ Waits([cs EXCEPT ![r] = c], [wt EXCEPT ![p] = r])
<1>1. PICK ds : ds = [cs EXCEPT ![r] = c] OBVIOUS
<1>2. DOMAIN ds = Call /\ ds[r] = c /\ \A q \in Call : q # r => ds[q] = cs[q] BY <1>1 DEF CallsOk
<1>3. CallsOk(ds) BY <1>2 DEF CallsOk
<1>4. PICK wu : wu = [wt EXCEPT ![p] = r] OBVIOUS
<1>5. wu \in [Prompt -> Call \union {NoCall}] /\ wu[p] = r /\ \A q \in Prompt : q # p => wu[q] = wt[q] BY <1>4 DEF Waits
<1>6. ASSUME NEW q \in Prompt, wu[q] # NoCall PROVE ds[wu[q]].prompt = q /\ ds[wu[q]].rx = "open"
  <2>1. CASE q = p BY <1>2, <1>5, <2>1
  <2>2. CASE q # p
    <3>1. wu[q] = wt[q] /\ wt[q] \in Call /\ cs[wt[q]].prompt = q /\ cs[wt[q]].rx = "open" BY <1>5, <1>6, <2>2 DEF Waits
    <3> QED BY <1>2, <3>1
  <2> QED BY <2>1, <2>2
<1>7. ASSUME NEW q \in Call, ds[q].rx = "open" PROVE ds[q].at \in {"publishing", "waiting"} /\ wu[ds[q].prompt] = q
  <2>1. CASE q = r BY <1>2, <1>5, <2>1
  <2>2. CASE q # r
    <3>1. ds[q] = cs[q] /\ cs[q].at \in {"publishing", "waiting"} /\ wt[cs[q].prompt] = q /\ cs[q].prompt \in Prompt
      BY <1>2, <1>7, <2>2 DEF Waits, CallsOk, CallOk, Asking
    <3>2. cs[q].prompt # p BY <3>1, InfNats
    <3> QED BY <1>5, <3>1, <3>2
  <2> QED BY <2>1, <2>2
<1>8. Waits(ds, wu) BY <1>5, <1>6, <1>7 DEF Waits
<1> QED BY <1>1, <1>3, <1>4, <1>8

-----------------------------------------------------------------------------
(* Counting charges and calls of the API. *)

\* The counts are of finite sets.
LEMMA DueFinite ==
    /\ \A cs, w : IsFiniteSet(Due(cs, w)) /\ Cardinality(Due(cs, w)) \in Nat
    /\ \A cs : IsFiniteSet(Calling(cs)) /\ Cardinality(Calling(cs)) \in Nat /\ Cardinality(Calling(cs)) <= Cardinality(Call)
    /\ Cardinality(Call) \in Nat /\ Cardinality(Call) > 0
<1>1. IsFiniteSet(Call) /\ Call # {} BY InfNats
<1>2. Cardinality(Call) \in Nat /\ Cardinality(Call) # 0 BY <1>1, FS_CardinalityType, FS_EmptySet
<1>3. ASSUME NEW T, T \subseteq Call PROVE IsFiniteSet(T) /\ Cardinality(T) \in Nat /\ Cardinality(T) <= Cardinality(Call)
  BY <1>1, <1>3, FS_Subset, FS_CardinalityType
<1>4. \A cs, w : Due(cs, w) \subseteq Call BY DEF Due
<1>5. \A cs : Calling(cs) \subseteq Call BY DEF Calling
<1> QED BY <1>2, <1>3, <1>4, <1>5

\* A call that moves changes the charges due by itself at most.
LEMMA DueMoves ==
    ASSUME NEW cs, DOMAIN cs = Call, NEW r \in Call, NEW c, NEW w
    PROVE  LET ds == [cs EXCEPT ![r] = c] IN
           /\ Cardinality(Due(ds, w)) <= Cardinality(Due(cs, w)) + 1
           /\ ~(c.wallet = w /\ ChargeDue(c)) => Cardinality(Due(ds, w)) <= Cardinality(Due(cs, w))
           /\ cs[r].wallet = w /\ ChargeDue(cs[r]) => Cardinality(Due(ds, w)) <= Cardinality(Due(cs, w))
           /\ ~(c.wallet = w /\ ChargeDue(c)) /\ cs[r].wallet = w /\ ChargeDue(cs[r]) =>
                  Cardinality(Due(ds, w)) + 1 = Cardinality(Due(cs, w))
<1>1. PICK ds : ds = [cs EXCEPT ![r] = c] OBVIOUS
<1>2. ds[r] = c /\ \A q \in Call : q # r => ds[q] = cs[q] BY <1>1
<1>3. PICK S : S = Due(cs, w) OBVIOUS
<1>4. PICK T : T = Due(ds, w) OBVIOUS
<1>5. IsFiniteSet(S) /\ Cardinality(S) \in Nat /\ IsFiniteSet(T) /\ Cardinality(T) \in Nat BY <1>3, <1>4, DueFinite
<1>6. T \ {r} = S \ {r} BY <1>2, <1>3, <1>4 DEF Due
<1>7. (r \in S <=> cs[r].wallet = w /\ ChargeDue(cs[r])) /\ (r \in T <=> c.wallet = w /\ ChargeDue(c)) BY <1>2, <1>3, <1>4 DEF Due
<1>8. Cardinality(S \ {r}) = (IF r \in S THEN Cardinality(S) - 1 ELSE Cardinality(S)) BY <1>5, FS_RemoveElement
<1>9. Cardinality(T \ {r}) = (IF r \in T THEN Cardinality(T) - 1 ELSE Cardinality(T)) BY <1>5, FS_RemoveElement
<1>10. /\ Cardinality(T) <= Cardinality(S) + 1
       /\ r \notin T => Cardinality(T) <= Cardinality(S)
       /\ r \in S => Cardinality(T) <= Cardinality(S)
       /\ r \notin T /\ r \in S => Cardinality(T) + 1 = Cardinality(S)
  <2>1. PICK m \in Nat : m = Cardinality(S) BY <1>5
  <2>2. PICK n \in Nat : n = Cardinality(T) BY <1>5
  <2>3. (IF r \in S THEN m - 1 ELSE m) = (IF r \in T THEN n - 1 ELSE n) BY <1>6, <1>8, <1>9, <2>1, <2>2
  <2>4. /\ n <= m + 1
        /\ r \notin T => n <= m
        /\ r \in S => n <= m
        /\ r \notin T /\ r \in S => n + 1 = m
    BY <2>3
  <2> QED BY <2>1, <2>2, <2>4
<1> QED BY <1>1, <1>3, <1>4, <1>7, <1>10

\* Uncounted: a step that adds no charge due.
LEMMA NoneDue ==
    ASSUME NEW cs, CallsOk(cs), NEW ch \in [Wallet -> Nat], NEW no \in [Wallet -> Nat], NEW n2 \in [Wallet -> Nat], ChargesCounted(cs, ch, no),
           \A w \in Wallet : n2[w] >= no[w], NEW r \in Call, NEW c,
           ~ChargeDue(c) \/ (ChargeDue(cs[r]) /\ cs[r].wallet = c.wallet)
    PROVE  ChargesCounted([cs EXCEPT ![r] = c], ch, n2)
<1>1. PICK ds : ds = [cs EXCEPT ![r] = c] OBVIOUS
<1> SUFFICES ASSUME NEW w \in Wallet PROVE ch[w] + Cardinality(Due(ds, w)) <= n2[w] BY <1>1 DEF ChargesCounted
<1>2. Cardinality(Due(ds, w)) <= Cardinality(Due(cs, w))
  <2>1. DOMAIN cs = Call BY DEF CallsOk
  <2>2. ~(c.wallet = w /\ ChargeDue(c)) \/ (cs[r].wallet = w /\ ChargeDue(cs[r])) OBVIOUS
  <2> QED BY <1>1, <2>1, <2>2, DueMoves
<1>3. ch[w] + Cardinality(Due(cs, w)) <= no[w] BY DEF ChargesCounted
<1>4. Cardinality(Due(cs, w)) \in Nat /\ Cardinality(Due(ds, w)) \in Nat BY DueFinite
<1>5. ch[w] \in Nat /\ no[w] \in Nat /\ n2[w] \in Nat /\ n2[w] >= no[w] OBVIOUS
<1> QED BY <1>2, <1>3, <1>4, <1>5

\* A nonce is taken for the charge that will be due.
LEMMA OneDue ==
    ASSUME NEW cs, CallsOk(cs), NEW ch \in [Wallet -> Nat], NEW no \in [Wallet -> Nat], ChargesCounted(cs, ch, no),
           NEW r \in Call, NEW c, c.wallet \in Wallet
    PROVE  ChargesCounted([cs EXCEPT ![r] = c], ch, [no EXCEPT ![c.wallet] = no[c.wallet] + 1])
<1>1. PICK ds : ds = [cs EXCEPT ![r] = c] OBVIOUS
<1>2. PICK n2 : n2 = [no EXCEPT ![c.wallet] = no[c.wallet] + 1] OBVIOUS
<1> SUFFICES ASSUME NEW w \in Wallet PROVE ch[w] + Cardinality(Due(ds, w)) <= n2[w] BY <1>1, <1>2 DEF ChargesCounted
<1>3. DOMAIN cs = Call BY DEF CallsOk
<1>4. ch[w] + Cardinality(Due(cs, w)) <= no[w] BY DEF ChargesCounted
<1>5. Cardinality(Due(cs, w)) \in Nat /\ Cardinality(Due(ds, w)) \in Nat BY DueFinite
<1>6. ch[w] \in Nat /\ no[w] \in Nat OBVIOUS
<1>7. CASE w = c.wallet
  <2>1. Cardinality(Due(ds, w)) <= Cardinality(Due(cs, w)) + 1 BY <1>1, <1>3, DueMoves
  <2>2. n2[w] = no[w] + 1 BY <1>2, <1>7
  <2> QED BY <1>4, <1>5, <1>6, <2>1, <2>2
<1>8. CASE w # c.wallet
  <2>1. Cardinality(Due(ds, w)) <= Cardinality(Due(cs, w)) BY <1>1, <1>3, <1>8, DueMoves
  <2>2. n2[w] = no[w] BY <1>2, <1>8
  <2> QED BY <1>4, <1>5, <1>6, <2>1, <2>2
<1> QED BY <1>7, <1>8

\* The charge is made.
LEMMA DuePaid ==
    ASSUME NEW cs, CallsOk(cs), NEW ch \in [Wallet -> Nat], NEW no \in [Wallet -> Nat], ChargesCounted(cs, ch, no),
           NEW r \in Call, NEW c, ~ChargeDue(c), ChargeDue(cs[r]), cs[r].wallet \in Wallet
    PROVE  ChargesCounted([cs EXCEPT ![r] = c], [ch EXCEPT ![cs[r].wallet] = ch[cs[r].wallet] + 1], no)
<1>1. PICK ds : ds = [cs EXCEPT ![r] = c] OBVIOUS
<1>2. PICK v : v = cs[r].wallet OBVIOUS
<1>3. PICK c2 : c2 = [ch EXCEPT ![v] = ch[v] + 1] OBVIOUS
<1> SUFFICES ASSUME NEW w \in Wallet PROVE c2[w] + Cardinality(Due(ds, w)) <= no[w] BY <1>1, <1>2, <1>3 DEF ChargesCounted
<1>4. DOMAIN cs = Call BY DEF CallsOk
<1>5. ch[w] + Cardinality(Due(cs, w)) <= no[w] BY DEF ChargesCounted
<1>6. Cardinality(Due(cs, w)) \in Nat /\ Cardinality(Due(ds, w)) \in Nat BY DueFinite
<1>7. ch[w] \in Nat /\ no[w] \in Nat OBVIOUS
<1>8. CASE w = v
  <2>1. Cardinality(Due(ds, w)) + 1 = Cardinality(Due(cs, w)) BY <1>1, <1>2, <1>4, <1>8, DueMoves
  <2>2. c2[w] = ch[w] + 1 BY <1>3, <1>8
  <2> QED BY <1>5, <1>6, <1>7, <2>1, <2>2
<1>9. CASE w # v
  <2>1. Cardinality(Due(ds, w)) <= Cardinality(Due(cs, w)) BY <1>1, <1>4, DueMoves
  <2>2. c2[w] = ch[w] BY <1>3, <1>9
  <2> QED BY <1>5, <1>6, <1>7, <2>1, <2>2
<1> QED BY <1>8, <1>9

\* The price of the calls grows with their number.
LEMMA CostOf ==
    ASSUME NEW x \in Nat, NEW y \in Nat, x <= y
    PROVE  CallCost * x \in Nat /\ CallCost * y \in Nat /\ CallCost * x <= CallCost * y /\ CallCost * (x + 1) = CallCost * x + CallCost
<1>1. CallCost \in Nat BY InfNats
<1>2. CallCost * x = x * CallCost /\ CallCost * y = y * CallCost /\ CallCost * (x + 1) = (x + 1) * CallCost BY <1>1
<1>3. x * CallCost <= y * CallCost BY <1>1, ProductMono
<1>4. x * CallCost \in Nat /\ y * CallCost \in Nat /\ (x + 1) * CallCost = x * CallCost + CallCost BY <1>1, ProductNext
<1> QED BY <1>2, <1>3, <1>4

\* Calls of the API: one that moves.
LEMMA BookedMoves ==
    ASSUME NEW cs, CallsOk(cs), NEW g \in Nat, Booked(cs, g), NEW r \in Call, NEW c,
           c.at = "paying_api" => g < CostLimit
    PROVE  Booked([cs EXCEPT ![r] = c], g)
<1>1. PICK ds : ds = [cs EXCEPT ![r] = c] OBVIOUS
<1>2. PICK a : a = Cardinality(Calling(cs)) OBVIOUS
<1>3. PICK b : b = Cardinality(Calling(ds)) OBVIOUS
<1>4. PICK n : n = Cardinality(Call) OBVIOUS
<1>5. a \in Nat /\ b \in Nat /\ n \in Nat /\ b <= n /\ a <= n BY <1>2, <1>3, <1>4, DueFinite
<1>6. CallCost \in Nat /\ CostLimit \in Nat BY InfNats
<1>7. PICK A \in Nat, B \in Nat, N \in Nat : A = CallCost * a /\ B = CallCost * b /\ N = CallCost * n BY <1>5, CostOf
<1>8. CASE c.at = "paying_api"
  <2>1. B <= N BY <1>5, <1>7, CostOf
  <2>2. g + B < CostLimit + N BY <1>6, <1>8, <2>1
  <2> QED BY <1>1, <1>3, <1>4, <1>7, <2>2 DEF Booked
<1>9. CASE c.at # "paying_api"
  <2>1. Calling(ds) \subseteq Calling(cs) BY <1>1, <1>9 DEF Calling, CallsOk
  <2>2. IsFiniteSet(Calling(cs)) BY DueFinite
  <2>3. b <= a BY <1>2, <1>3, <2>1, <2>2, FS_Subset
  <2>4. B <= A BY <1>5, <1>7, <2>3, CostOf
  <2>5. g + A < CostLimit + N BY <1>2, <1>4, <1>7 DEF Booked
  <2>6. g + B < CostLimit + N BY <1>6, <2>4, <2>5
  <2> QED BY <1>1, <1>3, <1>4, <1>7, <2>6 DEF Booked
<1> QED BY <1>8, <1>9

\* A call of the API is booked as it returns.
LEMMA BookedOnce ==
    ASSUME NEW cs, CallsOk(cs), NEW g \in Nat, Booked(cs, g), NEW r \in Call, cs[r].at = "paying_api", NEW c, c.at # "paying_api"
    PROVE  Booked([cs EXCEPT ![r] = c], g + CallCost)
<1>1. PICK ds : ds = [cs EXCEPT ![r] = c] OBVIOUS
<1>2. PICK S : S = Calling(cs) OBVIOUS
<1>3. PICK a : a = Cardinality(S) OBVIOUS
<1>4. PICK b : b = Cardinality(Calling(ds)) OBVIOUS
<1>5. PICK n : n = CallCost * Cardinality(Call) OBVIOUS
<1>6. Calling(ds) = S \ {r} /\ r \in S BY <1>1, <1>2 DEF Calling, CallsOk
<1>7. IsFiniteSet(S) /\ a \in Nat /\ b \in Nat BY <1>2, <1>3, <1>4, DueFinite
<1>8. a = b + 1
  <2>1. Cardinality(S \ {r}) = Cardinality(S) - 1 BY <1>6, <1>7, FS_RemoveElement
  <2>2. b = a - 1 BY <1>3, <1>4, <1>6, <2>1
  <2> QED BY <1>7, <2>2
<1>9. CallCost \in Nat /\ CostLimit \in Nat /\ n \in Nat
  <2>1. Cardinality(Call) \in Nat BY DueFinite
  <2> QED BY <1>5, <2>1, InfNats, CostOf
<1>10. PICK A \in Nat, B \in Nat : A = CallCost * a /\ B = CallCost * b /\ A = B + CallCost
  <2>1. b <= b BY <1>7
  <2>2. CallCost * b \in Nat /\ CallCost * (b + 1) = CallCost * b + CallCost BY <1>7, <2>1, CostOf
  <2> QED BY <1>8, <1>9, <2>2
<1>11. g + A < CostLimit + n BY <1>2, <1>3, <1>5, <1>10 DEF Booked
<1>12. (g + CallCost) + B < CostLimit + n BY <1>9, <1>10, <1>11
<1> QED BY <1>1, <1>4, <1>5, <1>10, <1>12 DEF Booked

\* A channel that ends changes neither count.
LEMMA CountsStay ==
    ASSUME NEW cs, NEW ds, \A q \in Call : ds[q].at = cs[q].at /\ ds[q].kind = cs[q].kind /\ ds[q].wallet = cs[q].wallet
    PROVE  /\ \A ch, no : ChargesCounted(cs, ch, no) => ChargesCounted(ds, ch, no)
           /\ \A g : Booked(cs, g) => Booked(ds, g)
<1>1. \A w : Due(ds, w) = Due(cs, w) BY DEF Due, ChargeDue
<1>2. Calling(ds) = Calling(cs) BY DEF Calling
<1> QED BY <1>1, <1>2 DEF ChargesCounted, Booked

-----------------------------------------------------------------------------
(* Calls. *)

\* Only a call that publishes or waits has an open channel.
LEMMA NotWaiting ==
    ASSUME InfInv, NEW r \in Call, calls[r].at \notin {"publishing", "waiting"} PROVE calls[r].rx # "open"
BY DEF InfInv, CallsSound, Waits

\* A call goes where no charge and no call of the API is due.
LEMMA PlainMove ==
    ASSUME InfInv, NEW r \in Call, calls[r].at \notin {"publishing", "waiting"}, NEW c, CallOk(c), c.rx # "open",
           ~ChargeDue(c) \/ (ChargeDue(calls[r]) /\ calls[r].wallet = c.wallet), c.at # "paying_api",
           NEW no \in [Wallet -> Nat], \A w \in Wallet : no[w] >= aiNonce[w]
    PROVE  CallsSound([calls EXCEPT ![r] = c], waiters, charges, no, guard)
<1>1. calls[r].rx # "open" BY NotWaiting
<1>2. CallsOk([calls EXCEPT ![r] = c]) /\ Waits([calls EXCEPT ![r] = c], waiters) BY <1>1, CallSet DEF InfInv, CallsSound
<1>3. charges \in [Wallet -> Nat] /\ aiNonce \in [Wallet -> Nat] /\ guard \in Nat BY DEF InfInv, InfTypes
<1>4. ChargesCounted([calls EXCEPT ![r] = c], charges, no) BY <1>3, NoneDue DEF InfInv, CallsSound
<1>5. Booked([calls EXCEPT ![r] = c], guard) BY <1>3, BookedMoves DEF InfInv, CallsSound
<1> QED BY <1>2, <1>4, <1>5 DEF CallsSound

\* Nonces that stay are nonces that do not fall.
LEMMA NoRise == ASSUME InfInv PROVE aiNonce \in [Wallet -> Nat] /\ \A w \in Wallet : aiNonce[w] >= aiNonce[w]
<1>1. aiNonce \in [Wallet -> Nat] BY DEF InfInv, InfTypes
<1> QED BY <1>1

\* ai_consume_nonce raises the wallet's nonce by one.
LEMMA NonceRises ==
    ASSUME InfInv, NEW w \in Wallet, NEW n \in Nat, NonceOk(w, n)
    PROVE  LET no == [aiNonce EXCEPT ![w] = n]
           IN  no \in [Wallet -> Nat] /\ (\A v \in Wallet : no[v] >= aiNonce[v]) /\ no = [aiNonce EXCEPT ![w] = aiNonce[w] + 1]
<1>1. aiNonce \in [Wallet -> Nat] BY DEF InfInv, InfTypes
<1>2. n = aiNonce[w] + 1 BY DEF NonceOk
<1>3. PICK no : no = [aiNonce EXCEPT ![w] = n] OBVIOUS
<1>4. no \in [Wallet -> Nat] BY <1>1, <1>3
<1>5. \A v \in Wallet : no[v] >= aiNonce[v]
  <2> SUFFICES ASSUME NEW v \in Wallet PROVE no[v] >= aiNonce[v] OBVIOUS
  <2>1. aiNonce[v] \in Nat BY <1>1
  <2>2. CASE v = w BY <1>1, <1>2, <1>3, <2>1, <2>2
  <2>3. CASE v # w BY <1>1, <1>3, <2>1, <2>3
  <2> QED BY <2>2, <2>3
<1> QED BY <1>2, <1>3, <1>4, <1>5

\* A handler that waits for nothing returns.
LEMMA ReturnMove ==
    ASSUME InfInv, NEW r \in Call, calls[r].at \notin {"publishing", "waiting"}, NEW no \in [Wallet -> Nat], \A w \in Wallet : no[w] >= aiNonce[w]
    PROVE  CallsSound([calls EXCEPT ![r] = Fresh], waiters, charges, no, guard)
<1>1. ~ChargeDue(Fresh) BY FreshIs DEF ChargeDue
<1> QED BY <1>1, FreshIs, PlainMove

\* A handler refuses a nonce.
LEMMA RefuseMove ==
    ASSUME InfInv, NEW r \in Call, calls[r].at \notin {"publishing", "waiting"}, NEW c \in CallRec, RefusesNonce(r, c)
    PROVE  CallsSound(calls', waiters, charges, aiNonce, guard)
<1>1. PICK b \in BOOLEAN : b = c.signed BY DEF CallRec
<1>2. PICK f : f = [Fresh EXCEPT !.at = "refused", !.signed = b] OBVIOUS
<1>3. CallOk(f) /\ f.at = "refused" /\ f.rx = "none" BY <1>2, RefusedIs
<1>4. calls' = [calls EXCEPT ![r] = f] BY <1>1, <1>2 DEF RefusesNonce
<1>5. ~ChargeDue(f) BY <1>3 DEF ChargeDue
<1> QED BY <1>3, <1>4, <1>5, PlainMove, NoRise

\* register_inference_waiter closes the channel of the waiter it replaces.
LEMMA Registers ==
    ASSUME InfInv, NEW r \in Call, calls[r].at \notin {"publishing", "waiting"}, NEW c \in CallRec, c.prompt \in Prompt, RegisterWaiter(r, c),
           NEW no \in [Wallet -> Nat], \A w \in Wallet : no[w] >= aiNonce[w]
    PROVE  CallsSound(calls', waiters', charges, no, guard)
<1>1. PICK p \in Prompt : p = c.prompt OBVIOUS
<1>2. PICK f : f = [c EXCEPT !.at = "publishing", !.rx = "open"] OBVIOUS
<1>3. f \in CallRec /\ f.at = "publishing" /\ f.rx = "open" /\ f.prompt = p BY <1>1, <1>2 DEF CallRec, Stages
<1>4. CallOk(f) BY <1>3 DEF CallOk
<1>5. PICK ds : ds = CloseChannel(calls, waiters[p]) OBVIOUS
<1>6. ds = IF waiters[p] = NoCall THEN calls ELSE [calls EXCEPT ![waiters[p]].rx = "closed"] BY <1>5 DEF CloseChannel
<1>7. PICK wu : wu = [waiters EXCEPT ![p] = NoCall] OBVIOUS
<1>8. /\ CallsOk(ds) /\ Waits(ds, wu)
      /\ \A q \in Call : /\ ds[q].at = calls[q].at /\ ds[q].kind = calls[q].kind /\ ds[q].wallet = calls[q].wallet
                         /\ ds[q].rx = "open" => calls[q].rx = "open"
  <2>1. CallsOk(calls) /\ Waits(calls, waiters) BY DEF InfInv, CallsSound
  <2>2. PICK v \in {"closed", "sent"} : v = "closed" OBVIOUS
  <2>3. Ended(calls, waiters[p], v, ds) BY <1>6, <2>2 DEF Ended
  <2>4. CallsOk(ds) /\ Waits(ds, [waiters EXCEPT ![p] = NoCall]) BY <2>1, <2>3, ChannelEnds
  <2>5. SameButRx(calls, ds, p) BY <2>1, <2>3, ChannelEnds
  <2> QED BY <1>7, <2>4, <2>5 DEF SameButRx
<1>9. ds[r].rx # "open" BY <1>8, NotWaiting
<1>10. waiters \in [Prompt -> Call \union {NoCall}] BY DEF InfInv, CallsSound, Waits
<1>11. wu[p] = NoCall /\ [waiters EXCEPT ![p] = r] = [wu EXCEPT ![p] = r] BY <1>7, <1>10
<1>12. calls' = [ds EXCEPT ![r] = f] /\ waiters' = [wu EXCEPT ![p] = r] BY <1>1, <1>2, <1>5, <1>11 DEF RegisterWaiter
<1>13. CallsOk(calls') /\ Waits(calls', waiters') BY <1>3, <1>4, <1>8, <1>9, <1>11, <1>12, ChannelOpens
<1>14. charges \in [Wallet -> Nat] /\ aiNonce \in [Wallet -> Nat] /\ guard \in Nat BY DEF InfInv, InfTypes
<1>15. ChargesCounted(ds, charges, aiNonce) /\ Booked(ds, guard) BY <1>8, CountsStay DEF InfInv, CallsSound
<1>16. ~ChargeDue(f) BY <1>3 DEF ChargeDue
<1>17. ChargesCounted(calls', charges, no) BY <1>8, <1>12, <1>14, <1>15, <1>16, NoneDue
<1>18. Booked(calls', guard) BY <1>3, <1>8, <1>12, <1>14, <1>15, BookedMoves
<1> QED BY <1>13, <1>17, <1>18 DEF CallsSound

\* unregister_inference_waiter takes out whoever waits under the prompt, and closes its
\* channel.
LEMMA EndsWaiting ==
    ASSUME InfInv, NEW r \in Call, calls[r].at \in {"publishing", "waiting"}, EndWaiter(r)
    PROVE  CallsSound(calls', waiters', charges, aiNonce, guard)
<1>1. PICK p \in Prompt : p = calls[r].prompt BY DEF InfInv, CallsSound, CallsOk, CallOk, Asking
<1>2. PICK ds : ds = CloseChannel(calls, waiters[p]) OBVIOUS
<1>3. ds = IF waiters[p] = NoCall THEN calls ELSE [calls EXCEPT ![waiters[p]].rx = "closed"] BY <1>2 DEF CloseChannel
<1>4. PICK wu : wu = [waiters EXCEPT ![p] = NoCall] OBVIOUS
<1>5. /\ CallsOk(ds) /\ Waits(ds, wu)
      /\ \A q \in Call : /\ ds[q].at = calls[q].at /\ ds[q].kind = calls[q].kind /\ ds[q].wallet = calls[q].wallet
                         /\ ds[q].rx = "open" => calls[q].rx = "open" /\ calls[q].prompt # p
  <2>1. CallsOk(calls) /\ Waits(calls, waiters) BY DEF InfInv, CallsSound
  <2>2. PICK v \in {"closed", "sent"} : v = "closed" OBVIOUS
  <2>3. Ended(calls, waiters[p], v, ds) BY <1>3, <2>2 DEF Ended
  <2>4. CallsOk(ds) /\ Waits(ds, [waiters EXCEPT ![p] = NoCall]) BY <2>1, <2>3, ChannelEnds
  <2>5. SameButRx(calls, ds, p) BY <2>1, <2>3, ChannelEnds
  <2> QED BY <1>4, <2>4, <2>5 DEF SameButRx
<1>6. ds[r].rx # "open" BY <1>1, <1>5
<1>7. calls' = [ds EXCEPT ![r] = Fresh] /\ waiters' = wu BY <1>1, <1>2, <1>4 DEF EndWaiter
<1>8. CallsOk(calls') /\ Waits(calls', waiters') BY <1>5, <1>6, <1>7, FreshIs, CallSet
<1>9. charges \in [Wallet -> Nat] /\ aiNonce \in [Wallet -> Nat] /\ guard \in Nat /\ \A w \in Wallet : aiNonce[w] >= aiNonce[w]
  BY NoRise DEF InfInv, InfTypes
<1>10. ChargesCounted(ds, charges, aiNonce) /\ Booked(ds, guard) BY <1>5, CountsStay DEF InfInv, CallsSound
<1>11. ~ChargeDue(Fresh) /\ Fresh.at # "paying_api" BY FreshIs DEF ChargeDue
<1>12. ChargesCounted(calls', charges, aiNonce) BY <1>5, <1>7, <1>9, <1>10, <1>11, NoneDue
<1>13. Booked(calls', guard) BY <1>5, <1>7, <1>9, <1>10, <1>11, BookedMoves
<1> QED BY <1>8, <1>12, <1>13 DEF CallsSound

\* A nonce is taken for a call that computes.
LEMMA StartsComputing ==
    ASSUME InfInv, NEW r \in Call, calls[r].at \notin {"publishing", "waiting"}, NEW c \in CallRec, c.rx # "open",
           c.kind \in {"infer", "utility", "enterprise"}, Goto(r, c, "computing")
    PROVE  CallsSound(calls', waiters, charges, [aiNonce EXCEPT ![c.wallet] = aiNonce[c.wallet] + 1], guard)
<1>1. PICK f : f = [c EXCEPT !.at = "computing"] OBVIOUS
<1>2. f \in CallRec /\ f.at = "computing" /\ f.rx # "open" /\ f.wallet = c.wallet /\ f.kind = c.kind /\ f.wallet \in Wallet
  BY <1>1 DEF CallRec, Stages
<1>3. CallOk(f) BY <1>2 DEF CallOk, Asking
<1>4. calls' = [calls EXCEPT ![r] = f] BY <1>1 DEF Goto
<1>5. CallsOk(calls') /\ Waits(calls', waiters) BY <1>2, <1>3, <1>4, NotWaiting, CallSet DEF InfInv, CallsSound
<1>6. charges \in [Wallet -> Nat] /\ aiNonce \in [Wallet -> Nat] /\ guard \in Nat BY DEF InfInv, InfTypes
<1>7. ChargesCounted(calls', charges, [aiNonce EXCEPT ![f.wallet] = aiNonce[f.wallet] + 1])
  BY <1>2, <1>4, <1>6, OneDue DEF InfInv, CallsSound
<1>8. Booked(calls', guard) BY <1>2, <1>4, <1>6, BookedMoves DEF InfInv, CallsSound
<1> QED BY <1>2, <1>5, <1>7, <1>8 DEF CallsSound

\* The P2P branch of post_ai_utility_impl.
LEMMA ToWorkerMove ==
    ASSUME InfInv, NEW r \in Call, calls[r].at \notin {"publishing", "waiting"}, NEW c \in CallRec, c.prompt \in Prompt, NEW h, ToWorker(r, c, h),
           NEW no \in [Wallet -> Nat], \A w \in Wallet : no[w] >= aiNonce[w]
    PROVE  CallsSound(calls', waiters', charges, no, guard)
<1>1. CASE Returns(r) /\ UNCHANGED waiters BY <1>1, ReturnMove DEF Returns
<1>2. CASE RegisterWaiter(r, c) BY <1>2, Registers
<1> QED BY <1>1, <1>2 DEF ToWorker

\* The body of post_ai_infer, reached directly or forwarded.
LEMMA InferMove ==
    ASSUME InfInv, NEW r \in Call, calls[r].at \notin {"publishing", "waiting"}, NEW c \in CallRec, c.kind = "infer", c.prompt \in Prompt, c.rx # "open",
           NEW b, NEW h, InferBody(r, c, b, h)
    PROVE  CallsSound(calls', waiters', charges, aiNonce', guard) /\ aiNonce' \in [Wallet -> Nat]
<1>1. PICK w \in Wallet : w = c.wallet BY DEF CallRec
<1>2. PICK n \in Nat : n = c.nonce BY DEF CallRec
<1>3. CASE ~NonceOk(w, n)
  <2>1. RefusesNonce(r, c) /\ UNCHANGED <<aiNonce, waiters>> BY <1>1, <1>2, <1>3 DEF InferBody
  <2>2. CallsSound(calls', waiters, charges, aiNonce, guard) BY <2>1, RefuseMove
  <2> QED BY <2>1, <2>2, NoRise
<1>4. CASE NonceOk(w, n)
  <2>1. PICK no : no = [aiNonce EXCEPT ![w] = n] OBVIOUS
  <2>2. no \in [Wallet -> Nat] /\ (\A v \in Wallet : no[v] >= aiNonce[v]) /\ no = [aiNonce EXCEPT ![w] = aiNonce[w] + 1]
    BY <1>4, <2>1, NonceRises
  <2>3. /\ aiNonce' = no
        /\ \/ Returns(r) /\ UNCHANGED waiters
           \/ Goto(r, c, "computing") /\ UNCHANGED waiters
           \/ ToWorker(r, c, h)
    BY <1>1, <1>2, <1>4, <2>1 DEF InferBody
  <2>4. CASE Returns(r) /\ UNCHANGED waiters BY <2>2, <2>3, <2>4, ReturnMove DEF Returns
  <2>5. CASE Goto(r, c, "computing") /\ UNCHANGED waiters
    <3>1. CallsSound(calls', waiters, charges, [aiNonce EXCEPT ![c.wallet] = aiNonce[c.wallet] + 1], guard) BY <2>5, StartsComputing
    <3> QED BY <1>1, <2>2, <2>3, <2>5, <3>1
  <2>6. CASE ToWorker(r, c, h) BY <2>2, <2>3, <2>6, ToWorkerMove
  <2> QED BY <2>3, <2>4, <2>5, <2>6
<1> QED BY <1>3, <1>4

\* A free slot waits for nothing.
LEMMA FreeNotWaiting == ASSUME NEW r, Free(r) PROVE calls[r].at \notin {"publishing", "waiting"}
BY DEF Free

\* A step that leaves the network, the proxy's books and the funds alone.
LEMMA SameTypes ==
    ASSUME InfInv, UNCHANGED <<funds, topic, jobs, guard, quota, charges>>, aiNonce' \in [Wallet -> Nat],
           CallsSound(calls', waiters', charges, aiNonce', guard)
    PROVE  InfInv'
<1>1. InfTypes' BY DEF InfInv, InfTypes
<1> QED BY <1>1 DEF InfInv, CallsSound, Booked, ChargesCounted, CallsOk, Waits, Due, Calling, CallOk, CallRec, ChargeDue

\* Every handler that takes a nonce keeps InfInv as it enters.
LEMMA EnterKeeps ==
    ASSUME InfInv, NEW r \in Call, NEW w \in Wallet, NEW p \in Prompt, NEW n \in 1..MaxNonce[w], NEW b \in BOOLEAN, NEW h \in BOOLEAN,
           \/ Infer(r, w, p, n, b, h) \/ InferSigned(r, w, p, n, b) \/ Utility(r, w, p, n, h, b)
           \/ Enterprise(r, w, p, n) \/ EnterpriseSubmit(r, w, p, n)
    PROVE  InfInv'
<1>0. n \in Nat /\ p \in Prompt \union {"-"} BY InfNats
<1>1. CASE Infer(r, w, p, n, b, h)
  <2>1. PICK c : c = Asks("infer", w, p, n) OBVIOUS
  <2>2. c \in CallRec /\ c.kind = "infer" /\ c.prompt = p /\ c.rx = "none" BY <1>0, <2>1, AskIs
  <2>3. Free(r) /\ InferBody(r, c, b, h) /\ UNCHANGED <<funds, topic, jobs, guard, quota, charges>> BY <1>1, <2>1 DEF Infer
  <2>4. CallsSound(calls', waiters', charges, aiNonce', guard) /\ aiNonce' \in [Wallet -> Nat]
    BY <2>2, <2>3, InferMove, FreeNotWaiting
  <2> QED BY <2>3, <2>4, SameTypes
<1>2. CASE InferSigned(r, w, p, n, b)
  <2>1. PICK c : c = Asks("infer", w, p, n) OBVIOUS
  <2>2. c \in CallRec /\ c.kind = "infer" /\ c.prompt = p /\ c.rx = "none" /\ c.wallet = w BY <1>0, <2>1, AskIs
  <2>3. /\ Free(r) /\ UNCHANGED <<funds, topic, jobs, guard, quota, charges>> /\ waiters' = waiters
        /\ \/ ~NonceOk(w, n) /\ RefusesNonce(r, c) /\ UNCHANGED aiNonce
           \/ NonceOk(w, n) /\ aiNonce' = [aiNonce EXCEPT ![w] = n] /\ Goto(r, [c EXCEPT !.signed = TRUE], "forwarding")
           \/ NonceOk(w, n) /\ aiNonce' = [aiNonce EXCEPT ![w] = n] /\ Returns(r)
    BY <1>2, <2>1 DEF InferSigned
  <2>4. calls[r].at \notin {"publishing", "waiting"} BY <2>3, FreeNotWaiting
  <2>5. CASE ~NonceOk(w, n) /\ RefusesNonce(r, c) /\ UNCHANGED aiNonce
    BY <2>2, <2>3, <2>4, <2>5, RefuseMove, NoRise, SameTypes
  <2>6. NonceOk(w, n) => LET no == [aiNonce EXCEPT ![w] = n] IN no \in [Wallet -> Nat] /\ \A v \in Wallet : no[v] >= aiNonce[v]
    BY <1>0, NonceRises
  <2>7. CASE NonceOk(w, n) /\ aiNonce' = [aiNonce EXCEPT ![w] = n] /\ Returns(r)
    <3>1. CallsSound(calls', waiters', charges, aiNonce', guard) BY <2>3, <2>4, <2>6, <2>7, ReturnMove DEF Returns
    <3> QED BY <2>3, <2>6, <2>7, <3>1, SameTypes
  <2>8. CASE NonceOk(w, n) /\ aiNonce' = [aiNonce EXCEPT ![w] = n] /\ Goto(r, [c EXCEPT !.signed = TRUE], "forwarding")
    <3>1. PICK d : d = [c EXCEPT !.signed = TRUE] OBVIOUS
    <3>2. d \in CallRec /\ d.kind = "infer" /\ d.prompt = p /\ d.rx = "none" BY <2>2, <3>1 DEF CallRec
    <3>3. PICK f : f = [d EXCEPT !.at = "forwarding"] OBVIOUS
    <3>4. f \in CallRec /\ f.kind = "infer" /\ f.prompt = p /\ f.rx = "none" /\ f.at = "forwarding" BY <3>2, <3>3 DEF CallRec, Stages
    <3>5. CallOk(f) /\ ~ChargeDue(f) BY <3>4 DEF CallOk, ChargeDue
    <3>6. calls' = [calls EXCEPT ![r] = f] BY <2>8, <3>1, <3>3 DEF Goto
    <3>7. CallsSound(calls', waiters', charges, aiNonce', guard) BY <2>3, <2>4, <2>6, <2>8, <3>4, <3>5, <3>6, PlainMove
    <3> QED BY <2>3, <2>6, <2>8, <3>7, SameTypes
  <2> QED BY <2>3, <2>5, <2>7, <2>8
<1>3. CASE Utility(r, w, p, n, h, b)
  <2>1. PICK c : c = Asks("utility", w, p, n) OBVIOUS
  <2>2. c \in CallRec /\ c.kind = "utility" /\ c.prompt = p /\ c.rx = "none" /\ c.wallet = w BY <1>0, <2>1, AskIs
  <2>3. /\ Free(r) /\ UNCHANGED <<funds, topic, jobs, guard, quota, charges>>
        /\ \/ ~NonceOk(w, n) /\ RefusesNonce(r, c) /\ UNCHANGED <<aiNonce, waiters>>
           \/ /\ NonceOk(w, n) /\ aiNonce' = [aiNonce EXCEPT ![w] = n]
              /\ \/ Returns(r) /\ UNCHANGED waiters
                 \/ ToWorker(r, c, TRUE)
                 \/ Goto(r, c, "computing") /\ UNCHANGED waiters
    BY <1>3, <2>1 DEF Utility
  <2>4. calls[r].at \notin {"publishing", "waiting"} BY <2>3, FreeNotWaiting
  <2>5. CASE ~NonceOk(w, n) /\ RefusesNonce(r, c) /\ UNCHANGED <<aiNonce, waiters>>
    BY <2>2, <2>3, <2>4, <2>5, RefuseMove, NoRise, SameTypes
  <2>6. CASE NonceOk(w, n) /\ aiNonce' = [aiNonce EXCEPT ![w] = n]
    <3>1. PICK no : no = [aiNonce EXCEPT ![w] = n] OBVIOUS
    <3>2. no \in [Wallet -> Nat] /\ (\A v \in Wallet : no[v] >= aiNonce[v]) /\ no = [aiNonce EXCEPT ![w] = aiNonce[w] + 1] /\ aiNonce' = no
      BY <1>0, <2>6, <3>1, NonceRises
    <3>3. CASE Returns(r) /\ UNCHANGED waiters
      <4>1. CallsSound(calls', waiters', charges, aiNonce', guard) BY <2>4, <3>2, <3>3, ReturnMove DEF Returns
      <4> QED BY <2>3, <3>2, <4>1, SameTypes
    <3>4. CASE ToWorker(r, c, TRUE)
      <4>1. CallsSound(calls', waiters', charges, aiNonce', guard) BY <2>2, <2>4, <3>2, <3>4, ToWorkerMove
      <4> QED BY <2>3, <3>2, <4>1, SameTypes
    <3>5. CASE Goto(r, c, "computing") /\ UNCHANGED waiters
      <4>1. CallsSound(calls', waiters, charges, [aiNonce EXCEPT ![c.wallet] = aiNonce[c.wallet] + 1], guard) BY <2>2, <2>4, <3>5, StartsComputing
      <4>2. CallsSound(calls', waiters', charges, aiNonce', guard) BY <2>2, <3>2, <3>5, <4>1
      <4> QED BY <2>3, <3>2, <4>2, SameTypes
    <3> QED BY <2>3, <2>6, <3>3, <3>4, <3>5
  <2> QED BY <2>3, <2>5, <2>6
<1>4. CASE Enterprise(r, w, p, n)
  <2>1. PICK c : c = Asks("enterprise", w, p, n) OBVIOUS
  <2>2. c \in CallRec /\ c.kind = "enterprise" /\ c.prompt = p /\ c.rx = "none" /\ c.wallet = w BY <1>0, <2>1, AskIs
  <2>3. /\ Free(r) /\ UNCHANGED <<funds, topic, jobs, guard, quota, charges>> /\ waiters' = waiters
        /\ \/ ~NonceOk(w, n) /\ RefusesNonce(r, c) /\ UNCHANGED aiNonce
           \/ /\ NonceOk(w, n) /\ aiNonce' = [aiNonce EXCEPT ![w] = n]
              /\ Returns(r) \/ Goto(r, c, "computing")
    BY <1>4, <2>1 DEF Enterprise
  <2>4. calls[r].at \notin {"publishing", "waiting"} BY <2>3, FreeNotWaiting
  <2>5. CASE ~NonceOk(w, n) /\ RefusesNonce(r, c) /\ UNCHANGED aiNonce
    BY <2>2, <2>3, <2>4, <2>5, RefuseMove, NoRise, SameTypes
  <2>6. CASE NonceOk(w, n) /\ aiNonce' = [aiNonce EXCEPT ![w] = n] /\ (Returns(r) \/ Goto(r, c, "computing"))
    <3>1. PICK no : no = [aiNonce EXCEPT ![w] = n] OBVIOUS
    <3>2. no \in [Wallet -> Nat] /\ (\A v \in Wallet : no[v] >= aiNonce[v]) /\ no = [aiNonce EXCEPT ![w] = aiNonce[w] + 1] /\ aiNonce' = no
      BY <1>0, <2>6, <3>1, NonceRises
    <3>3. CASE Returns(r)
      <4>1. CallsSound(calls', waiters', charges, aiNonce', guard) BY <2>3, <2>4, <3>2, <3>3, ReturnMove DEF Returns
      <4> QED BY <2>3, <3>2, <4>1, SameTypes
    <3>5. CASE Goto(r, c, "computing")
      <4>1. CallsSound(calls', waiters, charges, [aiNonce EXCEPT ![c.wallet] = aiNonce[c.wallet] + 1], guard) BY <2>2, <2>4, <3>5, StartsComputing
      <4>2. CallsSound(calls', waiters', charges, aiNonce', guard) BY <2>2, <2>3, <3>2, <3>5, <4>1
      <4> QED BY <2>3, <3>2, <4>2, SameTypes
    <3> QED BY <2>6, <3>3, <3>5
  <2> QED BY <2>3, <2>5, <2>6
<1>5. CASE EnterpriseSubmit(r, w, p, n)
  <2>1. PICK c : c = Asks("submit", w, p, n) OBVIOUS
  <2>2. c \in CallRec BY <1>0, <2>1, AskIs
  <2>3. /\ Free(r) /\ UNCHANGED <<funds, topic, jobs, guard, quota, charges>> /\ waiters' = waiters
        /\ \/ RefusesNonce(r, c) /\ UNCHANGED aiNonce
           \/ Returns(r) /\ UNCHANGED aiNonce
           \/ NonceOk(w, n) /\ aiNonce' = [aiNonce EXCEPT ![w] = n] /\ Returns(r)
    BY <1>5, <2>1 DEF EnterpriseSubmit
  <2>4. calls[r].at \notin {"publishing", "waiting"} BY <2>3, FreeNotWaiting
  <2>5. CASE RefusesNonce(r, c) /\ UNCHANGED aiNonce
    BY <2>2, <2>3, <2>4, <2>5, RefuseMove, NoRise, SameTypes
  <2>6. CASE Returns(r)
    <3>1. aiNonce' \in [Wallet -> Nat] /\ \A v \in Wallet : aiNonce'[v] >= aiNonce[v]
      <4>1. CASE UNCHANGED aiNonce BY <4>1, NoRise
      <4>2. CASE NonceOk(w, n) /\ aiNonce' = [aiNonce EXCEPT ![w] = n]  BY <1>0, <4>2, NonceRises
      <4> QED BY <2>3, <4>1, <4>2
    <3>2. CallsSound(calls', waiters', charges, aiNonce', guard) BY <2>3, <2>4, <2>6, <3>1, ReturnMove DEF Returns
    <3> QED BY <2>3, <3>1, <3>2, SameTypes
  <2> QED BY <2>3, <2>5, <2>6
<1> QED BY <1>1, <1>2, <1>3, <1>4, <1>5

-----------------------------------------------------------------------------
(* The steps of a call in flight. *)

\* The locals of one call.
LEMMA CallIn == ASSUME InfInv, NEW r \in Call PROVE calls[r] \in CallRec /\ CallOk(calls[r]) /\ calls[r].wallet \in Wallet
<1>1. CallOk(calls[r]) BY DEF InfInv, CallsSound, CallsOk
<1>2. calls[r] \in CallRec BY <1>1 DEF CallOk
<1> QED BY <1>1, <1>2 DEF CallRec

\* Forwarding, computing and proving keep InfInv.
LEMMA LocalKeeps ==
    ASSUME InfInv, NEW r \in Call, Forward(r) \/ (\E ok \in BOOLEAN : Compute(r, ok)) \/ Prove(r)
    PROVE  InfInv'
<1>1. PICK c \in CallRec : c = calls[r] /\ CallOk(c) /\ c.wallet \in Wallet BY CallIn
<1>2. CASE Forward(r)
  <2>1. c.at = "forwarding" /\ InferBody(r, c, TRUE, TRUE) /\ UNCHANGED <<funds, topic, jobs, guard, quota, charges>> BY <1>1, <1>2 DEF Forward
  <2>2. c.kind = "infer" /\ c.prompt \in Prompt BY <1>1, <2>1 DEF CallOk, Asking
  <2>3. c.rx # "open" BY <1>1, <2>1, NotWaiting
  <2>4. CallsSound(calls', waiters', charges, aiNonce', guard) /\ aiNonce' \in [Wallet -> Nat] BY <1>1, <2>1, <2>2, <2>3, InferMove
  <2> QED BY <2>1, <2>4, SameTypes
<1>3. ASSUME NEW ok \in BOOLEAN, Compute(r, ok) PROVE InfInv'
  <2>1. /\ c.at = "computing" /\ UNCHANGED <<aiNonce, funds, waiters, topic, jobs, guard, quota, charges>>
        /\ Returns(r) \/ (c.kind # "utility" /\ Goto(r, c, "settling"))
    BY <1>1, <1>3 DEF Compute
  <2>2. CASE Returns(r)
    <3>1. CallsSound(calls', waiters', charges, aiNonce', guard) BY <1>1, <2>1, <2>2, NoRise, ReturnMove DEF Returns
    <3> QED BY <2>1, <3>1, NoRise, SameTypes
  <2>3. CASE c.kind # "utility" /\ Goto(r, c, "settling")
    <3>1. PICK f : f = [c EXCEPT !.at = "settling"] OBVIOUS
    <3>2. f \in CallRec /\ f.at = "settling" /\ f.kind = c.kind /\ f.wallet = c.wallet /\ f.rx = c.rx BY <3>1 DEF CallRec, Stages
    <3>3. c.kind \in {"infer", "enterprise"} BY <1>1, <2>1, <2>3 DEF CallOk
    <3>4. CallOk(f) BY <3>2, <3>3 DEF CallOk, Asking
    <3>5. ChargeDue(c) BY <2>1, <3>3 DEF ChargeDue
    <3>6. calls' = [calls EXCEPT ![r] = f] BY <2>3, <3>1 DEF Goto
    <3>7. f.rx # "open" BY <1>1, <2>1, <3>2, NotWaiting
    <3>8. CallsSound(calls', waiters', charges, aiNonce', guard) BY <1>1, <2>1, <3>2, <3>4, <3>5, <3>6, <3>7, NoRise, PlainMove
    <3> QED BY <2>1, <3>8, NoRise, SameTypes
  <2> QED BY <2>1, <2>2, <2>3
<1>4. CASE Prove(r)
  <2>1. c.at = "proving" /\ Returns(r) /\ UNCHANGED <<aiNonce, funds, waiters, topic, jobs, guard, quota, charges>> BY <1>1, <1>4 DEF Prove
  <2>2. CallsSound(calls', waiters', charges, aiNonce', guard) BY <1>1, <2>1, NoRise, ReturnMove DEF Returns
  <2> QED BY <2>1, <2>2, NoRise, SameTypes
<1> QED BY <1>2, <1>3, <1>4

\* The charge moves from due to made.
LEMMA SettleCallKeeps == ASSUME InfInv, NEW r \in Call, SettleCall(r) PROVE InfInv'
<1>1. PICK c \in CallRec : c = calls[r] /\ CallOk(c) /\ c.wallet \in Wallet BY CallIn
<1>2. PICK w \in Wallet : w = c.wallet BY <1>1
<1>3. c.at = "settling" /\ UNCHANGED <<aiNonce, waiters, topic, jobs, guard, quota>> BY <1>1 DEF SettleCall
<1>4. CASE funds[w] < Charge
  <2>1. Returns(r) /\ UNCHANGED <<funds, charges>> BY <1>1, <1>2, <1>4 DEF SettleCall
  <2>2. CallsSound(calls', waiters', charges, aiNonce', guard) BY <1>1, <1>3, <2>1, NoRise, ReturnMove DEF Returns
  <2> QED BY <1>3, <2>1, <2>2, NoRise, SameTypes
<1>5. CASE ~(funds[w] < Charge)
  <2>1. /\ funds' = [funds EXCEPT ![w] = funds[w] - Charge] /\ charges' = [charges EXCEPT ![w] = charges[w] + 1]
        /\ Returns(r) \/ Goto(r, c, "proving")
    BY <1>1, <1>2, <1>5 DEF SettleCall
  <2>2. PICK f : CallOk(f) /\ f.rx # "open" /\ f.at \in {"idle", "proving"} /\ calls' = [calls EXCEPT ![r] = f]
    <3>1. CASE Returns(r) BY <3>1, FreshIs DEF Returns
    <3>2. CASE Goto(r, c, "proving")
      <4>1. PICK f : f = [c EXCEPT !.at = "proving"] OBVIOUS
      <4>2. f \in CallRec /\ f.at = "proving" /\ f.rx = c.rx BY <4>1 DEF CallRec, Stages
      <4>3. CallOk(f) BY <4>2 DEF CallOk, Asking
      <4>4. f.rx # "open" BY <1>1, <1>3, <4>2, NotWaiting
      <4> QED BY <3>2, <4>1, <4>2, <4>3, <4>4 DEF Goto
    <3> QED BY <2>1, <3>1, <3>2
  <2>3. funds \in [Wallet -> Nat] /\ charges \in [Wallet -> Nat] /\ aiNonce \in [Wallet -> Nat] /\ guard \in Nat /\ Charge \in Nat
    BY InfNats DEF InfInv, InfTypes
  <2>4. funds' \in [Wallet -> Nat]
    <3>1. funds[w] \in Nat BY <2>3
    <3>2. funds[w] - Charge \in Nat BY <1>5, <2>3, <3>1
    <3> QED BY <2>1, <2>3, <3>2
  <2>5. charges' \in [Wallet -> Nat] BY <2>1, <2>3
  <2>6. InfTypes' BY <1>3, <2>4, <2>5 DEF InfInv, InfTypes
  <2>7. CallsOk(calls') /\ Waits(calls', waiters)
    <3>1. calls[r].rx # "open" BY <1>1, <1>3, NotWaiting
    <3> QED BY <2>2, <3>1, CallSet DEF InfInv, CallsSound
  <2>8. ~ChargeDue(f) /\ ChargeDue(calls[r]) BY <1>1, <1>3, <2>2 DEF ChargeDue, CallOk
  <2>9. ChargesCounted(calls', charges', aiNonce) BY <1>1, <1>2, <2>1, <2>2, <2>3, <2>8, DuePaid DEF InfInv, CallsSound
  <2>10. Booked(calls', guard) BY <2>2, <2>3, BookedMoves DEF InfInv, CallsSound
  <2>11. CallsSound(calls', waiters', charges', aiNonce', guard') BY <1>3, <2>7, <2>9, <2>10 DEF CallsSound
  <2> QED BY <2>6, <2>11 DEF InfInv, CallsSound, Booked, ChargesCounted, CallsOk, Waits, Due, Calling, CallOk, CallRec, ChargeDue
<1> QED BY <1>4, <1>5

\* handle_ai_proxy starts a call of the API only while the month is open, so the calls of
\* the other slots are all it can overrun by.
LEMMA ProxyKeeps == ASSUME InfInv, NEW r \in Call, NEW w \in Wallet, NEW b \in BOOLEAN, ProxyCheck(r, w, b) PROVE InfInv'
<1>1. PICK c : c = Asks("proxy", w, "-", 0) OBVIOUS
<1>2. c \in CallRec /\ c.kind = "proxy" /\ c.rx = "none" BY <1>1, AskIs
<1>3. PICK q : q = [quota EXCEPT ![w] = IF b THEN quota[w] + 1 ELSE quota[w]] OBVIOUS
<1>4. Free(r) /\ UNCHANGED <<aiNonce, funds, waiters, topic, jobs, guard, charges>> BY DEF ProxyCheck
<1>5. \/ Returns(r) /\ UNCHANGED quota
      \/ quota[w] <= DailyCap /\ quota' = q /\ Returns(r)
      \/ quota[w] <= DailyCap /\ quota' = q /\ Goto(r, c, "paying_worker")
      \/ quota[w] <= DailyCap /\ quota' = q /\ GuardOpen /\ Goto(r, c, "paying_api")
  BY <1>1, <1>3 DEF ProxyCheck
<1>6. quota \in [Wallet -> 0..(DailyCap + 1)] /\ guard \in Nat /\ aiNonce \in [Wallet -> Nat] /\ charges \in [Wallet -> Nat] /\ DailyCap \in Nat
  BY InfNats DEF InfInv, InfTypes
<1>7. quota' \in [Wallet -> 0..(DailyCap + 1)]
  <2>1. CASE UNCHANGED quota BY <1>6, <2>1
  <2>2. CASE quota[w] <= DailyCap /\ quota' = q
    <3>1. quota[w] \in 0..(DailyCap + 1) BY <1>6
    <3>2. quota[w] + 1 \in 0..(DailyCap + 1) BY <1>6, <2>2, <3>1
    <3>3. (IF b THEN quota[w] + 1 ELSE quota[w]) \in 0..(DailyCap + 1) BY <3>1, <3>2
    <3> QED BY <1>3, <1>6, <2>2, <3>3
  <2> QED BY <1>5, <2>1, <2>2
<1>8. InfTypes' BY <1>4, <1>7 DEF InfInv, InfTypes
<1>9. calls[r].at \notin {"publishing", "waiting"} BY <1>4, FreeNotWaiting
<1>10. CallsSound(calls', waiters, charges, aiNonce, guard)
  <2>1. CASE Returns(r) BY <1>9, <2>1, NoRise, ReturnMove DEF Returns
  <2>2. ASSUME NEW at \in {"paying_worker", "paying_api"}, Goto(r, c, at), at = "paying_api" => GuardOpen
        PROVE  CallsSound(calls', waiters, charges, aiNonce, guard)
    <3>1. PICK f : f = [c EXCEPT !.at = at] OBVIOUS
    <3>2. f \in CallRec /\ f.at = at /\ f.rx = "none" BY <1>2, <3>1 DEF CallRec, Stages
    <3>3. CallOk(f) /\ ~ChargeDue(f) BY <2>2, <3>2 DEF CallOk, ChargeDue, Asking
    <3>4. calls' = [calls EXCEPT ![r] = f] BY <2>2, <3>1 DEF Goto
    <3>5. CallsOk(calls') /\ Waits(calls', waiters) BY <1>9, <3>2, <3>3, <3>4, NotWaiting, CallSet DEF InfInv, CallsSound
    <3>6. ChargesCounted(calls', charges, aiNonce) BY <1>6, <3>3, <3>4, NoRise, NoneDue DEF InfInv, CallsSound
    <3>7. f.at = "paying_api" => guard < CostLimit BY <2>2, <3>2 DEF GuardOpen
    <3>8. Booked(calls', guard) BY <1>6, <3>4, <3>7, BookedMoves DEF InfInv, CallsSound
    <3> QED BY <3>5, <3>6, <3>8 DEF CallsSound
  <2> QED BY <1>5, <2>1, <2>2
<1>11. CallsSound(calls', waiters', charges', aiNonce', guard') BY <1>4, <1>10
<1> QED BY <1>8, <1>11 DEF InfInv, CallsSound, Booked, ChargesCounted, CallsOk, Waits, Due, Calling, CallOk, CallRec, ChargeDue

\* The payment and the booking.
LEMMA ProxyPays == ASSUME InfInv, NEW r \in Call, ProxyPay(r) PROVE InfInv'
<1>1. PICK c \in CallRec : c = calls[r] /\ CallOk(c) /\ c.wallet \in Wallet BY CallIn
<1>2. c.at \in {"paying_worker", "paying_api"} /\ UNCHANGED <<aiNonce, waiters, topic, jobs, quota, charges>> /\ Returns(r)
  BY <1>1 DEF ProxyPay
<1>3. \/ UNCHANGED <<funds, guard>>
      \/ /\ funds[c.wallet] >= Charge /\ funds' = [funds EXCEPT ![c.wallet] = funds[c.wallet] - Charge]
         /\ guard' = IF c.at = "paying_api" THEN guard + CallCost ELSE guard
  BY <1>1 DEF ProxyPay
<1>4. funds \in [Wallet -> Nat] /\ guard \in Nat /\ charges \in [Wallet -> Nat] /\ aiNonce \in [Wallet -> Nat] /\ Charge \in Nat /\ CallCost \in Nat
  BY InfNats DEF InfInv, InfTypes
<1>5. funds' \in [Wallet -> Nat] /\ guard' \in Nat
  <2>1. CASE UNCHANGED <<funds, guard>> BY <1>4, <2>1
  <2>2. CASE funds[c.wallet] >= Charge /\ funds' = [funds EXCEPT ![c.wallet] = funds[c.wallet] - Charge]
             /\ guard' = IF c.at = "paying_api" THEN guard + CallCost ELSE guard
    <3>1. funds[c.wallet] \in Nat BY <1>1, <1>4
    <3>2. funds[c.wallet] - Charge \in Nat BY <1>4, <2>2, <3>1
    <3>3. guard + CallCost \in Nat BY <1>4
    <3> QED BY <1>4, <2>2, <3>2, <3>3
  <2> QED BY <1>3, <2>1, <2>2
<1>6. InfTypes' BY <1>2, <1>5 DEF InfInv, InfTypes
<1>7. CallsSound(calls', waiters, charges, aiNonce, guard) BY <1>1, <1>2, NoRise, ReturnMove DEF Returns
<1>8. guard' = guard \/ (c.at = "paying_api" /\ guard' = guard + CallCost) BY <1>3
<1>9. Booked(calls', guard')
  <2>1. CASE guard' = guard BY <1>7, <2>1 DEF CallsSound
  <2>2. CASE c.at = "paying_api" /\ guard' = guard + CallCost
    <3>1. calls' = [calls EXCEPT ![r] = Fresh] /\ Fresh.at # "paying_api" BY <1>2, FreshIs DEF Returns
    <3>2. CallsOk(calls) /\ Booked(calls, guard) BY DEF InfInv, CallsSound
    <3> QED BY <1>1, <1>4, <2>2, <3>1, <3>2, BookedOnce
  <2> QED BY <1>8, <2>1, <2>2
<1>10. CallsSound(calls', waiters', charges', aiNonce', guard') BY <1>2, <1>7, <1>9 DEF CallsSound
<1> QED BY <1>6, <1>10 DEF InfInv, CallsSound, Booked, ChargesCounted, CallsOk, Waits, Due, Calling, CallOk, CallRec, ChargeDue

\* A request on the topic asks for its call's prompt.
LEMMA PublishKeeps == ASSUME InfInv, NEW r \in Call, Publish(r) PROVE InfInv'
<1>1. PICK c \in CallRec : c = calls[r] /\ CallOk(c) BY CallIn
<1>2. PICK m : m = [kind |-> "request", sender |-> c.wallet, prompt |-> c.prompt, nonce |-> c.nonce] OBVIOUS
<1>3. /\ c.at = "publishing" /\ topic' = topic \union {m} /\ Goto(r, c, "waiting")
      /\ UNCHANGED <<aiNonce, funds, waiters, jobs, guard, quota, charges>>
  BY <1>1, <1>2 DEF Publish, Message
<1>4. c.prompt \in Prompt BY <1>1, <1>3 DEF CallOk, Asking
<1>5. m.prompt \in Prompt /\ "kind" \in DOMAIN m BY <1>2, <1>4
<1>6. InfTypes' BY <1>3, <1>5 DEF InfInv, InfTypes
<1>7. PICK f : f = [c EXCEPT !.at = "waiting"] OBVIOUS
<1>8. f \in CallRec /\ f.at = "waiting" /\ f.prompt = c.prompt /\ f.rx = c.rx /\ f.kind = c.kind /\ f.wallet = c.wallet BY <1>7 DEF CallRec, Stages
<1>9. CallOk(f) BY <1>4, <1>8 DEF CallOk, Asking
<1>10. calls' = [calls EXCEPT ![r] = f] BY <1>3, <1>7 DEF Goto
<1>11. CallsOk(calls) /\ Waits(calls, waiters) BY DEF InfInv, CallsSound
<1>12. DOMAIN calls' = Call /\ calls'[r] = f /\ \A q \in Call : q # r => calls'[q] = calls[q] BY <1>10, <1>11 DEF CallsOk
<1>13. CallsOk(calls') BY <1>9, <1>11, <1>12 DEF CallsOk
<1>14. \A q \in Call : calls'[q].prompt = calls[q].prompt /\ calls'[q].rx = calls[q].rx BY <1>1, <1>8, <1>12
<1>15. Waits(calls', waiters)
  <2>1. waiters \in [Prompt -> Call \union {NoCall}] BY <1>11 DEF Waits
  <2>2. \A p \in Prompt : waiters[p] # NoCall => calls'[waiters[p]].prompt = p /\ calls'[waiters[p]].rx = "open"
    BY <1>11, <1>14, <2>1 DEF Waits
  <2>3. \A q \in Call : calls'[q].rx = "open" => calls'[q].at \in {"publishing", "waiting"} /\ waiters[calls'[q].prompt] = q
    BY <1>8, <1>11, <1>12, <1>14 DEF Waits
  <2> QED BY <2>1, <2>2, <2>3 DEF Waits
<1>16. charges \in [Wallet -> Nat] /\ guard \in Nat BY DEF InfInv, InfTypes
<1>17. ~ChargeDue(f) BY <1>8 DEF ChargeDue
<1>18. ChargesCounted(calls', charges, aiNonce) BY <1>10, <1>11, <1>16, <1>17, NoRise, NoneDue DEF InfInv, CallsSound
<1>19. Booked(calls', guard) BY <1>8, <1>10, <1>11, <1>16, BookedMoves DEF InfInv, CallsSound
<1>20. CallsSound(calls', waiters', charges', aiNonce', guard') BY <1>3, <1>13, <1>15, <1>18, <1>19 DEF CallsSound
<1> QED BY <1>6, <1>20 DEF InfInv, CallsSound, Booked, ChargesCounted, CallsOk, Waits, Due, Calling, CallOk, CallRec, ChargeDue

\* Each way a wait ends.
LEMMA WakeKeeps ==
    ASSUME InfInv, NEW r \in Call, PublishFails(r) \/ Answered(r) \/ Closed(r) \/ TimedOut(r) PROVE InfInv'
<1>1. calls[r].at \in {"publishing", "waiting"} /\ EndWaiter(r) /\ UNCHANGED <<aiNonce, funds, topic, jobs, guard, quota, charges>>
  BY DEF PublishFails, Answered, Closed, TimedOut, Wakes
<1>2. CallsSound(calls', waiters', charges, aiNonce, guard) BY <1>1, EndsWaiting
<1> QED BY <1>1, <1>2, NoRise, SameTypes

-----------------------------------------------------------------------------
(* The network, and the theorem. *)

\* A job takes a permit and gives it back.
LEMMA JobKeeps ==
    ASSUME InfInv, NEW m, TakeJob(m) \/ (\E ok \in BOOLEAN : FinishJob(m, ok)) PROVE InfInv'
<1>1. UNCHANGED <<aiNonce, funds, calls, waiters, guard, quota, charges>> BY DEF TakeJob, FinishJob
<1>2. IsFiniteSet(jobs) /\ Cardinality(jobs) <= Permits /\ Cardinality(jobs) \in Nat /\ Permits \in Nat
  BY InfNats, FS_CardinalityType DEF InfInv, InfTypes
<1>3. \A k \in topic \union jobs : k.prompt \in Prompt /\ "kind" \in DOMAIN k BY DEF InfInv, InfTypes
<1>4. /\ IsFiniteSet(jobs') /\ Cardinality(jobs') <= Permits
      /\ \A k \in topic' \union jobs' : k.prompt \in Prompt /\ "kind" \in DOMAIN k
  <2>1. CASE TakeJob(m)
    <3>1. m \in topic /\ topic' = topic \ {m} /\ jobs' = IF Cardinality(jobs) < Permits THEN jobs \union {m} ELSE jobs BY <2>1 DEF TakeJob
    <3>2. IsFiniteSet(jobs \union {m}) /\ Cardinality(jobs \union {m}) <= Cardinality(jobs) + 1
      <4>1. Cardinality(jobs \union {m}) = IF m \in jobs THEN Cardinality(jobs) ELSE Cardinality(jobs) + 1 BY <1>2, FS_AddElement
      <4>2. IsFiniteSet(jobs \union {m}) BY <1>2, FS_AddElement
      <4> QED BY <1>2, <4>1, <4>2
    <3>3. Cardinality(jobs \union {m}) \in Nat BY <3>2, FS_CardinalityType
    <3>4. IsFiniteSet(jobs') /\ Cardinality(jobs') <= Permits BY <1>2, <3>1, <3>2, <3>3
    <3>5. topic' \union jobs' \subseteq topic \union jobs BY <3>1
    <3> QED BY <1>3, <3>4, <3>5
  <2>2. ASSUME NEW ok \in BOOLEAN, FinishJob(m, ok)
        PROVE  /\ IsFiniteSet(jobs') /\ Cardinality(jobs') <= Permits
               /\ \A k \in topic' \union jobs' : k.prompt \in Prompt /\ "kind" \in DOMAIN k
    <3>1. m \in jobs /\ jobs' = jobs \ {m} BY <2>2 DEF FinishJob
    <3>2. PICK k : k = [m EXCEPT !.kind = "result"] OBVIOUS
    <3>3. topic' = topic \/ topic' = topic \union {k} BY <2>2, <3>2 DEF FinishJob
    <3>4. k.prompt \in Prompt /\ "kind" \in DOMAIN k
      <4>1. m.prompt \in Prompt /\ "kind" \in DOMAIN m BY <1>3, <3>1
      <4>2. DOMAIN k = DOMAIN m /\ k.prompt = m.prompt BY <3>2
      <4> QED BY <4>1, <4>2
    <3>5. jobs' \subseteq jobs BY <3>1
    <3>6. IsFiniteSet(jobs') /\ Cardinality(jobs') <= Cardinality(jobs) BY <1>2, <3>5, FS_Subset
    <3>7. Cardinality(jobs') \in Nat BY <3>6, FS_CardinalityType
    <3>8. Cardinality(jobs') <= Permits BY <1>2, <3>6, <3>7
    <3>9. \A j \in topic' \union jobs' : j.prompt \in Prompt /\ "kind" \in DOMAIN j BY <1>3, <3>3, <3>4, <3>5
    <3> QED BY <3>6, <3>8, <3>9
  <2> QED BY <2>1, <2>2
<1>5. InfTypes' BY <1>1, <1>4 DEF InfInv, InfTypes
<1>6. CallsSound(calls', waiters', charges', aiNonce', guard') BY <1>1 DEF InfInv
<1> QED BY <1>5, <1>6 DEF InfInv, CallsSound, Booked, ChargesCounted, CallsOk, Waits, Due, Calling, CallOk, CallRec, ChargeDue

\* A result reaches the waiter of its prompt, if there is one.
LEMMA ResultKeeps == ASSUME InfInv, NEW m, NEW ok, TakeResult(m, ok) PROVE InfInv'
<1>1. m \in topic /\ topic' = topic \ {m} /\ UNCHANGED <<aiNonce, funds, jobs, guard, quota, charges>> BY DEF TakeResult
<1>2. InfTypes' BY <1>1 DEF InfInv, InfTypes
<1>3. PICK p \in Prompt : p = m.prompt BY <1>1 DEF InfInv, InfTypes
<1>4. CallsOk(calls) /\ Waits(calls, waiters) BY DEF InfInv, CallsSound
<1>5. \/ UNCHANGED <<waiters, calls>>
      \/ /\ waiters[p] # NoCall /\ waiters' = [waiters EXCEPT ![p] = NoCall]
         /\ calls' = [calls EXCEPT ![waiters[p]].rx = "sent"]
  BY <1>3 DEF TakeResult
<1>6. CallsSound(calls', waiters', charges, aiNonce, guard)
  <2>1. CASE UNCHANGED <<waiters, calls>> BY <2>1 DEF InfInv
  <2>2. CASE waiters[p] # NoCall /\ waiters' = [waiters EXCEPT ![p] = NoCall] /\ calls' = [calls EXCEPT ![waiters[p]].rx = "sent"]
    <3>1. PICK v \in {"closed", "sent"} : v = "sent" OBVIOUS
    <3>2. PICK ds : ds = [calls EXCEPT ![waiters[p]].rx = "sent"] OBVIOUS
    <3>3. Ended(calls, waiters[p], v, ds) BY <2>2, <3>1, <3>2 DEF Ended
    <3>4. CallsOk(ds) /\ Waits(ds, [waiters EXCEPT ![p] = NoCall]) BY <1>4, <3>3, ChannelEnds
    <3>5. SameButRx(calls, ds, p) BY <1>4, <3>3, ChannelEnds
    <3>6. ChargesCounted(ds, charges, aiNonce) /\ Booked(ds, guard) BY <3>5, CountsStay DEF InfInv, CallsSound, SameButRx
    <3> QED BY <2>2, <3>2, <3>4, <3>6 DEF CallsSound
  <2> QED BY <1>5, <2>1, <2>2
<1>7. CallsSound(calls', waiters', charges', aiNonce', guard') BY <1>1, <1>6
<1> QED BY <1>2, <1>7 DEF InfInv, CallsSound, Booked, ChargesCounted, CallsOk, Waits, Due, Calling, CallOk, CallRec, ChargeDue

\* Every step keeps InfInv.
LEMMA InfStays == ASSUME InfInv, InferenceNext PROVE InfInv'
<1>1. ASSUME NEW r \in Call, Enters(r) PROVE InfInv'
  <2>0. PICK w \in Wallet, p \in Prompt : \E n \in 1..MaxNonce[w], b, h \in BOOLEAN :
            \/ Infer(r, w, p, n, b, h)
            \/ InferSigned(r, w, p, n, b)
            \/ Utility(r, w, p, n, h, b)
            \/ Enterprise(r, w, p, n)
            \/ EnterpriseSubmit(r, w, p, n)
            \/ ProxyCheck(r, w, b)
    BY <1>1 DEF Enters
  <2>1. PICK n \in 1..MaxNonce[w], b \in BOOLEAN, h \in BOOLEAN :
            \/ Infer(r, w, p, n, b, h)
            \/ InferSigned(r, w, p, n, b)
            \/ Utility(r, w, p, n, h, b)
            \/ Enterprise(r, w, p, n)
            \/ EnterpriseSubmit(r, w, p, n)
            \/ ProxyCheck(r, w, b)
    BY <2>0
  <2>2. CASE ProxyCheck(r, w, b) BY <2>2, ProxyKeeps
  <2> QED BY <2>1, <2>2, EnterKeeps
<1>2. ASSUME NEW r \in Call, CallStep(r) PROVE InfInv'
  BY <1>2, LocalKeeps, SettleCallKeeps, ProxyPays, PublishKeeps, WakeKeeps DEF CallStep
<1>3. CASE Network BY <1>3, JobKeeps, ResultKeeps DEF Network
<1>4. CASE Heartbeat \/ GoesStale \/ LosesBond
  <2>1. UNCHANGED <<aiNonce, funds, calls, waiters, topic, jobs, guard, quota, charges>> BY <1>4 DEF Heartbeat, GoesStale, LosesBond
  <2>2. CallsSound(calls', waiters', charges, aiNonce', guard) BY <2>1 DEF InfInv
  <2> QED BY <2>1, <2>2, NoRise, SameTypes
<1> QED BY <1>1, <1>2, <1>3, <1>4 DEF InferenceNext

\* InfInv holds at the start.
LEMMA InfStarts == ASSUME InferenceInit PROVE InfInv
<1>1. InfTypes BY InfNats, FS_EmptySet DEF InferenceInit, InfTypes
<1>2. calls = [r \in Call |-> Fresh] /\ waiters = [p \in Prompt |-> NoCall] BY DEF InferenceInit
<1>3. CallsOk(calls) BY <1>2, FreshIs DEF CallsOk
<1>4. Waits(calls, waiters) BY <1>2, FreshIs DEF Waits
<1>5. \A w : Due(calls, w) = {} BY <1>2, FreshIs DEF Due, ChargeDue
<1>6. Calling(calls) = {} BY <1>2, FreshIs DEF Calling
<1>7. Cardinality({}) = 0 BY FS_EmptySet
<1>8. ChargesCounted(calls, charges, aiNonce)
  <2> SUFFICES ASSUME NEW w \in Wallet PROVE charges[w] + Cardinality(Due(calls, w)) <= aiNonce[w] BY DEF ChargesCounted
  <2>1. charges[w] = 0 /\ aiNonce[w] = 0 BY DEF InferenceInit
  <2>2. Cardinality(Due(calls, w)) = 0 BY <1>5, <1>7
  <2> QED BY <2>1, <2>2
<1>9. Booked(calls, guard)
  <2>1. PICK n \in Nat : n = Cardinality(Call) /\ n > 0 BY DueFinite
  <2>2. CallCost \in Nat /\ CallCost > 0 /\ CostLimit \in Nat BY InfNats
  <2>3. CallCost * 0 = 0 BY <2>2
  <2>4. CallCost * n \in Nat /\ CallCost * n > 0
    <3>1. 1 <= n /\ 1 \in Nat BY <2>1
    <3>2. CallCost * 1 <= CallCost * n /\ CallCost * n \in Nat BY <3>1, CostOf
    <3>3. CallCost * 1 = CallCost BY <2>2
    <3> QED BY <2>2, <3>2, <3>3
  <2>5. guard = 0 BY DEF InferenceInit
  <2>6. Cardinality(Calling(calls)) = 0 BY <1>6, <1>7
  <2>7. 0 + 0 < CostLimit + CallCost * n BY <2>2, <2>4
  <2> QED BY <2>1, <2>3, <2>5, <2>6, <2>7 DEF Booked
<1> QED BY <1>1, <1>3, <1>4, <1>8, <1>9 DEF InfInv, CallsSound

\* For any wallets, prompts, prices and limits and any finite number of concurrent calls,
\* with messages lost, late or in any order: a nonce pays for one inference at most, a
\* call waits with an open channel exactly when the waiter of its prompt is its own, and
\* the month's guard is overrun by the calls that run at once at most.
THEOREM CallsAreSound == InferenceSpec => []InferenceSound
<1>1. InferenceInit => InfInv BY InfStarts
<1>2. InfInv /\ [InferenceNext]_infVars => InfInv'
  <2>1. CASE InferenceNext BY <2>1, InfStays
  <2>2. ASSUME InfInv, UNCHANGED infVars PROVE InfInv'
    <3>1. UNCHANGED <<aiNonce, funds, calls, waiters, topic, jobs, guard, quota, charges>> BY <2>2 DEF infVars
    <3>2. CallsSound(calls', waiters', charges, aiNonce', guard) BY <2>2, <3>1 DEF InfInv
    <3> QED BY <2>2, <3>1, <3>2, NoRise, SameTypes
  <2> QED BY <2>1, <2>2
<1>3. InfInv => InferenceSound
  <2> SUFFICES ASSUME InfInv PROVE InferenceSound OBVIOUS
  <2>1. waiters \in [Prompt -> Call \union {NoCall}] BY DEF InfInv, CallsSound, Waits
  <2>2. \A r \in Call : calls[r].at \in Stages BY CallIn DEF CallRec
  <2>3. InferenceTypeOK BY <2>1, <2>2 DEF InfInv, InfTypes, InferenceTypeOK, Stages
  <2>4. OneChargePerNonce
    <3>1. \A w : Due(calls, w) = {r \in Call : /\ calls[r].wallet = w /\ calls[r].kind \in {"infer", "enterprise"}
                                               /\ calls[r].at \in {"computing", "settling"}} BY DEF Due, ChargeDue
    <3> QED BY <3>1 DEF InfInv, CallsSound, ChargesCounted, OneChargePerNonce
  <2>5. WaitersSound BY DEF InfInv, CallsSound, Waits, WaitersSound
  <2>6. GuardOverrunBounded
    <3>1. Calling(calls) = {r \in Call : calls[r].at = "paying_api"} BY DEF Calling
    <3> QED BY <3>1 DEF InfInv, CallsSound, Booked, GuardOverrunBounded
  <2> QED BY <2>3, <2>4, <2>5, <2>6 DEF InferenceSound
<1> QED BY <1>1, <1>2, <1>3, PTL DEF InferenceSpec

-----------------------------------------------------------------------------
(* The registry of anonymous members.                                        *)

\* Registries as maps, and those within the limit on members.
RegMaps == [Members -> [c : Nat, at : Nat, adm : 0..MaxRegTime]]
Regs == {r \in RegMaps : Cardinality(Held(r)) <= MaxMembers}
\* A root stands for its leaves.
Roots == SUBSET (Members \X Nat)
\* Caches within their cap that hold an epoch once.
Caches ==
    {c \in Seq(Nat \X Roots) :
        Len(c) <= RootCacheCap /\ \A i, j \in 1..Len(c) : c[i][1] = c[j][1] => i = j}

\* The parameters of the registry are numbers.
LEMMA RegNats ==
    /\ EpochLength \in Nat \ {0} /\ RootWindow \in Nat \ {0} /\ MaxRootScan \in Nat \ {0} /\ RootCacheCap \in Nat \ {0}
    /\ MaxMembers \in Nat \ {0} /\ PageSize \in Nat \ {0} /\ MaxPages \in Nat \ {0} /\ VerifyBudget \in Nat \ {0}
    /\ Cooldown \in Nat /\ MaxRegTime \in Nat /\ MaxSyncFaults \in Nat
BY RegistryAssumption

\* The wallets, and the registrations that reach the node.
LEMMA RegSets ==
    /\ Members \subseteq Nat \ {0} /\ IsFiniteSet(Members) /\ IsFiniteSet(PeerSet)
    /\ \A x \in Offers \cup PeerSet : x.w \in Members /\ x.c \in Nat /\ x.c # 0 /\ x.at \in Nat
    /\ \A x, y \in PeerSet : x.w = y.w => x = y
BY RegistryAssumption

\* An epoch is a natural number.
LEMMA EpochNat == ASSUME NEW t \in Nat PROVE Epoch(t) \in Nat
BY RegNats, DivMono DEF Epoch

\* Epochs follow the clock.
LEMMA EpochMono == ASSUME NEW t \in Nat, NEW u \in Nat, t <= u PROVE Epoch(t) <= Epoch(u)
BY RegNats, DivMono DEF Epoch

\* The members of a registry are finitely many.
LEMMA HeldFinite == ASSUME NEW r PROVE Held(r) \subseteq Members /\ IsFiniteSet(Held(r)) /\ Cardinality(Held(r)) \in Nat
<1>1. Held(r) \subseteq Members BY DEF Held
<1> QED BY <1>1, RegSets, FS_Subset, FS_CardinalityType

\* The leaves of an epoch are wallets with commitments.
LEMMA LeavesType == ASSUME NEW r \in Regs, NEW e \in Nat PROVE LeavesForEpoch(r, e) \in Roots
BY DEF LeavesForEpoch, Roots, Regs, RegMaps, Held

\* The registry after one registration was written.
Entered(new, r, x, t) == new = [r EXCEPT ![x.w] = [c |-> x.c, at |-> x.at, adm |-> t]]

\* What writing one registration changes.
LEMMA EntryOf ==
    ASSUME NEW r \in RegMaps, NEW x \in Offers \cup PeerSet, NEW t \in 0..MaxRegTime,
           NEW new, Entered(new, r, x, t)
    PROVE  /\ new \in RegMaps
           /\ new[x.w].c = x.c /\ new[x.w].adm = t /\ new[x.w] # NoReg
           /\ \A w \in Members : w # x.w => new[w] = r[w]
           /\ Held(new) = Held(r) \cup {x.w}
<1>1. x.w \in Members /\ x.c \in Nat /\ x.c # 0 /\ x.at \in Nat BY RegSets
<1>2. PICK q : q = [c |-> x.c, at |-> x.at, adm |-> t] OBVIOUS
<1>3. q \in [c : Nat, at : Nat, adm : 0..MaxRegTime] /\ q.c = x.c /\ q.adm = t BY <1>1, <1>2
<1>4. NoReg.c = 0 BY DEF NoReg
<1>5. q # NoReg BY <1>1, <1>3, <1>4
<1>6. new = [r EXCEPT ![x.w] = q] BY <1>2 DEF Entered
<1>7. new \in RegMaps /\ new[x.w] = q /\ \A w \in Members : w # x.w => new[w] = r[w]
  BY <1>1, <1>3, <1>6 DEF RegMaps
<1>8. Held(new) = Held(r) \cup {x.w} BY <1>1, <1>5, <1>7 DEF Held
<1> QED BY <1>2, <1>3, <1>5, <1>6, <1>7, <1>8

\* register_anon keeps the type of the registry and its limit on members.
LEMMA AdmitType ==
    ASSUME NEW r \in Regs, NEW x \in Offers \cup PeerSet, NEW t \in 0..MaxRegTime
    PROVE  Admit(r, x, t) \in Regs
<1>0. PICK new : Entered(new, r, x, t) BY DEF Entered
<1>1. r \in RegMaps /\ Cardinality(Held(r)) <= MaxMembers BY DEF Regs
<1>2. new \in RegMaps /\ Held(new) = Held(r) \cup {x.w} BY <1>0, <1>1, EntryOf
<1>3. IsFiniteSet(Held(r)) /\ Cardinality(Held(r)) \in Nat BY HeldFinite
<1>4. CASE r[x.w] # NoReg
  <2>1. Held(new) = Held(r) BY <1>2, <1>4, RegSets DEF Held
  <2>2. new \in Regs BY <1>1, <1>2, <2>1 DEF Regs
  <2> QED BY <1>0, <1>4, <2>2 DEF Admit, Entered
<1>5. CASE r[x.w] = NoReg
  <2>1. CASE Cardinality(Held(r)) >= MaxMembers
    BY <1>5, <2>1 DEF Admit, Entered
  <2>2. CASE ~(Cardinality(Held(r)) >= MaxMembers)
    <3>1. x.w \notin Held(r) BY <1>5 DEF Held
    <3>2. Cardinality(Held(new)) = Cardinality(Held(r)) + 1 BY <1>2, <1>3, <3>1, FS_AddElement
    <3>3. Cardinality(Held(new)) <= MaxMembers BY <1>3, <2>2, <3>2, RegNats
    <3>4. new \in Regs BY <1>2, <3>3 DEF Regs
    <3> QED BY <1>0, <1>5, <2>2, <3>4 DEF Admit, Entered
  <2> QED BY <2>1, <2>2
<1> QED BY <1>4, <1>5

\* Where a page's registrations end.
LEMMA MaxIs ==
    ASSUME NEW S, S \subseteq Nat, IsFiniteSet(S), S # {}
    PROVE  Max(S) \in S /\ \A m \in S : m <= Max(S)
<1> DEFINE P == {T \in SUBSET S : T = {} \/ \E n \in T : \A m \in T : m <= n}
<1>1. {} \in P OBVIOUS
<1>2. ASSUME NEW T \in SUBSET S, T # {}, \A x \in T : T \ {x} \in P PROVE T \in P
  <2>1. PICK x \in T : TRUE BY <1>2
  <2>2. T \ {x} \in P BY <1>2, <2>1
  <2>3. CASE T \ {x} = {}
    <3>1. \A m \in T : m <= x BY <2>1, <2>3
    <3> QED BY <2>1, <3>1
  <2>4. CASE \E n \in T \ {x} : \A m \in T \ {x} : m <= n
    <3>1. PICK n \in T \ {x} : \A m \in T \ {x} : m <= n BY <2>4
    <3>2. n \in Nat /\ x \in Nat BY <2>1, <3>1
    <3>3. CASE x <= n BY <3>1, <3>2, <3>3
    <3>4. CASE ~(x <= n)
      <4>1. \A m \in T : m <= x BY <3>1, <3>2, <3>4
      <4> QED BY <2>1, <4>1
    <3> QED BY <3>3, <3>4
  <2> QED BY <2>2, <2>3, <2>4
<1>3. P = SUBSET S
  <2>1. P \in SUBSET (SUBSET S) OBVIOUS
  <2> HIDE DEF P
  <2> QED BY <1>1, <1>2, <2>1, FiniteInduction
<1>4. \E n \in S : \A m \in S : m <= n BY <1>3
<1>5. \E n \in S : \A m \in S : n >= m BY <1>4
<1>6. Max(S) = CHOOSE n \in S : \A m \in S : n >= m BY DEF Max
<1> QED BY <1>5, <1>6

\* No wallet is above the last one.
LEMMA LastWallet == Max(Members \cup {0}) \in Nat /\ \A w \in Members : w <= Max(Members \cup {0})
<1>1. Members \cup {0} \subseteq Nat /\ Members \cup {0} # {} BY RegSets
<1>2. IsFiniteSet(Members \cup {0}) BY RegSets, FS_AddElement
<1> QED BY <1>1, <1>2, MaxIs

\* The recursion of AdmitPage.
IsPage(f, r, regs, t) ==
    f = [n \in 0..Max(Members \cup {0}) |->
            IF n = 0 THEN r
            ELSE IF \E x \in regs : x.w = n
                 THEN Admit(f[n - 1], CHOOSE x \in regs : x.w = n, t)
                 ELSE f[n - 1]]

\* A page is admitted into any set of registries that each registration keeps.
LEMMA PageKeeps ==
    ASSUME NEW Rs, NEW r \in Rs, NEW regs, NEW t, \A q \in Rs : \A x \in regs : Admit(q, x, t) \in Rs
    PROVE  AdmitPage(r, regs, t) \in Rs
<1> DEFINE last == Max(Members \cup {0})
           Step(q, n) == IF \E x \in regs : x.w = n THEN Admit(q, CHOOSE x \in regs : x.w = n, t) ELSE q
           step == [n \in 1..last |-> [q \in Rs |-> Step(q, n)]]
<1>1. AdmitPage(r, regs, t) = (CHOOSE f : IsPage(f, r, regs, t))[last] BY DEF AdmitPage, IsPage
<1>2. last \in Nat BY LastWallet
<1> HIDE DEF last
<1>3. ASSUME NEW n \in 1..last, NEW q \in Rs PROVE Step(q, n) \in Rs
  <2>1. CASE \E x \in regs : x.w = n
    <3>1. PICK x : x = CHOOSE y \in regs : y.w = n OBVIOUS
    <3>2. x \in regs BY <2>1, <3>1
    <3>3. Step(q, n) = Admit(q, x, t) BY <2>1, <3>1
    <3> QED BY <3>2, <3>3
  <2>2. CASE ~\E x \in regs : x.w = n BY <2>2
  <2> QED BY <2>1, <2>2
<1>4. step \in [1..last -> [Rs -> Rs]]
  <2> HIDE DEF Step
  <2> QED BY <1>3
<1>5. PICK f \in [0..last -> Rs] : RunFrom(f, r, step, last)
  <2> HIDE DEF step
  <2> QED BY <1>2, <1>4, RunExists
<1>6. ASSUME NEW n \in 1..last PROVE f[n] = Step(f[n - 1], n)
  <2> HIDE DEF Step
  <2>1. f[n - 1] \in Rs BY <1>2, <1>5
  <2>2. f[n] = step[n][f[n - 1]]
    <3> HIDE DEF step
    <3> QED BY <1>5 DEF RunFrom
  <2> QED BY <2>1, <2>2
<1>7. IsPage(f, r, regs, t)
  <2>1. f[0] = r BY <1>5 DEF RunFrom
  <2>2. ASSUME NEW n \in 0..last
        PROVE  f[n] = IF n = 0 THEN r
                      ELSE IF \E x \in regs : x.w = n
                           THEN Admit(f[n - 1], CHOOSE x \in regs : x.w = n, t)
                           ELSE f[n - 1]
    <3>1. CASE n = 0 BY <3>1, <2>1
    <3>2. CASE n # 0
      <4>1. n \in 1..last BY <3>2, <1>2
      <4> QED BY <3>2, <4>1, <1>6
    <3> QED BY <3>1, <3>2
  <2>3. f = [n \in 0..last |-> f[n]] BY <1>5
  <2> QED BY <2>2, <2>3, Zenon DEF IsPage, last
<1>8. PICK g : g = (CHOOSE h : IsPage(h, r, regs, t)) OBVIOUS
<1>9. IsPage(g, r, regs, t) BY <1>7, <1>8
<1>10. g[0] = r /\ \A n \in 1..last : g[n] = Step(g[n - 1], n)
  <2>1. ASSUME NEW n \in 0..last PROVE g[n] = IF n = 0 THEN r ELSE Step(g[n - 1], n)
    BY <1>9 DEF IsPage, last
  <2> HIDE DEF Step
  <2> QED BY <2>1, <1>2
<1>11. \A n \in 0..last : g[n] \in Rs
  <2> DEFINE N == {n \in Nat : n <= last => g[n] \in Rs}
  <2>1. 0 \in N BY <1>10
  <2>2. ASSUME NEW n \in N PROVE n + 1 \in N
    <3> SUFFICES ASSUME n + 1 <= last PROVE g[n + 1] \in Rs OBVIOUS
    <3> HIDE DEF Step
    <3>1. g[n] \in Rs /\ n + 1 \in 1..last /\ (n + 1) - 1 = n BY <1>2
    <3> QED BY <3>1, <1>3, <1>10
  <2>3. N = Nat
    <3>1. N \subseteq Nat OBVIOUS
    <3> HIDE DEF N
    <3> QED BY <2>1, <2>2, <3>1, NatSetInduction
  <2> QED BY <2>3, <1>2
<1> QED BY <1>1, <1>2, <1>8, <1>11

-----------------------------------------------------------------------------
(* Its cache of roots.                                                       *)

\* The caches whose entries are of epochs that have begun and are what recomputing gives.
ExactCaches(r, t) ==
    {c \in Caches : \A i \in 1..Len(c) : c[i][1] <= Epoch(t) /\ c[i][2] = LeavesForEpoch(r, c[i][1])}

\* Entries of epochs that differ.
Keyed(q) == q \in Seq(Nat \X Roots) /\ \A i, j \in 1..Len(q) : q[i][1] = q[j][1] => i = j
\* Every entry of s is one of q.
OutOf(s, q) == \A i \in 1..Len(s) : \E j \in 1..Len(q) : s[i] = q[j]
\* Every entry of s is one of c, or x.
OutOfOr(s, c, x) == \A i \in 1..Len(s) : s[i] = x \/ \E j \in 1..Len(c) : s[i] = c[j]
\* The cache with the epoch looked up, before anything makes room.
Lengthened(q, r, c, e) == q = IF Cached(c, e) # {} THEN c ELSE Append(c, <<e, LeavesForEpoch(r, e)>>)
\* The first n entries make room.
Cut(s, q, n) == s = SubSeq(q, n + 1, Len(q))

\* What is left of a sequence without its first n elements.
LEMMA CutSeq ==
    ASSUME NEW S, NEW q \in Seq(S), NEW n \in Nat, n <= Len(q), NEW s, s = SubSeq(q, n + 1, Len(q))
    PROVE  s \in Seq(S) /\ Len(s) = Len(q) - n /\ \A i \in 1..Len(s) : i + n \in 1..Len(q) /\ s[i] = q[i + n]
<1>1. Len(q) \in Nat OBVIOUS
<1>2. s = [i \in 1..(Len(q) - n) |-> q[i + n]] BY <1>1
<1>3. \A i \in 1..(Len(q) - n) : i + n \in 1..Len(q) BY <1>1
<1>4. Len(q) - n \in Nat BY <1>1
<1>5. \A i \in 1..(Len(q) - n) : q[i + n] \in S BY <1>3
<1>6. s \in Seq(S) BY <1>2, <1>4, <1>5
<1>7. Len(s) = Len(q) - n BY <1>2, <1>4
<1> QED BY <1>2, <1>3, <1>6, <1>7

\* A cache that made room is within its cap and holds nothing new.
LEMMA CutCache ==
    ASSUME NEW q, Keyed(q), NEW n \in Nat, n <= Len(q), NEW s, Cut(s, q, n), Len(q) - n <= RootCacheCap
    PROVE  s \in Caches /\ OutOf(s, q)
<1>0. q \in Seq(Nat \X Roots) /\ s = SubSeq(q, n + 1, Len(q)) /\ \A i, j \in 1..Len(q) : q[i][1] = q[j][1] => i = j BY DEF Keyed, Cut
<1>1. s \in Seq(Nat \X Roots) /\ Len(s) = Len(q) - n /\ \A i \in 1..Len(s) : i + n \in 1..Len(q) /\ s[i] = q[i + n]
  BY <1>0, CutSeq
<1>2. ASSUME NEW i \in 1..Len(s), NEW j \in 1..Len(s), s[i][1] = s[j][1] PROVE i = j
  <2>1. q[i + n][1] = q[j + n][1] /\ i + n \in 1..Len(q) /\ j + n \in 1..Len(q) BY <1>1, <1>2
  <2>2. i + n = j + n BY <1>0, <2>1
  <2> QED BY <2>2
<1>3. Len(s) <= RootCacheCap BY <1>1
<1> QED BY <1>1, <1>2, <1>3 DEF Caches, OutOf

\* A lookup adds at most the entry of its epoch.
LEMMA Longer ==
    ASSUME NEW r \in Regs, NEW c \in Caches, NEW e \in Nat, NEW q, Lengthened(q, r, c, e)
    PROVE  Keyed(q) /\ OutOfOr(q, c, <<e, LeavesForEpoch(r, e)>>)
<1>1. c \in Seq(Nat \X Roots) /\ \A i, j \in 1..Len(c) : c[i][1] = c[j][1] => i = j BY DEF Caches
<1>2. CASE Cached(c, e) # {}
  <2>1. q = c BY <1>2 DEF Lengthened
  <2> QED BY <1>1, <2>1 DEF Keyed, OutOfOr
<1>3. CASE Cached(c, e) = {}
  <2>1. PICK x : x = <<e, LeavesForEpoch(r, e)>> OBVIOUS
  <2>2. x \in Nat \X Roots /\ x[1] = e BY <2>1, LeavesType
  <2>3. q = Append(c, x) BY <1>3, <2>1 DEF Lengthened
  <2>4. q \in Seq(Nat \X Roots) /\ Len(q) = Len(c) + 1 /\ q[Len(c) + 1] = x /\ \A i \in 1..Len(c) : q[i] = c[i]
    BY <1>1, <2>2, <2>3
  <2>5. \A i \in 1..Len(c) : c[i][1] # e BY <1>1, <1>3 DEF Cached
  <2>6. Len(c) \in Nat BY <1>1
  <2>7. ASSUME NEW i \in 1..Len(q), NEW j \in 1..Len(q), q[i][1] = q[j][1] PROVE i = j
    <3>1. CASE i \in 1..Len(c) /\ j \in 1..Len(c) BY <1>1, <2>4, <2>7, <3>1
    <3>2. CASE i = Len(c) + 1 /\ j \in 1..Len(c) BY <2>2, <2>4, <2>5, <2>7, <3>2
    <3>3. CASE j = Len(c) + 1 /\ i \in 1..Len(c) BY <2>2, <2>4, <2>5, <2>7, <3>3
    <3> QED BY <3>1, <3>2, <3>3, <2>4, <2>6
  <2>8. ASSUME NEW j \in 1..Len(q) PROVE q[j] = x \/ \E i \in 1..Len(c) : q[j] = c[i]
    <3>1. j = Len(c) + 1 \/ j \in 1..Len(c) BY <2>4, <2>6
    <3> QED BY <3>1, <2>4
  <2> QED BY <2>1, <2>4, <2>7, <2>8 DEF Keyed, OutOfOr
<1> QED BY <1>2, <1>3

\* The cache after anon_root_for_epoch is within its cap, and only the epoch looked up is
\* new in it.
LEMMA RememberIs ==
    ASSUME NEW r \in Regs, NEW c \in Caches, NEW e \in Nat, NEW s, s = Remember(r, c, e)
    PROVE  s \in Caches /\ OutOfOr(s, c, <<e, LeavesForEpoch(r, e)>>)
<1>1. PICK q : Lengthened(q, r, c, e) BY DEF Lengthened
<1>2. Keyed(q) /\ OutOfOr(q, c, <<e, LeavesForEpoch(r, e)>>) BY <1>1, Longer
<1>3. PICK n : n = IF Len(q) > RootCacheCap THEN Len(q) - RootCacheCap ELSE 0 OBVIOUS
<1>4. Cut(s, q, n) BY <1>1, <1>3 DEF Remember, Cut, Lengthened
<1>5. Len(q) \in Nat BY <1>2 DEF Keyed
<1>6. n \in Nat /\ n <= Len(q) /\ Len(q) - n <= RootCacheCap BY <1>3, <1>5, RegNats
<1>7. s \in Caches /\ OutOf(s, q) BY <1>2, <1>4, <1>6, CutCache
<1> QED BY <1>2, <1>7 DEF OutOf, OutOfOr

\* A lookup keeps an exact cache exact.
LEMMA RememberExact ==
    ASSUME NEW r \in Regs, NEW t \in Nat, NEW c \in ExactCaches(r, t), NEW e \in 0..Epoch(t)
    PROVE  Remember(r, c, e) \in ExactCaches(r, t)
<1>1. Epoch(t) \in Nat BY EpochNat
<1>2. c \in Caches /\ e \in Nat /\ e <= Epoch(t) BY <1>1 DEF ExactCaches
<1>3. PICK s : s = Remember(r, c, e) OBVIOUS
<1>4. s \in Caches /\ \A i \in 1..Len(s) : s[i] = <<e, LeavesForEpoch(r, e)>> \/ \E j \in 1..Len(c) : s[i] = c[j]
  BY <1>2, <1>3, RememberIs DEF OutOfOr
<1>5. \A j \in 1..Len(c) : c[j][1] <= Epoch(t) /\ c[j][2] = LeavesForEpoch(r, c[j][1]) BY DEF ExactCaches
<1>6. ASSUME NEW i \in 1..Len(s) PROVE s[i][1] <= Epoch(t) /\ s[i][2] = LeavesForEpoch(r, s[i][1])
  <2>1. CASE s[i] = <<e, LeavesForEpoch(r, e)>>
    <3>1. s[i][1] = e /\ s[i][2] = LeavesForEpoch(r, e) BY <2>1
    <3> QED BY <3>1, <1>2
  <2>2. CASE \E j \in 1..Len(c) : s[i] = c[j]
    <3>1. PICK j \in 1..Len(c) : s[i] = c[j] BY <2>2
    <3> QED BY <3>1, <1>5
  <2> QED BY <2>1, <2>2, <1>4
<1> QED BY <1>3, <1>4, <1>6 DEF ExactCaches

\* In an exact cache a lookup is a recomputation.
LEMMA LookupExact ==
    ASSUME NEW r \in Regs, NEW t \in Nat, NEW c \in ExactCaches(r, t), NEW e \in Nat
    PROVE  RootForEpoch(r, c, e) = LeavesForEpoch(r, e)
<1>1. CASE Cached(c, e) = {} BY <1>1 DEF RootForEpoch
<1>2. CASE Cached(c, e) # {}
  <2>1. c \in Seq(Nat \X Roots) BY DEF ExactCaches, Caches
  <2>2. Cached(c, e) \subseteq 1..Len(c) /\ 1..Len(c) \subseteq Nat BY <2>1 DEF Cached
  <2>3. PICK i : i = Min(Cached(c, e)) OBVIOUS
  <2>4. i \in Cached(c, e) BY <1>2, <2>2, <2>3, MinIsLeast
  <2>5. i \in 1..Len(c) /\ c[i][1] = e BY <2>2, <2>4 DEF Cached
  <2>6. c[i][2] = LeavesForEpoch(r, e) BY <2>5 DEF ExactCaches
  <2> QED BY <1>2, <2>3, <2>6 DEF RootForEpoch
<1> QED BY <1>1, <1>2

\* A lookup gives a root.
LEMMA LookupType ==
    ASSUME NEW r \in Regs, NEW c \in Caches, NEW e \in Nat
    PROVE  RootForEpoch(r, c, e) \in Roots
<1>1. CASE Cached(c, e) = {} BY <1>1, LeavesType DEF RootForEpoch
<1>2. CASE Cached(c, e) # {}
  <2>1. c \in Seq(Nat \X Roots) BY DEF Caches
  <2>2. Cached(c, e) \subseteq 1..Len(c) /\ 1..Len(c) \subseteq Nat BY <2>1 DEF Cached
  <2>3. PICK i : i = Min(Cached(c, e)) OBVIOUS
  <2>4. i \in Cached(c, e) BY <1>2, <2>2, <2>3, MinIsLeast
  <2>5. c[i] \in Nat \X Roots BY <2>1, <2>2, <2>4
  <2>6. c[i][2] \in Roots BY <2>5
  <2> QED BY <1>2, <2>3, <2>6 DEF RootForEpoch
<1> QED BY <1>1, <1>2

-----------------------------------------------------------------------------
\* The number of epochs accepts_anon_root looks up at most.
ScanLength(t) == Epoch(t) - OldestEpoch(t) + 1
\* The recursion of RootScan.
Scanning(g, r, cache, root, t) ==
    g = [n \in 0..ScanLength(t) |->
            IF n = 0 THEN [found |-> FALSE, cache |-> cache]
            ELSE IF g[n - 1].found THEN g[n - 1]
            ELSE [found |-> RootForEpoch(r, g[n - 1].cache, Epoch(t) + 1 - n) = root,
                  cache |-> Remember(r, g[n - 1].cache, Epoch(t) + 1 - n)]]
\* One lookup of the scan.
ScanStep(s, r, root, t, n) ==
    IF s.found THEN s
    ELSE [found |-> RootForEpoch(r, s.cache, Epoch(t) + 1 - n) = root,
          cache |-> Remember(r, s.cache, Epoch(t) + 1 - n)]

\* g holds the states of a scan, with caches in Cs.
IsScan(g, r, Cs, cache, root, t) ==
    /\ RootScan(r, cache, root, t) = g[ScanLength(t)]
    /\ g[0] = [found |-> FALSE, cache |-> cache]
    /\ \A n \in 1..ScanLength(t) : g[n] = ScanStep(g[n - 1], r, root, t, n)
    /\ \A n \in 0..ScanLength(t) : g[n].cache \in Cs /\ g[n].found \in BOOLEAN
\* Every lookup of an epoch that has begun keeps the set Cs of caches.
Kept(r, Cs, t) == \A c \in Cs : \A e \in 0..Epoch(t) : Remember(r, c, e) \in Cs

\* The bounds of a scan are naturals.
LEMMA SpanNat ==
    ASSUME NEW t \in Nat
    PROVE  ScanSpan \in Nat /\ OldestEpoch(t) \in Nat /\ OldestEpoch(t) <= Epoch(t) /\ ScanLength(t) \in Nat
<1>1. Epoch(t) \in Nat BY EpochNat
<1>2. (RootWindow + EpochLength - 1) \div EpochLength \in Nat
  <2>1. RootWindow + EpochLength - 1 \in Nat BY RegNats
  <2> QED BY <2>1, RegNats, DivMono
<1>3. ScanSpan \in Nat
  <2> DEFINE S == {(RootWindow + EpochLength - 1) \div EpochLength, MaxRootScan}
  <2>1. S \subseteq Nat /\ S # {} BY <1>2, RegNats
  <2>2. ScanSpan = Min(S) BY DEF ScanSpan
  <2> HIDE DEF S
  <2> QED BY <2>1, <2>2, MinIsLeast
<1> QED BY <1>1, <1>3 DEF OldestEpoch, ScanLength

\* A scan runs through caches of any set that every lookup keeps.
LEMMA ScanRuns ==
    ASSUME NEW r, NEW Cs, NEW cache \in Cs, NEW root, NEW t \in Nat,
           Kept(r, Cs, t)
    PROVE  \E g : IsScan(g, r, Cs, cache, root, t)
<1> DEFINE last == ScanLength(t)
           St == [found : BOOLEAN, cache : Cs]
           start == [found |-> FALSE, cache |-> cache]
           step == [n \in 1..last |-> [s \in St |-> ScanStep(s, r, root, t, n)]]
<1>1. RootScan(r, cache, root, t) = (CHOOSE g : Scanning(g, r, cache, root, t))[last]
  BY DEF RootScan, Scanning, ScanLength
<1>2. last \in Nat /\ Epoch(t) \in Nat /\ last <= Epoch(t) + 1 BY SpanNat, EpochNat DEF ScanLength
<1> HIDE DEF last
<1>3. ASSUME NEW n \in 1..last, NEW s \in St PROVE ScanStep(s, r, root, t, n) \in St
  <2>1. PICK e : e = Epoch(t) + 1 - n OBVIOUS
  <2>2. e \in 0..Epoch(t) BY <1>2, <2>1
  <2>3. s.cache \in Cs BY <1>3
  <2>4. Remember(r, s.cache, e) \in Cs BY <2>2, <2>3 DEF Kept
  <2>5. [found |-> RootForEpoch(r, s.cache, e) = root, cache |-> Remember(r, s.cache, e)] \in St BY <2>4
  <2> QED BY <2>1, <2>5 DEF ScanStep
<1>4. step \in [1..last -> [St -> St]]
  <2> HIDE DEF St
  <2> QED BY <1>3
<1>5. start \in St OBVIOUS
<1>6. PICK f \in [0..last -> St] : RunFrom(f, start, step, last)
  <2> HIDE DEF step, St, start
  <2> QED BY <1>2, <1>4, <1>5, RunExists
<1>7. ASSUME NEW n \in 1..last PROVE f[n] = ScanStep(f[n - 1], r, root, t, n)
  <2> HIDE DEF St
  <2>1. f[n - 1] \in St BY <1>2, <1>6
  <2>2. f[n] = step[n][f[n - 1]]
    <3> HIDE DEF step
    <3> QED BY <1>6 DEF RunFrom
  <2> QED BY <2>1, <2>2
<1>8. Scanning(f, r, cache, root, t)
  <2>1. f[0] = start BY <1>6 DEF RunFrom
  <2>2. ASSUME NEW n \in 0..last
        PROVE  f[n] = IF n = 0 THEN [found |-> FALSE, cache |-> cache]
                      ELSE IF f[n - 1].found THEN f[n - 1]
                      ELSE [found |-> RootForEpoch(r, f[n - 1].cache, Epoch(t) + 1 - n) = root,
                            cache |-> Remember(r, f[n - 1].cache, Epoch(t) + 1 - n)]
    <3>1. CASE n = 0 BY <3>1, <2>1
    <3>2. CASE n # 0
      <4>1. n \in 1..last BY <3>2, <1>2
      <4> QED BY <3>2, <4>1, <1>7 DEF ScanStep
    <3> QED BY <3>1, <3>2
  <2>3. f = [n \in 0..last |-> f[n]] BY <1>6
  <2> QED BY <2>2, <2>3, Zenon DEF Scanning, last
<1>9. PICK g : g = (CHOOSE h : Scanning(h, r, cache, root, t)) OBVIOUS
<1>10. Scanning(g, r, cache, root, t) BY <1>8, <1>9
<1>11. ASSUME NEW n \in 0..last PROVE g[n] = IF n = 0 THEN start ELSE ScanStep(g[n - 1], r, root, t, n)
  BY <1>10 DEF Scanning, last, ScanStep
<1>12. g[0] = start /\ \A n \in 1..last : g[n] = ScanStep(g[n - 1], r, root, t, n)
  <2> HIDE DEF start
  <2> QED BY <1>11, <1>2
<1>13. \A n \in 0..last : g[n] \in St
  <2> HIDE DEF St, start
  <2> DEFINE N == {n \in Nat : n <= last => g[n] \in St}
  <2>1. 0 \in N BY <1>5, <1>12
  <2>2. ASSUME NEW n \in N PROVE n + 1 \in N
    <3> SUFFICES ASSUME n + 1 <= last PROVE g[n + 1] \in St OBVIOUS
    <3>1. g[n] \in St /\ n + 1 \in 1..last /\ (n + 1) - 1 = n BY <1>2
    <3> QED BY <3>1, <1>3, <1>12
  <2>3. N = Nat
    <3>1. N \subseteq Nat OBVIOUS
    <3> HIDE DEF N
    <3> QED BY <2>1, <2>2, <3>1, NatSetInduction
  <2> QED BY <2>3, <1>2
<1>14. \A n \in 0..last : g[n].cache \in Cs /\ g[n].found \in BOOLEAN BY <1>13
<1> QED BY <1>1, <1>9, <1>12, <1>14 DEF last, IsScan

\* A scan leaves a cache of such a set.
LEMMA ScanKeeps ==
    ASSUME NEW r, NEW Cs, NEW cache \in Cs, NEW root, NEW t \in Nat,
           Kept(r, Cs, t)
    PROVE  RootScan(r, cache, root, t).cache \in Cs
<1>1. PICK g : IsScan(g, r, Cs, cache, root, t) BY ScanRuns
<1>2. ScanLength(t) \in 0..ScanLength(t) BY SpanNat
<1> QED BY <1>1, <1>2 DEF IsScan

\* With an exact cache the scan finds the root of every epoch of its window.
LEMMA ScanFinds ==
    ASSUME NEW r \in Regs, NEW t \in Nat, NEW cache \in ExactCaches(r, t), NEW e \in Nat,
           OldestEpoch(t) <= e, e <= Epoch(t)
    PROVE  AcceptsRoot(r, cache, LeavesForEpoch(r, e), t)
<1>1. PICK root : root = LeavesForEpoch(r, e) OBVIOUS
<1>2. Kept(r, ExactCaches(r, t), t) BY RememberExact DEF Kept
<1>0. PICK g : IsScan(g, r, ExactCaches(r, t), cache, root, t) BY <1>2, ScanRuns
<1>3.          /\ RootScan(r, cache, root, t) = g[ScanLength(t)]
               /\ \A n \in 1..ScanLength(t) : g[n] = ScanStep(g[n - 1], r, root, t, n)
               /\ \A n \in 0..ScanLength(t) : g[n].cache \in ExactCaches(r, t) /\ g[n].found \in BOOLEAN
  BY <1>0 DEF IsScan
<1>4. ScanLength(t) \in Nat /\ Epoch(t) \in Nat /\ OldestEpoch(t) \in Nat BY SpanNat, EpochNat
<1>5. PICK k : k = Epoch(t) + 1 - e OBVIOUS
<1>6. k \in 1..ScanLength(t) /\ Epoch(t) + 1 - k = e BY <1>4, <1>5 DEF ScanLength
<1>7. g[k].found
  <2>1. k - 1 \in 0..ScanLength(t) BY <1>4, <1>6
  <2>2. PICK s : s = g[k - 1] OBVIOUS
  <2>3. s.cache \in ExactCaches(r, t) /\ g[k] = ScanStep(s, r, root, t, k) BY <1>3, <1>6, <2>1, <2>2
  <2>4. CASE s.found BY <2>3, <2>4 DEF ScanStep
  <2>5. CASE ~s.found
    <3>1. g[k].found = (RootForEpoch(r, s.cache, e) = root) BY <1>6, <2>3, <2>5 DEF ScanStep
    <3>2. RootForEpoch(r, s.cache, e) = root BY <1>1, <2>3, LookupExact
    <3> QED BY <3>1, <3>2
  <2> QED BY <2>4, <2>5
<1>8. ScanLength(t) \in Nat => g[ScanLength(t)].found
  <2> DEFINE N == {n \in Nat : k + n <= ScanLength(t) => g[k + n].found}
  <2>1. 0 \in N BY <1>6, <1>7
  <2>2. ASSUME NEW n \in N PROVE n + 1 \in N
    <3> SUFFICES ASSUME k + (n + 1) <= ScanLength(t) PROVE g[k + (n + 1)].found OBVIOUS
    <3>1. PICK m \in Nat : m = k + n BY <1>6
    <3>2. k + (n + 1) = m + 1 /\ m + 1 \in 1..ScanLength(t) /\ (m + 1) - 1 = m BY <1>4, <1>6, <3>1
    <3>3. g[m].found BY <3>1, <3>2, <1>4, <1>6
    <3>4. g[m + 1] = ScanStep(g[m], r, root, t, m + 1) BY <1>3, <3>2
    <3>5. g[m + 1] = g[m] BY <3>3, <3>4 DEF ScanStep
    <3> QED BY <3>2, <3>3, <3>5
  <2>3. N = Nat
    <3>1. N \subseteq Nat OBVIOUS
    <3> HIDE DEF N
    <3> QED BY <2>1, <2>2, <3>1, NatSetInduction
  <2>4. PICK n : n = ScanLength(t) - k OBVIOUS
  <2>5. n \in Nat /\ k + n = ScanLength(t) BY <1>4, <1>6, <2>4
  <2>6. n \in N BY <2>3, <2>5
  <2> QED BY <2>5, <2>6
<1> QED BY <1>1, <1>3, <1>4, <1>8 DEF AcceptsRoot

-----------------------------------------------------------------------------
(* Types of the registry.                                                    *)

\* The states of a sync round.
Rounds == [phase : {"idle", "probe", "page"}, after : Members \cup {0}, page : 0..MaxPages, spent : Nat]
\* The types of the registry, the cache and the sync round.
RegTypes ==
    /\ rclock \in 0..MaxRegTime /\ reg \in Regs /\ rootCache \in Caches
    /\ round \in Rounds
    /\ resume \in Members \cup {0} /\ shown \subseteq Nat \X Roots

\* These are the types that RegistryTypeOK states.
LEMMA TypesAre == ASSUME RegTypes PROVE RegistryTypeOK
<1>1. rootCache \in Caches BY DEF RegTypes
<1>6. rootCache \in Seq(Nat \X Roots) /\ Len(rootCache) <= RootCacheCap BY <1>1 DEF Caches
<1>7. rootCache \in Seq(Nat \X SUBSET (Members \X Nat)) BY <1>6 DEF Roots
<1>8. DOMAIN rootCache = 1..Len(rootCache) BY <1>6
<1>9. \A i, j \in 1..Len(rootCache) : rootCache[i][1] = rootCache[j][1] => i = j BY <1>1, Zenon DEF Caches
<1>10. \A i, j \in DOMAIN rootCache : rootCache[i][1] = rootCache[j][1] => i = j BY <1>8, <1>9
<1>2. reg \in [Members -> [c : Nat, at : Nat, adm : 0..MaxRegTime]] /\ Cardinality(Held(reg)) <= MaxMembers
  BY DEF RegTypes, Regs, RegMaps
<1>3. shown \subseteq Nat \X SUBSET (Members \X Nat) BY DEF RegTypes, Roots
<1>4. round \in [phase : {"idle", "probe", "page"}, after : Members \cup {0}, page : 0..MaxPages, spent : Nat]
  BY DEF RegTypes, Rounds
<1>5. rclock \in 0..MaxRegTime /\ resume \in Members \cup {0} BY DEF RegTypes
<1> QED BY <1>2, <1>3, <1>4, <1>5, <1>6, <1>7, <1>10, Zenon DEF RegistryTypeOK

\* The clock and its epoch are naturals.
LEMMA ClockNat == ASSUME RegTypes PROVE rclock \in Nat /\ Epoch(rclock) \in Nat
<1>1. rclock \in Nat BY RegNats DEF RegTypes
<1> QED BY <1>1, EpochNat

\* A page holds registrations of the peer, and its cursor is a wallet or 0.
LEMMA PageIs ==
    ASSUME NEW after, NEW p, p = PageAfter(after)
    PROVE  p.regs \subseteq PeerSet /\ p.next \in Members \cup {0}
<1> DEFINE rest == {x \in PeerSet : x.w > after}
           regs == {x \in rest : Cardinality({y \in rest : y.w < x.w}) < PageSize}
           ws == {x.w : x \in regs}
<1>1. p = [regs |-> regs, next |-> IF regs = rest THEN 0 ELSE Max(ws)] BY DEF PageAfter
<1>2. regs \subseteq PeerSet /\ rest \subseteq PeerSet OBVIOUS
<1>3. CASE regs = rest BY <1>1, <1>2, <1>3
<1>4. CASE regs # rest
  <2>1. ws \subseteq Members /\ ws \subseteq Nat BY <1>2, RegSets
  <2>2. IsFiniteSet(ws) BY <2>1, RegSets, FS_Subset
  <2>3. ws # {}
    <3>1. PICK z \in rest : TRUE BY <1>4
    <3> DEFINE T == {x.w : x \in rest}
    <3>9. \A x \in rest : x.w \in Nat BY <1>2, RegSets
    <3>10. T \subseteq Nat
      <4> HIDE DEF rest
      <4> QED BY <3>9
    <3>2. T \subseteq Nat /\ T # {} BY <3>1, <3>10
    <3>3. PICK n \in T : \A m \in T : n <= m
      <4> HIDE DEF T
      <4> QED BY <3>2, Least
    <3>4. PICK x \in rest : x.w = n BY <3>3
    <3>5. \A y \in rest : ~(y.w < x.w)
      <4>1. \A y \in rest : y.w \in T /\ y.w \in Nat BY <1>2, RegSets
      <4> HIDE DEF T
      <4>2. n \in Nat BY <3>2, <3>3
      <4> QED BY <3>3, <3>4, <4>1, <4>2
    <3>6. {y \in rest : y.w < x.w} = {} BY <3>5
    <3>7. Cardinality({y \in rest : y.w < x.w}) = 0 BY <3>6, FS_EmptySet
    <3>11. Cardinality({y \in rest : y.w < x.w}) < PageSize BY <3>7, RegNats
    <3>8. x \in regs
      <4> HIDE DEF rest
      <4> QED BY <3>4, <3>11
    <3> HIDE DEF regs
    <3> QED BY <3>8
  <2>4. Max(ws) \in ws
    <3> HIDE DEF ws
    <3> QED BY <2>1, <2>2, <2>3, MaxIs
  <2>5. p.next = Max(ws) /\ p.regs = regs BY <1>1, <1>4
  <2> HIDE DEF ws, regs
  <2> QED BY <1>2, <2>1, <2>4, <2>5
<1> QED BY <1>3, <1>4

\* After a page the round and the cursor have their types.
LEMMA EndIs ==
    ASSUME NEW next \in Members \cup {0}, NEW pages \in Nat, NEW spent \in Nat, resume \in Members \cup {0},
           NEW end, end = EndOfPage(next, pages, spent)
    PROVE  end.round \in Rounds /\ end.resume \in Members \cup {0}
<1>0. NoRound \in Rounds BY RegNats DEF NoRound, Rounds
<1>1. CASE spent >= VerifyBudget
  <2>0. ~(spent < VerifyBudget) BY <1>1, RegNats
  <2>1. end = [round |-> NoRound, resume |-> next] BY <1>1, <2>0 DEF EndOfPage
  <2> QED BY <1>0, <2>1
<1>2. CASE ~(spent >= VerifyBudget)
  <2>1. CASE spent < VerifyBudget /\ next # 0 /\ pages < MaxPages
    <3>1. end = [round |-> [phase |-> "page", after |-> next, page |-> pages, spent |-> spent], resume |-> resume] BY <1>2, <2>1 DEF EndOfPage
    <3>2. end.round = [phase |-> "page", after |-> next, page |-> pages, spent |-> spent] /\ end.resume = resume BY <3>1
    <3> QED BY <2>1, <3>2, RegNats DEF Rounds
  <2>2. CASE ~(spent < VerifyBudget /\ next # 0 /\ pages < MaxPages)
    <3>1. end = [round |-> NoRound, resume |-> 0] BY <1>2, <2>2 DEF EndOfPage
    <3> QED BY <1>0, <3>1
  <2> QED BY <2>1, <2>2
<1> QED BY <1>1, <1>2

\* So have they at the start of a round and without one.
LEMMA NoRoundIs == NoRound \in Rounds /\ [NoRound EXCEPT !.phase = "probe"] \in Rounds
BY RegNats DEF NoRound, Rounds

\* Comparing roots keeps the types.
LEMMA CompareTypes ==
    ASSUME RegTypes, CompareRoots
    PROVE  rootCache' \in Caches /\ round' \in Rounds
<1>1. rootCache' = Remember(reg, rootCache, Epoch(rclock)) BY DEF CompareRoots
<1>2. rootCache' \in Caches BY <1>1, ClockNat, RememberIs DEF RegTypes
<1>3. round' = NoRound \/ round' = [phase |-> "page", after |-> resume, page |-> 0, spent |-> 0] BY DEF CompareRoots
<1>4. round' \in Rounds
  <2>1. CASE round' = NoRound BY <2>1, NoRoundIs
  <2>2. CASE round' = [phase |-> "page", after |-> resume, page |-> 0, spent |-> 0] BY <2>2, RegNats DEF Rounds, RegTypes
  <2> QED BY <1>3, <2>1, <2>2
<1> QED BY <1>2, <1>4

\* A page that arrives keeps the types of the round, and admits registrations of the
\* peer.
LEMMA PageTypes ==
    ASSUME RegTypes, PageArrives
    PROVE  /\ \E p : p.regs \subseteq PeerSet /\ reg' = AdmitPage(reg, p.regs, rclock)
           /\ round' \in Rounds /\ resume' \in Members \cup {0}
<1>0. round \in Rounds /\ resume \in Members \cup {0} BY DEF RegTypes
<1>1. PICK p : /\ p = PageAfter(round.after) /\ reg' = AdmitPage(reg, p.regs, rclock)
               /\ \E end \in {EndOfPage(p.next, round.page + 1, round.spent + Cardinality(p.regs))} :
                      round' = end.round /\ resume' = end.resume
  BY DEF PageArrives
<1>2. PICK end : end = EndOfPage(p.next, round.page + 1, round.spent + Cardinality(p.regs)) /\ round' = end.round /\ resume' = end.resume
  BY <1>1
<1>3. p.regs \subseteq PeerSet /\ p.next \in Members \cup {0} BY <1>1, PageIs
<1>4. round.page + 1 \in Nat /\ round.spent \in Nat BY <1>0, RegNats DEF Rounds
<1>6. Cardinality(p.regs) \in Nat BY <1>3, RegSets, FS_Subset, FS_CardinalityType
<1>7. round.spent + Cardinality(p.regs) \in Nat BY <1>4, <1>6
<1>5. end.round \in Rounds /\ end.resume \in Members \cup {0}
  BY <1>0, <1>2, <1>3, <1>4, <1>7, EndIs
<1> QED BY <1>1, <1>2, <1>3, <1>5

\* Lookups keep the type of the cache.
LEMMA CachesKept == ASSUME NEW r \in Regs, NEW t \in Nat PROVE Kept(r, Caches, t)
<1>1. Epoch(t) \in Nat BY EpochNat
<1>2. ASSUME NEW c \in Caches, NEW e \in 0..Epoch(t) PROVE Remember(r, c, e) \in Caches
  <2>1. e \in Nat BY <1>1
  <2> QED BY <2>1, RememberIs
<1> QED BY <1>2 DEF Kept

\* Every action keeps the types.
LEMMA RegTypesStay == ASSUME RegTypes, RegistryNext PROVE RegTypes'
<1>0. rclock \in 0..MaxRegTime /\ rclock \in Nat /\ Epoch(rclock) \in Nat /\ reg \in Regs /\ rootCache \in Caches
  BY ClockNat DEF RegTypes
<1>1. ASSUME NEW x \in Offers, Register(x) PROVE RegTypes'
  <2>1. reg' = Admit(reg, x, rclock) /\ UNCHANGED <<rclock, rootCache, shown, round, resume, syncFaults>> BY <1>1 DEF Register
  <2>2. reg' \in Regs BY <1>0, <2>1, AdmitType
  <2> QED BY <2>1, <2>2 DEF RegTypes
<1>2. CASE ShowRoot
  <2>1. PICK e \in Nat : e = Epoch(rclock) BY <1>0
  <2>2. shown' = shown \cup {<<e, RootForEpoch(reg, rootCache, e)>>} /\ rootCache' = Remember(reg, rootCache, e)
        /\ UNCHANGED <<rclock, reg, round, resume, syncFaults>> BY <1>2, <2>1 DEF ShowRoot
  <2>3. rootCache' \in Caches BY <1>0, <2>2, RememberIs
  <2>4. <<e, RootForEpoch(reg, rootCache, e)>> \in Nat \X Roots BY <1>0, LookupType
  <2> QED BY <2>2, <2>3, <2>4 DEF RegTypes
<1>3. ASSUME NEW s \in shown, CheckProof(s) PROVE RegTypes'
  <2>1. rootCache' = RootScan(reg, rootCache, s[2], rclock).cache /\ UNCHANGED <<rclock, reg, shown, round, resume, syncFaults>>
    BY <1>3 DEF CheckProof
  <2>2. RootScan(reg, rootCache, s[2], rclock).cache \in Caches BY <1>0, CachesKept, ScanKeeps
  <2>3. rootCache' \in Caches BY <2>1, <2>2
  <2> QED BY <2>1, <2>3 DEF RegTypes
<1>4. CASE RegistryTick
  <2>1. rclock' \in 0..MaxRegTime /\ UNCHANGED <<reg, rootCache, shown, round, resume, syncFaults>> BY <1>0, <1>4, RegNats DEF RegistryTick
  <2> QED BY <2>1 DEF RegTypes
<1>5. CASE RegistryRestart
  <2>1. rootCache' = <<>> /\ round' = NoRound /\ resume' = 0 /\ UNCHANGED <<rclock, reg, shown>> BY <1>5 DEF RegistryRestart
  <2>2. <<>> \in Caches BY RegNats DEF Caches
  <2> QED BY <2>1, <2>2, NoRoundIs DEF RegTypes
<1>6. CASE SyncProbe
  <2>1. round' = [NoRound EXCEPT !.phase = "probe"] /\ UNCHANGED <<rclock, reg, rootCache, shown, resume, syncFaults>> BY <1>6 DEF SyncProbe
  <2> QED BY <2>1, NoRoundIs DEF RegTypes
<1>7. CASE ProbeAnswer
  <2>1. CompareRoots /\ UNCHANGED <<rclock, reg, shown, resume, syncFaults>> BY <1>7 DEF ProbeAnswer
  <2> QED BY <2>1, CompareTypes DEF RegTypes
<1>8. CASE PageRefused
  <2>1. CompareRoots /\ UNCHANGED <<rclock, reg, shown, resume>> BY <1>8 DEF PageRefused
  <2> QED BY <2>1, CompareTypes DEF RegTypes
<1>9. CASE PageArrives
  <2>1. UNCHANGED <<rclock, rootCache, shown, syncFaults>> BY <1>9 DEF PageArrives
  <2>2. PICK p : p.regs \subseteq PeerSet /\ reg' = AdmitPage(reg, p.regs, rclock) BY <1>9, PageTypes
  <2>3. \A q \in Regs : \A x \in p.regs : Admit(q, x, rclock) \in Regs BY <1>0, <2>2, AdmitType
  <2>4. reg' \in Regs BY <1>0, <2>2, <2>3, PageKeeps
  <2> QED BY <1>9, <2>1, <2>4, PageTypes DEF RegTypes
<1>10. CASE SyncLost
  <2>1. round' = NoRound /\ UNCHANGED <<rclock, reg, rootCache, shown, resume>> BY <1>10 DEF SyncLost
  <2> QED BY <2>1, NoRoundIs DEF RegTypes
<1> QED BY <1>1, <1>2, <1>3, <1>4, <1>5, <1>6, <1>7, <1>8, <1>9, <1>10 DEF RegistryNext, SyncStep

\* The types hold at the start.
LEMMA RegStarts == ASSUME RegistryInit PROVE RegTypes
<1>1. NoReg \in [c : Nat, at : Nat, adm : 0..MaxRegTime] BY RegNats DEF NoReg
<1>2. reg = [w \in Members |-> NoReg] BY DEF RegistryInit
<1>3. reg \in RegMaps BY <1>1, <1>2 DEF RegMaps
<1>4. Held(reg) = {} BY <1>2 DEF Held
<1>5. Cardinality(Held(reg)) <= MaxMembers BY <1>4, FS_EmptySet, RegNats
<1>6. <<>> \in Caches BY RegNats DEF Caches
<1> QED BY <1>3, <1>5, <1>6, RegNats, NoRoundIs DEF RegistryInit, RegTypes, Regs

\* For any wallets, registrations and limits: the registry stays within its limit on
\* members, the cache within its cap with an epoch once, and the cursor of a sync round
\* is a wallet or none (register_anon, anon_root_for_epoch and the sync of p2p.rs).
THEOREM RegistryIsTyped == RegistrySpec => []RegistryTypeOK
<1>1. RegistryInit => RegTypes BY RegStarts
<1>2. RegTypes /\ [RegistryNext]_registryVars => RegTypes'
  <2>1. CASE RegistryNext BY <2>1, RegTypesStay
  <2>2. CASE UNCHANGED registryVars BY <2>2 DEF registryVars, RegTypes
  <2> QED BY <2>1, <2>2
<1>3. RegTypes => RegistryTypeOK BY TypesAre
<1> QED BY <1>1, <1>2, <1>3, PTL DEF RegistrySpec

-----------------------------------------------------------------------------
(* Roots stay accepted.                                                      *)

\* No wallet brings two commitments.
OneCommitment == \A x, y \in Offers \cup PeerSet : x.w = y.w => x.c = y.c

\* Every member of the registry has the commitment of a registration that reached the
\* node.
Sourced(r) == \A w \in Members : r[w] # NoReg => \E x \in Offers \cup PeerSet : x.w = w /\ x.c = r[w].c
\* The registries that admissions at time t make of r.
Grown(r, t) ==
    {q \in Regs : Sourced(q) /\ \A w \in Members : q[w] = r[w] \/ (r[w] = NoReg /\ q[w].adm = t)}
\* The inductive invariant: entries of the cache and roots shown are those of epochs that
\* have begun, and equal to what recomputing gives.
RegSoundInv ==
    /\ RegTypes /\ Sourced(reg) /\ rootCache \in ExactCaches(reg, rclock)
    /\ \A s \in shown : s[1] <= Epoch(rclock) /\ s[2] = LeavesForEpoch(reg, s[1])

\* A registry grows from itself.
LEMMA GrownSelf == ASSUME NEW r \in Regs, NEW t, Sourced(r) PROVE r \in Grown(r, t)
BY DEF Grown

\* With one commitment per wallet an admission only adds members, with the time of the
\* admission.
LEMMA AdmitGrows ==
    ASSUME OneCommitment, NEW r \in Regs, NEW t \in 0..MaxRegTime, NEW q \in Grown(r, t), NEW x \in Offers \cup PeerSet
    PROVE  Admit(q, x, t) \in Grown(r, t)
<1>1. q \in Regs /\ Sourced(q) /\ \A w \in Members : q[w] = r[w] \/ (r[w] = NoReg /\ q[w].adm = t) BY DEF Grown
<1>2. PICK a : a = Admit(q, x, t) OBVIOUS
<1>3. a \in Regs BY <1>1, <1>2, AdmitType
<1>4. x.w \in Members BY RegSets
<1>5. CASE q[x.w] # NoReg
  <2>1. PICK y \in Offers \cup PeerSet : y.w = x.w /\ y.c = q[x.w].c BY <1>1, <1>4, <1>5 DEF Sourced
  <2>2. q[x.w].c = x.c BY <2>1 DEF OneCommitment
  <2>3. a = q BY <1>2, <1>5, <2>2 DEF Admit
  <2> QED BY <1>2, <2>3
<1>6. CASE q[x.w] = NoReg
  <2>1. PICK new : Entered(new, q, x, t) BY DEF Entered
  <2>2. a = q \/ a = new BY <1>2, <1>6, <2>1 DEF Admit, Entered
  <2>3. CASE a = q BY <1>2, <2>3
  <2>4. CASE a = new
    <3>1. q \in RegMaps BY <1>1 DEF Regs
    <3>2. new[x.w].c = x.c /\ new[x.w].adm = t /\ \A w \in Members : w # x.w => new[w] = q[w] BY <2>1, <3>1, EntryOf
    <3>3. ASSUME NEW w \in Members PROVE new[w] = r[w] \/ (r[w] = NoReg /\ new[w].adm = t)
      <4>1. CASE w = x.w BY <1>1, <1>6, <3>2, <4>1
      <4>2. CASE w # x.w BY <1>1, <3>2, <4>2
      <4> QED BY <4>1, <4>2
    <3>4. ASSUME NEW w \in Members, new[w] # NoReg PROVE \E y \in Offers \cup PeerSet : y.w = w /\ y.c = new[w].c
      <4>1. CASE w = x.w BY <3>2, <4>1
      <4>2. CASE w # x.w
        <5>1. new[w] = q[w] BY <3>2, <4>2
        <5> QED BY <1>1, <3>4, <5>1 DEF Sourced
      <4> QED BY <4>1, <4>2
    <3>5. Sourced(new) BY <3>4 DEF Sourced
    <3> QED BY <1>2, <1>3, <2>4, <3>3, <3>5 DEF Grown
  <2> QED BY <2>2, <2>3, <2>4
<1> QED BY <1>5, <1>6

\* An admission leaves the leaves of every epoch that has begun alone.
LEMMA LeavesStay ==
    ASSUME NEW r \in Regs, NEW t \in Nat, NEW q \in Grown(r, t), NEW e \in Nat, e <= Epoch(t)
    PROVE  LeavesForEpoch(q, e) = LeavesForEpoch(r, e)
<1> DEFINE L(z) == {v \in Held(z) : Epoch(z[v].adm) < e}
<1>1. \A w \in Members : q[w] = r[w] \/ (r[w] = NoReg /\ q[w].adm = t) BY DEF Grown
<1>2. Epoch(t) \in Nat BY EpochNat
<1>3. \A v \in L(q) : q[v] = r[v]
  <2> SUFFICES ASSUME NEW v \in L(q), q[v] # r[v] PROVE FALSE OBVIOUS
  <2>1. v \in Members /\ Epoch(q[v].adm) < e BY DEF Held
  <2>2. q[v].adm = t BY <1>1, <2>1
  <2> QED BY <1>2, <2>1, <2>2
<1>4. \A v \in L(r) : q[v] = r[v] BY <1>1 DEF Held
<1>5. L(q) = L(r)
  <2>1. \A v \in L(q) : v \in L(r) BY <1>3 DEF Held
  <2>2. \A v \in L(r) : v \in L(q) BY <1>4 DEF Held
  <2> HIDE DEF L
  <2> QED BY <2>1, <2>2
<1>6. LeavesForEpoch(q, e) = {<<w, q[w].c>> : w \in L(q)} /\ LeavesForEpoch(r, e) = {<<w, r[w].c>> : w \in L(r)}
  BY DEF LeavesForEpoch
<1>7. \A v \in L(r) : q[v].c = r[v].c BY <1>4
<1> HIDE DEF L
<1> QED BY <1>5, <1>6, <1>7

\* Admissions keep caches exact and shown roots what they were.
LEMMA GrowthKeeps ==
    ASSUME RegSoundInv, RegTypes', reg' \in Grown(reg, rclock), UNCHANGED <<rclock, rootCache, shown>>
    PROVE  RegSoundInv'
<1>1. reg \in Regs /\ rclock \in Nat /\ Epoch(rclock) \in Nat /\ shown \subseteq Nat \X Roots BY ClockNat DEF RegSoundInv, RegTypes
<1>2. \A e \in Nat : e <= Epoch(rclock) => LeavesForEpoch(reg', e) = LeavesForEpoch(reg, e) BY <1>1, LeavesStay
<1>3. PICK c : c = rootCache OBVIOUS
<1>4. c \in Caches /\ \A i \in 1..Len(c) : c[i][1] <= Epoch(rclock) /\ c[i][2] = LeavesForEpoch(reg, c[i][1])
  BY <1>3 DEF RegSoundInv, ExactCaches
<1>5. \A i \in 1..Len(c) : c[i][1] \in Nat BY <1>4 DEF Caches
<1>6. c \in ExactCaches(reg', rclock) BY <1>2, <1>4, <1>5 DEF ExactCaches
<1>7. \A s \in shown : s[1] \in Nat BY <1>1
<1>8. \A s \in shown : s[1] <= Epoch(rclock) /\ s[2] = LeavesForEpoch(reg', s[1]) BY <1>2, <1>7 DEF RegSoundInv
<1>9. Sourced(reg') BY DEF Grown
<1> QED BY <1>3, <1>6, <1>8, <1>9 DEF RegSoundInv

\* A lookup keeps the cache exact, whatever else of it changes.
LEMMA CacheKeeps ==
    ASSUME RegSoundInv, RegTypes', rootCache' \in ExactCaches(reg, rclock), UNCHANGED <<rclock, reg, shown>>
    PROVE  RegSoundInv'
BY DEF RegSoundInv

\* Comparing roots leaves an exact cache.
LEMMA CompareExact == ASSUME RegSoundInv, CompareRoots PROVE rootCache' \in ExactCaches(reg, rclock)
<1>1. reg \in Regs /\ rclock \in Nat /\ Epoch(rclock) \in 0..Epoch(rclock) BY ClockNat DEF RegSoundInv, RegTypes
<1>2. rootCache' = Remember(reg, rootCache, Epoch(rclock)) BY DEF CompareRoots
<1> QED BY <1>1, <1>2, RememberExact DEF RegSoundInv

\* Every action keeps the invariant.
LEMMA RegSoundStays == ASSUME OneCommitment, RegSoundInv, RegistryNext PROVE RegSoundInv'
<1>0. RegTypes /\ RegTypes' BY RegTypesStay DEF RegSoundInv
<1>00. /\ rclock \in 0..MaxRegTime /\ rclock \in Nat /\ Epoch(rclock) \in 0..Epoch(rclock) /\ Epoch(rclock) \in Nat /\ reg \in Regs
       /\ Sourced(reg) /\ rootCache \in ExactCaches(reg, rclock) /\ reg \in Grown(reg, rclock)
  <2>1. reg \in Regs /\ Sourced(reg) BY DEF RegSoundInv, RegTypes
  <2> QED BY <2>1, <1>0, ClockNat, GrownSelf DEF RegSoundInv, RegTypes
<1>1. ASSUME NEW x \in Offers, Register(x) PROVE RegSoundInv'
  <2>1. reg' = Admit(reg, x, rclock) /\ UNCHANGED <<rclock, rootCache, shown>> BY <1>1 DEF Register
  <2>2. reg' \in Grown(reg, rclock) BY <1>00, <2>1, AdmitGrows
  <2> QED BY <1>0, <2>1, <2>2, GrowthKeeps
<1>2. CASE ShowRoot
  <2>1. PICK e : e = Epoch(rclock) OBVIOUS
  <2>2. shown' = shown \cup {<<e, RootForEpoch(reg, rootCache, e)>>} /\ rootCache' = Remember(reg, rootCache, e)
        /\ UNCHANGED <<rclock, reg>> BY <1>2, <2>1 DEF ShowRoot
  <2>3. rootCache' \in ExactCaches(reg, rclock) BY <1>00, <2>1, <2>2, RememberExact
  <2>4. RootForEpoch(reg, rootCache, e) = LeavesForEpoch(reg, e) BY <1>00, <2>1, LookupExact
  <2>5. ASSUME NEW s \in shown' PROVE s[1] <= Epoch(rclock) /\ s[2] = LeavesForEpoch(reg, s[1])
    <3>1. CASE s \in shown BY <3>1 DEF RegSoundInv
    <3>2. CASE s \notin shown
      <4>1. s = <<e, LeavesForEpoch(reg, e)>> BY <2>2, <2>4, <3>2
      <4>2. s[1] = e /\ s[2] = LeavesForEpoch(reg, e) BY <4>1
      <4> QED BY <1>00, <2>1, <4>2
    <3> QED BY <3>1, <3>2
  <2> QED BY <1>0, <1>00, <2>2, <2>3, <2>5 DEF RegSoundInv
<1>3. ASSUME NEW s \in shown, CheckProof(s) PROVE RegSoundInv'
  <2>1. rootCache' = RootScan(reg, rootCache, s[2], rclock).cache /\ UNCHANGED <<rclock, reg, shown>> BY <1>3 DEF CheckProof
  <2>2. Kept(reg, ExactCaches(reg, rclock), rclock) BY <1>00, RememberExact DEF Kept
  <2>3. RootScan(reg, rootCache, s[2], rclock).cache \in ExactCaches(reg, rclock) BY <1>00, <2>2, ScanKeeps
  <2> QED BY <1>0, <2>1, <2>3, CacheKeeps
<1>4. CASE RegistryTick
  <2>1. rclock' = rclock + 1 /\ UNCHANGED <<reg, rootCache, shown>> BY <1>4 DEF RegistryTick
  <2>2. Epoch(rclock) <= Epoch(rclock') /\ Epoch(rclock') \in Nat
    <3>1. rclock' \in Nat /\ rclock <= rclock' BY <1>00, <2>1
    <3> QED BY <1>00, <3>1, EpochMono, EpochNat
  <2>3. PICK c : c = rootCache OBVIOUS
  <2>4. c \in Caches /\ \A i \in 1..Len(c) : c[i][1] \in Nat /\ c[i][1] <= Epoch(rclock) /\ c[i][2] = LeavesForEpoch(reg, c[i][1])
    <3>1. c \in Caches /\ \A i \in 1..Len(c) : c[i][1] <= Epoch(rclock) /\ c[i][2] = LeavesForEpoch(reg, c[i][1])
      BY <1>00, <2>3 DEF ExactCaches
    <3> QED BY <3>1 DEF Caches
  <2>5. \A i \in 1..Len(c) : c[i][1] <= Epoch(rclock') BY <1>00, <2>2, <2>4
  <2>6. c \in ExactCaches(reg, rclock') BY <2>4, <2>5 DEF ExactCaches
  <2>7. \A s \in shown : s[1] \in Nat BY <1>0 DEF RegTypes
  <2>8. \A s \in shown : s[1] <= Epoch(rclock') /\ s[2] = LeavesForEpoch(reg, s[1]) BY <1>00, <2>2, <2>7 DEF RegSoundInv
  <2> QED BY <1>0, <1>00, <2>1, <2>3, <2>6, <2>8 DEF RegSoundInv
<1>5. CASE RegistryRestart
  <2>1. rootCache' = <<>> /\ UNCHANGED <<rclock, reg, shown>> BY <1>5 DEF RegistryRestart
  <2>2. <<>> \in ExactCaches(reg, rclock) BY RegNats DEF Caches, ExactCaches
  <2> QED BY <1>0, <2>1, <2>2, CacheKeeps
<1>6. CASE SyncProbe \/ SyncLost
  <2>1. UNCHANGED <<rclock, reg, rootCache, shown>> BY <1>6 DEF SyncProbe, SyncLost
  <2> QED BY <1>0, <1>00, <2>1, CacheKeeps
<1>7. CASE ProbeAnswer \/ PageRefused
  <2>1. CompareRoots /\ UNCHANGED <<rclock, reg, shown>> BY <1>7 DEF ProbeAnswer, PageRefused
  <2> QED BY <1>0, <2>1, CompareExact, CacheKeeps
<1>8. CASE PageArrives
  <2>1. UNCHANGED <<rclock, rootCache, shown>> BY <1>8 DEF PageArrives
  <2>2. PICK p : p.regs \subseteq PeerSet /\ reg' = AdmitPage(reg, p.regs, rclock) BY <1>0, <1>8, PageTypes
  <2>3. \A q \in Grown(reg, rclock) : \A x \in p.regs : Admit(q, x, rclock) \in Grown(reg, rclock) BY <1>00, <2>2, AdmitGrows
  <2>4. reg' \in Grown(reg, rclock) BY <1>00, <2>2, <2>3, PageKeeps
  <2> QED BY <1>0, <2>1, <2>4, GrowthKeeps
<1> QED BY <1>1, <1>2, <1>3, <1>4, <1>5, <1>6, <1>7, <1>8 DEF RegistryNext, SyncStep

\* What is inside the window is inside the scan.
LEMMA WindowScanned ==
    ASSUME NEW t \in Nat, NEW e \in Nat, t < (e + 1) * EpochLength + EffectiveWindow
    PROVE  OldestEpoch(t) <= e
<1> DEFINE L == EpochLength
           ceil == (RootWindow + L - 1) \div L
           cap == MaxRootScan * L
<1>1. L \in Nat /\ L > 0 /\ RootWindow \in Nat /\ MaxRootScan \in Nat BY RegNats
<1>2. cap \in Nat BY <1>1
<1>3. ceil \in Nat /\ RootWindow <= ceil * L
  <2>1. PICK w \in Nat : w = RootWindow + L - 1 BY <1>1
  <2>2. w \div L \in Nat /\ w % L \in 0..(L - 1) /\ w = L * (w \div L) + (w % L) BY <1>1, <2>1
  <2>3. PICK d \in Nat, m \in Nat : d = w \div L /\ m = w % L /\ m <= L - 1 BY <1>1, <2>2
  <2>4. PICK z \in Nat : z = L * d BY <1>1, <2>3
  <2>5. d * L = L * d BY <1>1, <2>3
  <2>6. w = z + m BY <2>2, <2>3, <2>4
  <2>7. RootWindow <= z BY <1>1, <2>1, <2>3, <2>6
  <2> QED BY <2>1, <2>3, <2>4, <2>5, <2>7
<1>4. EffectiveWindow \in Nat /\ EffectiveWindow <= RootWindow /\ EffectiveWindow <= cap
  <2> DEFINE S == {RootWindow, cap}
  <2>1. S \subseteq Nat /\ S # {} /\ RootWindow \in S /\ cap \in S BY <1>1, <1>2
  <2>2. EffectiveWindow = Min(S) BY DEF EffectiveWindow
  <2> HIDE DEF S
  <2>3. Min(S) \in S /\ \A m \in S : Min(S) <= m BY <2>1, MinIsLeast
  <2> QED BY <2>1, <2>2, <2>3
<1>5. ScanSpan \in Nat /\ (ScanSpan = ceil \/ ScanSpan = MaxRootScan)
  <2> DEFINE S == {ceil, MaxRootScan}
  <2> HIDE DEF ceil
  <2>1. S \subseteq Nat /\ S # {} BY <1>1, <1>3
  <2>2. ScanSpan = Min(S) BY DEF ScanSpan, ceil
  <2>3. Min(S) \in S
    <3> HIDE DEF S
    <3> QED BY <2>1, MinIsLeast
  <2> QED BY <2>1, <2>2, <2>3
<1>6. PICK sp \in Nat : sp = ScanSpan BY <1>5
<1>7. EffectiveWindow <= sp * L
  <2> HIDE DEF ceil
  <2>1. CASE sp = ceil
    <3>1. sp * L \in Nat BY <1>1
    <3> QED BY <1>1, <1>3, <1>4, <2>1, <3>1
  <2>2. CASE sp = MaxRootScan BY <1>2, <1>4, <2>2
  <2> QED BY <1>5, <1>6, <2>1, <2>2
<1>8. PICK E \in Nat : E = Epoch(t) BY EpochNat
<1>9. E * L <= t
  <2>1. t \div L \in Nat /\ t % L \in Nat /\ t = L * (t \div L) + (t % L) BY <1>1
  <2>2. E = t \div L BY <1>8 DEF Epoch
  <2>3. PICK z \in Nat : z = L * E BY <1>1
  <2>4. E * L = z BY <1>1, <2>3
  <2>5. z <= t BY <2>1, <2>2, <2>3
  <2> QED BY <2>4, <2>5
<1>10. E <= e + sp
  <2> SUFFICES ASSUME ~(E <= e + sp) PROVE FALSE OBVIOUS
  <2>1. PICK k \in Nat : k = e + 1 OBVIOUS
  <2>2. k + sp \in Nat /\ k + sp <= E BY <2>1
  <2>3. (k + sp) * L <= E * L BY <1>1, <2>2, ProductMono
  <2>4. (k + sp) * L = k * L + sp * L BY <1>1, ProductSum
  <2>5. PICK u \in Nat : u = k * L BY <1>1
  <2>6. PICK v \in Nat : v = sp * L BY <1>1
  <2>7. PICK z \in Nat : z = E * L BY <1>1
  <2>8. u + v <= z /\ z <= t BY <1>9, <2>3, <2>4, <2>5, <2>6, <2>7
  <2>9. t < u + EffectiveWindow BY <2>1, <2>5
  <2> QED BY <1>4, <1>7, <2>6, <2>8, <2>9
<1> QED BY <1>6, <1>8, <1>10 DEF OldestEpoch

\* As long as no wallet brings a second commitment: the cache of roots is exact and every
\* root a client was given is accepted for the whole effective window, whatever is
\* registered, evicted, synced or restarted in between (accepts_anon_root).
THEOREM RegistryIsSound == ASSUME OneCommitment PROVE RegistrySpec => []RegistrySound
<1>1. RegistryInit => RegSoundInv
  <2> SUFFICES ASSUME RegistryInit PROVE RegSoundInv OBVIOUS
  <2>1. RegTypes BY RegStarts
  <2>2. Sourced(reg) BY DEF RegistryInit, Sourced
  <2>3. rootCache = <<>> /\ shown = {} BY DEF RegistryInit
  <2>4. rootCache \in ExactCaches(reg, rclock) BY <2>1, <2>3 DEF ExactCaches, RegTypes
  <2> QED BY <2>1, <2>2, <2>3, <2>4 DEF RegSoundInv
<1>2. RegSoundInv /\ [RegistryNext]_registryVars => RegSoundInv'
  <2>1. CASE RegistryNext BY <2>1, RegSoundStays
  <2>2. CASE UNCHANGED registryVars BY <2>2 DEF registryVars, RegSoundInv, RegTypes
  <2> QED BY <2>1, <2>2
<1>3. RegSoundInv => RegistrySound
  <2> SUFFICES ASSUME RegSoundInv PROVE RegistrySound OBVIOUS
  <2>1. RegistryTypeOK BY TypesAre DEF RegSoundInv
  <2>2. CacheIsExact
    <3>1. rootCache \in Seq(Nat \X Roots) BY DEF RegSoundInv, RegTypes, Caches
    <3>2. DOMAIN rootCache = 1..Len(rootCache) BY <3>1
    <3> QED BY <3>2 DEF RegSoundInv, ExactCaches, CacheIsExact
  <2>3. ASSUME NEW s \in shown, rclock < (s[1] + 1) * EpochLength + EffectiveWindow PROVE AcceptsRoot(reg, rootCache, s[2], rclock)
    <3>1. rclock \in Nat /\ reg \in Regs /\ s[1] \in Nat BY ClockNat DEF RegSoundInv, RegTypes
    <3>2. OldestEpoch(rclock) <= s[1] BY <2>3, <3>1, WindowScanned
    <3>3. s[1] <= Epoch(rclock) /\ s[2] = LeavesForEpoch(reg, s[1]) BY DEF RegSoundInv
    <3>4. PICK e \in Nat : e = s[1] BY <3>1
    <3>5. AcceptsRoot(reg, rootCache, LeavesForEpoch(reg, e), rclock) BY <3>1, <3>2, <3>3, <3>4, ScanFinds DEF RegSoundInv
    <3> QED BY <3>3, <3>4, <3>5
  <2> QED BY <2>1, <2>2, <2>3 DEF RegistrySound, ShownRootsAccepted
<1> QED BY <1>1, <1>2, <1>3, PTL DEF RegistrySpec
================================================================================
